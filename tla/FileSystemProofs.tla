-------------------------- MODULE FileSystemProofs --------------------------
(* The file system, for disks of any size and geometry, any names and any     *)
(* depth of directories.                                                      *)
EXTENDS FileSystemInvariants, FiniteSetTheorems, SequenceTheorems, TLAPS

-----------------------------------------------------------------------------

(* Loops.  A set of natural numbers has a least one; so a loop that is given  *)
(* by what one round does has a result, and what every round keeps the result *)
(* has.                                                                       *)
LEMMA LeastNatural ==
  ASSUME NEW T \in SUBSET Nat, T # {}
  PROVE  \E x \in T : \A y \in T : x <= y
<1> DEFINE R == {ss \in Nat \X Nat : ss[1] < ss[2]}
<1>1. IsWellFoundedOn(R, Nat)
  BY NatLessThanWellFounded DEF OpToRel
<1>2. \E x \in T : \A y \in T : ~(<<y, x>> \in R)
  <2> HIDE DEF R
  <2> QED BY <1>1, WFMin
<1>3. ASSUME NEW x \in Nat, NEW y \in Nat, ~(<<y, x>> \in R) PROVE x <= y
  BY <1>3
<1> QED BY <1>2, <1>3

LEMMA Recursion ==
  ASSUME NEW S, NEW n \in Nat, NEW g \in S, NEW F \in [S \X (1 .. n) -> S]
  PROVE  \E f \in [0 .. n -> S] : Recurs(f, g, n, F)
<1> DEFINE Goes(m, f) == f[0] = g /\ \A i \in 1 .. m : f[i] = F[<<f[i - 1], i>>]
           Bad == {m \in 0 .. n : ~\E f \in [0 .. m -> S] : Goes(m, f)}
<1>1. SUFFICES ASSUME Bad # {} PROVE FALSE
  <2>1. n \notin Bad
    BY <1>1
  <2> QED BY <2>1 DEF Recurs
<1>2. PICK m \in Bad : \A k \in Bad : m <= k
  <2>1. Bad \in SUBSET Nat
    OBVIOUS
  <2> HIDE DEF Bad
  <2> QED BY <1>1, <2>1, LeastNatural
<1>3. m # 0
  <2>1. [i \in 0 .. 0 |-> g] \in [0 .. 0 -> S] /\ Goes(0, [i \in 0 .. 0 |-> g])
    OBVIOUS
  <2>2. 0 \notin Bad
    BY <2>1
  <2> QED BY <1>2, <2>2
<1>4. m \in 1 .. n /\ m - 1 \in 0 .. n /\ m - 1 \notin Bad
  BY <1>2, <1>3
<1>5. PICK f \in [0 .. m - 1 -> S] : Goes(m - 1, f)
  BY <1>4
<1> DEFINE next == F[<<f[m - 1], m>>]
           h == [i \in 0 .. m |-> IF i = m THEN next ELSE f[i]]
<1>6. next \in S
  <2>1. f[m - 1] \in S
    BY <1>4, <1>5
  <2> QED BY <1>4, <2>1
<1>7. h \in [0 .. m -> S]
  <2> HIDE DEF next
  <2> QED BY <1>4, <1>5, <1>6
<1>8. h[0] = g
  BY <1>4, <1>5
<1>9. ASSUME NEW i \in 1 .. m PROVE h[i] = F[<<h[i - 1], i>>]
  <2>1. h[i - 1] = f[i - 1]
    BY <1>4
  <2>2. CASE i = m
    BY <1>4, <2>1, <2>2
  <2>3. CASE i # m
    <3>1. i \in 1 .. m - 1 /\ h[i] = f[i]
      BY <1>4, <2>3
    <3> QED BY <1>5, <2>1, <3>1
  <2> QED BY <2>2, <2>3
<1> HIDE DEF h
<1>10. m \notin Bad
  BY <1>7, <1>8, <1>9
<1> QED BY <1>2, <1>10

LEMMA Rounds ==
  ASSUME NEW S, NEW n \in Nat, NEW f, f[0] \in S,
         \A i \in 1 .. n : f[i - 1] \in S => f[i] \in S
  PROVE  \A i \in 0 .. n : f[i] \in S
<1> DEFINE Bad == {i \in 0 .. n : f[i] \notin S}
<1>1. SUFFICES ASSUME Bad # {} PROVE FALSE
  OBVIOUS
<1>2. PICK i \in Bad : \A k \in Bad : i <= k
  <2>1. Bad \in SUBSET Nat
    OBVIOUS
  <2> HIDE DEF Bad
  <2> QED BY <1>1, <2>1, LeastNatural
<1>3. i # 0 /\ i - 1 \in 0 .. n /\ i - 1 \notin Bad
  BY <1>2
<1> QED BY <1>2, <1>3

LEMMA IndexedRounds ==
  ASSUME NEW n \in Nat, NEW P \in SUBSET Nat, 0 \in P, \A i \in 1 .. n : i - 1 \in P => i \in P
  PROVE  \A i \in 0 .. n : i \in P
<1> DEFINE f == [i \in 0 .. n |-> i]
<1>1. f[0] \in P /\ \A i \in 1 .. n : f[i - 1] \in P => f[i] \in P
  OBVIOUS
<1>2. \A i \in 0 .. n : f[i] = i
  OBVIOUS
<1> HIDE DEF f
<1>3. \A i \in 0 .. n : f[i] \in P
  BY <1>1, Rounds
<1> QED BY <1>2, <1>3

LEMMA IndirectRounds ==
  ASSUME NEW S, NEW limit \in Nat, NEW n, NEW g \in S, IndirectStays(S, limit, n)
  PROVE  IndirectRun(S, g, limit, n)
<1> DEFINE F == [x \in S \X (1 .. limit) |-> IndirectTurn(n, x[1], x[2])]
           Loop(f) == [i \in 0 .. limit |->
                         IF i = 0 THEN g ELSE IndirectTurn(n, f[i - 1], i)]
           asked == CHOOSE f : f = Loop(f)
<1>1. F \in [S \X (1 .. limit) -> S]
  BY DEF IndirectStays
<1>2. PICK f \in [0 .. limit -> S] :
        f[0] = g /\ \A i \in 1 .. limit : f[i] = F[<<f[i - 1], i>>]
  <2> HIDE DEF F
  <2>1. \E f \in [0 .. limit -> S] : Recurs(f, g, limit, F)
    BY <1>1, Recursion
  <2> QED BY <2>1 DEF Recurs
<1>3. ASSUME NEW i \in 1 .. limit PROVE f[i] = IndirectTurn(n, f[i - 1], i)
  <2>1. f[i - 1] \in S
    BY <1>2
  <2>2. F[<<f[i - 1], i>>] = IndirectTurn(n, f[i - 1], i)
    BY <2>1
  <2> QED BY <1>2, <2>2
<1>4. f = Loop(f)
  BY <1>2, <1>3
<1>5. asked = Loop(asked)
  BY <1>4
<1>6. IndirectBelow(g, limit, n) = asked[limit]
  BY DEF IndirectBelow, IndirectTurn, AllocateBelow
<1> HIDE DEF asked
<1>7. asked[0] = g /\ \A i \in 1 .. limit : asked[i] = IndirectTurn(n, asked[i - 1], i)
  BY <1>5
<1>8. \A i \in 0 .. limit : asked[i] \in S
  BY <1>7, Rounds DEF IndirectStays
<1>9. asked = [i \in 0 .. limit |-> asked[i]]
  BY <1>5
<1>10. asked \in [0 .. limit -> S]
  BY <1>8, <1>9
<1> QED BY <1>6, <1>7, <1>10 DEF IndirectRun

LEMMA DoubleRounds ==
  ASSUME NEW S, NEW limit \in Nat, NEW n, NEW g \in S, DoubleStays(S, limit, n)
  PROVE  DoubleRun(S, g, limit, n)
<1> DEFINE F == [x \in S \X (1 .. limit) |-> DoubleTurn(n, x[1], x[2])]
           Loop(f) == [i \in 0 .. limit |->
                         IF i = 0 THEN g ELSE DoubleTurn(n, f[i - 1], i)]
           asked == CHOOSE f : f = Loop(f)
<1>1. F \in [S \X (1 .. limit) -> S]
  BY DEF DoubleStays
<1>2. PICK f \in [0 .. limit -> S] :
        f[0] = g /\ \A i \in 1 .. limit : f[i] = F[<<f[i - 1], i>>]
  <2> HIDE DEF F
  <2>1. \E f \in [0 .. limit -> S] : Recurs(f, g, limit, F)
    BY <1>1, Recursion
  <2> QED BY <2>1 DEF Recurs
<1>3. ASSUME NEW i \in 1 .. limit PROVE f[i] = DoubleTurn(n, f[i - 1], i)
  <2>1. f[i - 1] \in S
    BY <1>2
  <2>2. F[<<f[i - 1], i>>] = DoubleTurn(n, f[i - 1], i)
    BY <2>1
  <2> QED BY <1>2, <2>2
<1>4. f = Loop(f)
  BY <1>2, <1>3
<1>5. asked = Loop(asked)
  BY <1>4
<1>6. DoubleBelow(g, limit, n) = asked[limit]
  BY DEF DoubleBelow, DoubleTurn, AllocateBelow
<1> HIDE DEF asked
<1>7. asked[0] = g /\ \A i \in 1 .. limit : asked[i] = DoubleTurn(n, asked[i - 1], i)
  BY <1>5
<1>8. \A i \in 0 .. limit : asked[i] \in S
  BY <1>7, Rounds DEF DoubleStays
<1>9. asked = [i \in 0 .. limit |-> asked[i]]
  BY <1>5
<1>10. asked \in [0 .. limit -> S]
  BY <1>8, <1>9
<1> QED BY <1>6, <1>7, <1>10 DEF DoubleRun

LEMMA IndirectLoop ==
  ASSUME NEW S, NEW limit \in Nat, NEW n, NEW g \in S, IndirectStays(S, limit, n)
  PROVE  IndirectBelow(g, limit, n) \in S
<1>1. PICK f \in [0 .. limit -> S] : IndirectBelow(g, limit, n) = f[limit]
  <2>1. IndirectRun(S, g, limit, n)
    BY IndirectRounds
  <2> QED BY <2>1 DEF IndirectRun
<1> QED BY <1>1

LEMMA DoubleLoop ==
  ASSUME NEW S, NEW limit \in Nat, NEW n, NEW g \in S, DoubleStays(S, limit, n)
  PROVE  DoubleBelow(g, limit, n) \in S
<1>1. PICK f \in [0 .. limit -> S] : DoubleBelow(g, limit, n) = f[limit]
  <2>1. DoubleRun(S, g, limit, n)
    BY DoubleRounds
  <2> QED BY <2>1 DEF DoubleRun
<1> QED BY <1>1

-----------------------------------------------------------------------------

(* Free sectors.                                                              *)
LEMMA MinOfTwo ==
  ASSUME NEW a \in Int, NEW b \in Int
  PROVE  Min({a, b}) \in Int /\ Min({a, b}) <= a /\ Min({a, b}) <= b
         /\ (Min({a, b}) = a \/ Min({a, b}) = b)
<1>1. \E x \in {a, b} : \A y \in {a, b} : x <= y
  <2>1. CASE a <= b
    BY <2>1
  <2>2. CASE ~(a <= b)
    BY <2>2
  <2> QED BY <2>1, <2>2
<1>2. Min({a, b}) \in {a, b} /\ \A y \in {a, b} : Min({a, b}) <= y
  BY <1>1 DEF Min
<1> QED BY <1>2

LEMMA LeastIsMin ==
  ASSUME NEW T \in SUBSET Nat, T # {}
  PROVE  Min(T) \in T /\ \A y \in T : Min(T) <= y
BY LeastNatural DEF Min

(* The constants of the disk. *)
LEMMA DiskFacts ==
  /\ NumSectors \in Nat \ {0} /\ SectorSize \in Nat \ {0}
  /\ MaxBlocksNum \in Nat \ {0} /\ NumDirect \in Nat \ {0}
  /\ Sector \in SUBSET Nat /\ IsFiniteSet(Sector)
  /\ FreeMapSector \in Sector /\ DirectorySector \in Sector /\ FreeMapSector # DirectorySector
  /\ NoSector \notin Sector
<1>1. /\ NumSectors \in Nat /\ SectorSize \in Nat /\ SectorSize > 3 /\ NumSectors > 1
      /\ NoSector \notin 0 .. NumSectors - 1
  BY DiskAssumption DEF DirectorySector
<1>2. MaxBlocksNum = SectorSize /\ NumDirect = SectorSize - 2
  BY <1>1 DEF MaxBlocksNum, NumDirect, IntSize
<1>3. IsFiniteSet(0 .. NumSectors - 1)
  BY <1>1, FS_Interval
<1> QED BY <1>1, <1>2, <1>3 DEF Sector, FreeMapSector, DirectorySector

LEMMA ClearFinite ==
  ASSUME NEW map
  PROVE  Clear(map) \in SUBSET Sector /\ IsFiniteSet(Clear(map))
         /\ Cardinality(Clear(map)) \in Nat
<1>1. Clear(map) \in SUBSET Sector
  BY DEF Clear
<1> QED BY <1>1, DiskFacts, FS_Subset, FS_CardinalityType

LEMMA FindClearFacts ==
  ASSUME NEW map
  PROVE  FindClear(map) # NoSector => FindClear(map) \in Sector \ map
<1>1. CASE Clear(map) = {}
  BY <1>1 DEF FindClear
<1>2. CASE Clear(map) # {}
  <2>1. Clear(map) \in SUBSET Nat
    BY ClearFinite, DiskFacts
  <2>2. Min(Clear(map)) \in Clear(map)
    BY <1>2, <2>1, LeastIsMin
  <2> QED BY <1>2, <2>2 DEF FindClear, Clear
<1> QED BY <1>1, <1>2

(* The elements of a set of numbers can be counted from the least one on.     *)
LEMMA RankExists ==
  ASSUME NEW m \in Nat, NEW C \in SUBSET (0 .. m - 1), NEW i \in 1 .. Cardinality(C)
  PROVE  \E s \in C : Cardinality({t \in C : t < s}) = i - 1
<1> DEFINE Lower(n) == {t \in C : t < n}
           T == {n \in Nat : Cardinality(Lower(n)) >= i}
<1>1. IsFiniteSet(C) /\ Cardinality(C) \in Nat /\ i \in Nat \ {0} /\ i <= Cardinality(C)
  <2>1. IsFiniteSet(0 .. m - 1)
    BY FS_Interval
  <2>2. IsFiniteSet(C)
    BY <2>1, FS_Subset
  <2> QED BY <2>2, FS_CardinalityType
<1>2. \A n \in Nat : IsFiniteSet(Lower(n)) /\ Cardinality(Lower(n)) \in Nat
  <2>1. \A n \in Nat : Lower(n) \in SUBSET C
    OBVIOUS
  <2> HIDE DEF Lower
  <2> QED BY <1>1, <2>1, FS_Subset, FS_CardinalityType
<1>0. \A t \in C : t \in Nat /\ t < m
  OBVIOUS
<1>3. Lower(m) = C /\ Lower(0) = {}
  <2>1. \A t \in C : t < m /\ ~(t < 0)
    BY <1>0
  <2> QED BY <2>1, Zenon
<1> HIDE DEF Lower
<1>4. m \in T
  BY <1>1, <1>3
<1>5. PICK n \in T : \A k \in T : n <= k
  <2>1. T \in SUBSET Nat
    OBVIOUS
  <2> HIDE DEF T
  <2> QED BY <1>4, <2>1, LeastNatural
<1>6. n # 0
  BY <1>1, <1>3, <1>5, FS_EmptySet
<1>7. n - 1 \in Nat /\ Cardinality(Lower(n - 1)) < i
  BY <1>1, <1>2, <1>5, <1>6
<1>8. n - 1 \in C
  <2>1. ASSUME n - 1 \notin C PROVE Lower(n) = Lower(n - 1)
    <3>1. \A t \in C : t < n <=> t < n - 1
      BY <1>0, <1>5, <2>1
    <3> QED BY <3>1 DEF Lower
  <2> QED BY <1>5, <1>7, <1>2, <2>1
<1>9. Lower(n) = Lower(n - 1) \cup {n - 1} /\ n - 1 \notin Lower(n - 1)
  <2>1. \A t \in C : t < n <=> t < n - 1 \/ t = n - 1
    BY <1>0, <1>5, <1>7
  <2>2. ~(n - 1 < n - 1)
    BY <1>7
  <2> QED BY <1>8, <2>1, <2>2 DEF Lower
<1>10. Cardinality(Lower(n)) = Cardinality(Lower(n - 1)) + 1
  BY <1>2, <1>7, <1>9, FS_AddElement
<1>11. Cardinality(Lower(n - 1)) = i - 1
  BY <1>1, <1>2, <1>5, <1>7, <1>10
<1> QED BY <1>8, <1>11 DEF Lower

(* The k first free sectors are free and no two of them the same.             *)
LEMMA FirstClearFacts ==
  ASSUME NEW map, NEW k \in Nat, k <= Cardinality(Clear(map))
  PROVE  /\ FirstClear(map, k) \in Seq(Sector) /\ Len(FirstClear(map, k)) = k
         /\ Range(FirstClear(map, k)) \subseteq Clear(map)
         /\ IsInjective(FirstClear(map, k))
<1> DEFINE C == Clear(map)
           Rank(s) == Cardinality({t \in C : t < s})
           f == FirstClear(map, k)
<1>1. C \in SUBSET (0 .. NumSectors - 1) /\ NumSectors \in Nat /\ Cardinality(C) \in Nat
  BY ClearFinite, DiskFacts DEF Sector
<1>2. ASSUME NEW i \in 1 .. k PROVE f[i] \in C /\ Rank(f[i]) = i - 1
  <2>1. i \in 1 .. Cardinality(C)
    BY <1>1
  <2>2. \E s \in C : Rank(s) = i - 1
    <3> HIDE DEF C
    <3> QED BY <1>1, <2>1, RankExists
  <2>3. f[i] = CHOOSE s \in C : Rank(s) = i - 1
    BY Zenon DEF FirstClear
  <2> HIDE DEF C, Rank, f
  <2> QED BY <2>2, <2>3
<1>3. DOMAIN f = 1 .. k /\ f \in [1 .. k -> C] /\ f = [i \in 1 .. k |-> f[i]]
  <2> DEFINE e(i) == CHOOSE s \in C : Rank(s) = i - 1
  <2>1. f = [i \in 1 .. k |-> e(i)]
    BY Zenon DEF FirstClear
  <2> HIDE DEF f, C, e
  <2> QED BY <1>2, <2>1
<1>4. f \in Seq(C) /\ Len(f) = k
  <2> HIDE DEF f, C
  <2> QED BY <1>3
<1>5. f \in Seq(Sector)
  <2>1. C \subseteq Sector
    BY DEF Clear
  <2> HIDE DEF f, C
  <2> QED BY <1>4, <2>1, SeqMonotonic
<1>6. Range(f) \subseteq C
  <2> HIDE DEF f, C
  <2> QED BY <1>3 DEF Range
<1>7. IsInjective(f)
  <2> HIDE DEF f, C, Rank
  <2>1. \A i, j \in 1 .. k : f[i] = f[j] => i = j
    BY <1>2
  <2> QED BY <1>3, <2>1 DEF IsInjective
<1> QED BY <1>4, <1>5, <1>6, <1>7

-----------------------------------------------------------------------------

(* Allocation keeps the types, never gives a sector back, and fills no block  *)
(* beyond its end.                                                            *)
LEMMA GoingIs ==
  ASSUME NEW map, NEW limit, NEW h
  PROVE  h \in Going(map, limit) <=>
           /\ h \in Allocation /\ BlocksFit(h.block)
           /\ Len(h.sectors) <= limit /\ map \subseteq h.map
BY DEF Going

LEMMA CountChanges ==
  ASSUME NEW map, NEW limit \in Nat, NEW g \in Going(map, limit), NEW c \in Int
  PROVE  [g EXCEPT !.count = c] \in Going(map, limit)
<1> DEFINE r == [g EXCEPT !.count = c]
<1> SUFFICES r \in Going(map, limit)
  OBVIOUS
<1>1. g \in Allocation
  BY GoingIs
<1>2. r \in Allocation /\ r.block = g.block /\ r.map = g.map /\ r.sectors = g.sectors
  BY <1>1 DEF Allocation
<1>3. BlocksFit(g.block) /\ Len(g.sectors) <= limit /\ map \subseteq g.map
  BY GoingIs
<1> HIDE DEF r
<1> QED BY <1>2, <1>3, GoingIs

LEMMA AllocationDies ==
  ASSUME NEW map, NEW limit \in Nat, NEW g \in Going(map, limit)
  PROVE  [g EXCEPT !.dead = TRUE] \in Going(map, limit)
<1> DEFINE r == [g EXCEPT !.dead = TRUE]
<1> SUFFICES r \in Going(map, limit)
  OBVIOUS
<1>1. g \in Allocation
  BY GoingIs
<1>2. r \in Allocation /\ r.block = g.block /\ r.map = g.map /\ r.sectors = g.sectors
  BY <1>1 DEF Allocation
<1>3. BlocksFit(g.block) /\ Len(g.sectors) <= limit /\ map \subseteq g.map
  BY GoingIs
<1> HIDE DEF r
<1> QED BY <1>2, <1>3, GoingIs

LEMMA PartOfSeq ==
  ASSUME NEW S, NEW q \in Seq(S)
  PROVE  Len(q) \in Nat /\ Range(q) \subseteq S /\ \A i \in 1 .. Len(q) : q[i] \in S
BY DEF Range

LEMMA IndirectAllocateFacts ==
  ASSUME NEW map, NEW limit \in Nat, NEW g \in Going(map, limit),
         NEW s \in Sector, NEW n \in Nat
  PROVE  IndirectAllocate(g, s, n) \in Going(map, limit)
<1> DEFINE k == Min({n, MaxBlocksNum - Len(g.block[s])})
           taken == FirstClear(g.map, k)
           r == [g EXCEPT !.map = @ \cup Range(taken), !.block[s] = @ \o taken, !.count = k]
<1>1. /\ g \in Allocation /\ BlocksFit(g.block) /\ Len(g.sectors) <= limit /\ map \subseteq g.map
      /\ g.block[s] \in Seq(Sector) /\ Len(g.block[s]) \in Nat
      /\ Len(g.block[s]) <= MaxBlocksNum /\ MaxBlocksNum \in Nat
  BY GoingIs, DiskFacts DEF Allocation, BlocksFit
<1>2. k \in Nat /\ k <= n /\ k <= MaxBlocksNum - Len(g.block[s])
  <2>1. MaxBlocksNum - Len(g.block[s]) \in Nat /\ n \in Int
    BY <1>1
  <2> DEFINE room == MaxBlocksNum - Len(g.block[s])
  <2>2. room \in Int /\ room \in Nat
    BY <2>1
  <2> HIDE DEF room
  <2>3. Min({n, room}) \in Nat /\ Min({n, room}) <= n /\ Min({n, room}) <= room
    BY <2>1, <2>2, MinOfTwo
  <2> QED BY <2>3 DEF room
<1>3. CASE Cardinality(Clear(g.map)) < n
  <2>1. IndirectAllocate(g, s, n) = [g EXCEPT !.count = -1]
    BY <1>3 DEF IndirectAllocate
  <2> QED BY <2>1, CountChanges
<1>4. CASE ~(Cardinality(Clear(g.map)) < n)
  <2>1. IndirectAllocate(g, s, n) = r
    BY <1>4 DEF IndirectAllocate
  <2> HIDE DEF k
  <2>2. k <= Cardinality(Clear(g.map))
    BY <1>2, <1>4, ClearFinite
  <2>3. taken \in Seq(Sector) /\ Len(taken) = k /\ Range(taken) \subseteq Sector
    BY <1>2, <2>2, FirstClearFacts, PartOfSeq
  <2> HIDE DEF taken
  <2>4. /\ g.block[s] \o taken \in Seq(Sector)
        /\ Len(g.block[s] \o taken) <= MaxBlocksNum
    BY <1>1, <1>2, <2>3
  <2> DEFINE map2 == g.map \cup Range(taken)
             block2 == [g.block EXCEPT ![s] = g.block[s] \o taken]
  <2>8. r = [g EXCEPT !.map = map2, !.block = block2, !.count = k]
    BY Zenon
  <2>9. map2 \in SUBSET Sector /\ block2 \in [Sector -> Seq(Sector)] /\ map \subseteq map2
        /\ BlocksFit(block2)
    BY <1>1, <2>3, <2>4 DEF Allocation, BlocksFit
  <2> HIDE DEF map2, block2, r
  <2>5. /\ r \in Allocation /\ r.map = map2 /\ r.block = block2 /\ r.sectors = g.sectors
    <3>1. k \in Int
      BY <1>2
    <3> QED BY <1>1, <2>8, <2>9, <3>1 DEF Allocation
  <2> QED BY <1>1, <2>1, <2>5, <2>9, GoingIs
<1> QED BY <1>3, <1>4

(* One round of the loop that allocates, up to the blocks below. *)
LEMMA MadeFacts ==
  ASSUME NEW map, NEW limit \in Nat, NEW h \in Going(map, limit), NEW i \in 1 .. limit
  PROVE  LET isNew == i > Len(h.sectors)
             sector == IF isNew THEN FindClear(h.map) ELSE h.sectors[i]
             made == IF isNew
                     THEN [h EXCEPT !.map = @ \cup {sector}, !.block[sector] = <<>>,
                                    !.sectors = Append(@, sector)]
                     ELSE h
         IN sector # NoSector => sector \in Sector /\ made \in Going(map, limit)
<1>1. /\ h \in Allocation /\ BlocksFit(h.block) /\ Len(h.sectors) <= limit /\ map \subseteq h.map
      /\ h.sectors \in Seq(Sector) /\ Len(h.sectors) \in Nat
  BY GoingIs DEF Allocation
<1>2. CASE i > Len(h.sectors)
  <2> DEFINE x == FindClear(h.map)
             made == [h EXCEPT !.map = @ \cup {x}, !.block[x] = <<>>, !.sectors = Append(@, x)]
  <2>1. SUFFICES ASSUME x # NoSector PROVE x \in Sector /\ made \in Going(map, limit)
    BY <1>2
  <2>2. x \in Sector
    BY <2>1, FindClearFacts
  <2> HIDE DEF x
  <2>3. Append(h.sectors, x) \in Seq(Sector) /\ Len(Append(h.sectors, x)) = Len(h.sectors) + 1
    BY <1>1, <2>2
  <2>4. <<>> \in Seq(Sector) /\ Len(<<>>) = 0
    OBVIOUS
  <2>5. made.block = [h.block EXCEPT ![x] = <<>>]
        /\ made.map = h.map \cup {x} /\ made.sectors = Append(h.sectors, x)
    BY <1>1 DEF Allocation
  <2>6. BlocksFit(made.block)
    BY <1>1, <2>4, <2>5, DiskFacts DEF Allocation, BlocksFit
  <2>7. made \in Allocation
    BY <1>1, <2>2, <2>3, <2>4 DEF Allocation
  <2>8. Len(made.sectors) <= limit
    BY <1>1, <1>2, <2>3, <2>5
  <2> HIDE DEF made
  <2> QED BY <1>1, <2>2, <2>5, <2>6, <2>7, <2>8, GoingIs
<1>3. CASE ~(i > Len(h.sectors))
  <2>1. h.sectors[i] \in Sector
    BY <1>1, <1>3
  <2> QED BY <1>3, <2>1
<1> QED BY <1>2, <1>3

LEMMA JoinedFacts ==
  ASSUME NEW map, NEW limit \in Nat, NEW g \in Going(map, limit), NEW any \in Nat,
         NEW b \in Going(map, any)
  PROVE  Joined(g, b) \in Going(map, limit)
<1>1. g \in Allocation /\ b \in Allocation /\ BlocksFit(b.block) /\ Len(g.sectors) <= limit
      /\ map \subseteq b.map
  BY GoingIs
<1> DEFINE c == g.count + b.count
           r == [g EXCEPT !.map = b.map, !.block = b.block, !.count = c, !.dead = b.dead]
<1>2. Joined(g, b) = r
  BY Zenon DEF Joined
<1>3. c \in Int
  BY <1>1 DEF Allocation
<1> HIDE DEF c
<1>4. r \in Allocation /\ r.block = b.block /\ r.map = b.map /\ r.sectors = g.sectors
  BY <1>1, <1>3 DEF Allocation
<1> HIDE DEF r
<1> QED BY <1>1, <1>2, <1>4, GoingIs

LEMMA AskIndirect ==
  ASSUME NEW map, NEW limit \in Nat, NEW n \in Nat,
         NEW h \in Going(map, limit), NEW i \in 1 .. limit
  PROVE  Ask(IndirectAllocate, n, h, i) \in Going(map, limit)
<1> DEFINE isNew == i > Len(h.sectors)
           sector == IF isNew THEN FindClear(h.map) ELSE h.sectors[i]
           made == IF isNew
                   THEN [h EXCEPT !.map = @ \cup {sector}, !.block[sector] = <<>>,
                                  !.sectors = Append(@, sector)]
                   ELSE h
           below == IndirectAllocate(made, sector, n - h.count)
<1>1. Ask(IndirectAllocate, n, h, i) =
        IF h.dead \/ h.count >= n THEN h
        ELSE IF sector = NoSector THEN [h EXCEPT !.dead = TRUE]
        ELSE Joined(made, below)
  BY DEF Ask
<1>2. sector # NoSector => sector \in Sector /\ made \in Going(map, limit)
  BY MadeFacts
<1> HIDE DEF sector, made
<1>3. h.count \in Int
  BY GoingIs DEF Allocation
<1>4. ASSUME ~(h.count >= n), sector # NoSector PROVE below \in Going(map, limit)
  <2>1. n - h.count \in Nat
    BY <1>3, <1>4
  <2> QED BY <1>2, <1>4, <2>1, IndirectAllocateFacts
<1> HIDE DEF below
<1>5. [h EXCEPT !.dead = TRUE] \in Going(map, limit)
  BY AllocationDies
<1>6. ASSUME ~(h.count >= n), sector # NoSector PROVE Joined(made, below) \in Going(map, limit)
  BY <1>2, <1>4, <1>6, JoinedFacts
<1> QED BY <1>1, <1>5, <1>6

LEMMA DoubleAllocateFacts ==
  ASSUME NEW map, NEW limit \in Nat, NEW g \in Going(map, limit),
         NEW s \in Sector, NEW n \in Nat
  PROVE  \E any \in Nat : DoubleAllocate(g, s, n) \in Going(map, any)
<1> DEFINE start == [g EXCEPT !.sectors = g.block[s], !.count = 0]
           b == IndirectBelow(start, MaxBlocksNum, n)
<1>1. /\ g \in Allocation /\ BlocksFit(g.block) /\ map \subseteq g.map
      /\ g.block[s] \in Seq(Sector) /\ Len(g.block[s]) <= MaxBlocksNum /\ MaxBlocksNum \in Nat
  BY GoingIs, DiskFacts DEF Allocation, BlocksFit
<1>2. CASE Cardinality(Clear(g.map)) < n
  <2>1. DoubleAllocate(g, s, n) = [g EXCEPT !.count = -1]
    BY <1>2 DEF DoubleAllocate
  <2>2. [g EXCEPT !.count = -1] \in Going(map, limit)
    BY CountChanges
  <2> QED BY <2>1, <2>2
<1>3. CASE ~(Cardinality(Clear(g.map)) < n)
  <2>1. DoubleAllocate(g, s, n) = Filled(b, s)
    BY <1>3 DEF DoubleAllocate, IndirectBelow
  <2>2. start \in Going(map, MaxBlocksNum)
    <3> DEFINE q == g.block[s]
               zero == 0
               first == [g EXCEPT !.sectors = q, !.count = zero]
    <3>1. q \in Seq(Sector) /\ zero \in Int /\ first = start
      BY <1>1
    <3> HIDE DEF q, start, zero
    <3>2. first \in Allocation /\ first.block = g.block /\ first.map = g.map
          /\ first.sectors = q
      BY <1>1, <3>1 DEF Allocation
    <3> HIDE DEF first
    <3>3. first \in Going(map, MaxBlocksNum)
      <4>1. Len(q) <= MaxBlocksNum
        BY <1>1 DEF q
      <4> QED BY <1>1, <3>2, <4>1, GoingIs
    <3> QED BY <3>1, <3>3
  <2> HIDE DEF start
  <2>3. b \in Going(map, MaxBlocksNum)
    <3>1. IndirectStays(Going(map, MaxBlocksNum), MaxBlocksNum, n)
      BY <1>1, AskIndirect DEF IndirectStays, IndirectTurn
    <3> QED BY <1>1, <2>2, <3>1, IndirectLoop
  <2> HIDE DEF b
  <2>4. b \in Allocation /\ BlocksFit(b.block) /\ Len(b.sectors) <= MaxBlocksNum
        /\ map \subseteq b.map
    BY <2>3, GoingIs
  <2>5. [b EXCEPT !.block[s] = b.sectors] \in Going(map, MaxBlocksNum)
    <3> DEFINE block2 == [b.block EXCEPT ![s] = b.sectors]
               r == [b EXCEPT !.block = block2]
    <3>1. [b EXCEPT !.block[s] = b.sectors] = r
      BY Zenon
    <3>2. block2 \in [Sector -> Seq(Sector)] /\ BlocksFit(block2)
      BY <2>4 DEF Allocation, BlocksFit
    <3> HIDE DEF block2
    <3>3. r \in Allocation /\ r.block = block2 /\ r.map = b.map /\ r.sectors = b.sectors
      BY <2>4, <3>2 DEF Allocation
    <3> HIDE DEF r
    <3>4. r \in Going(map, MaxBlocksNum)
      BY <2>4, <3>2, <3>3, GoingIs
    <3> QED BY <3>1, <3>4
  <2> QED BY <1>1, <2>1, <2>3, <2>5 DEF Filled
<1> QED BY <1>2, <1>3

LEMMA AskDouble ==
  ASSUME NEW map, NEW limit \in Nat, NEW n \in Nat,
         NEW h \in Going(map, limit), NEW i \in 1 .. limit
  PROVE  Ask(DoubleAllocate, n, h, i) \in Going(map, limit)
<1> DEFINE isNew == i > Len(h.sectors)
           sector == IF isNew THEN FindClear(h.map) ELSE h.sectors[i]
           made == IF isNew
                   THEN [h EXCEPT !.map = @ \cup {sector}, !.block[sector] = <<>>,
                                  !.sectors = Append(@, sector)]
                   ELSE h
           below == DoubleAllocate(made, sector, n - h.count)
<1>1. Ask(DoubleAllocate, n, h, i) =
        IF h.dead \/ h.count >= n THEN h
        ELSE IF sector = NoSector THEN [h EXCEPT !.dead = TRUE]
        ELSE Joined(made, below)
  BY DEF Ask
<1>2. sector # NoSector => sector \in Sector /\ made \in Going(map, limit)
  BY MadeFacts
<1> HIDE DEF sector, made
<1>3. h.count \in Int
  BY GoingIs DEF Allocation
<1>4. ASSUME ~(h.count >= n), sector # NoSector
      PROVE  \E any \in Nat : below \in Going(map, any)
  <2>1. n - h.count \in Nat
    BY <1>3, <1>4
  <2> QED BY <1>2, <1>4, <2>1, DoubleAllocateFacts
<1> HIDE DEF below
<1>5. [h EXCEPT !.dead = TRUE] \in Going(map, limit)
  BY AllocationDies
<1>6. ASSUME ~(h.count >= n), sector # NoSector PROVE Joined(made, below) \in Going(map, limit)
  BY <1>2, <1>4, <1>6, JoinedFacts
<1> QED BY <1>1, <1>5, <1>6

-----------------------------------------------------------------------------

(* A disk as TypeOK wants it; a header in memory may have one pointer more.   *)
LEMMA DiskIs ==
  ASSUME NEW d
  PROVE  d \in Disk <=>
           /\ d \in [used : SUBSET Sector, header : [Sector -> FileHeader],
                     block : [Sector -> Seq(Sector)],
                     table : [Sector -> Table], lost : SUBSET Sector]
           /\ BlocksFit(d.block) /\ \A s \in Sector : Len(d.header[s].sectors) < NumDirect
BY DEF Disk, Table

LEMMA DiskParts ==
  ASSUME NEW d \in Disk
  PROVE  /\ d.used \in SUBSET Sector /\ d.header \in [Sector -> FileHeader]
         /\ d.block \in [Sector -> Seq(Sector)] /\ BlocksFit(d.block)
         /\ d.table \in [Sector -> Table] /\ d.lost \in SUBSET Sector
         /\ \A s \in Sector : d.header[s] \in OpenHeader /\ d.table[s] \in Table
<1>1. /\ d \in [used : SUBSET Sector, header : [Sector -> FileHeader],
                block : [Sector -> Seq(Sector)],
                table : [Sector -> Table], lost : SUBSET Sector]
      /\ BlocksFit(d.block) /\ \A s \in Sector : Len(d.header[s].sectors) < NumDirect
  BY DiskIs
<1>2. ASSUME NEW s \in Sector PROVE d.header[s] \in OpenHeader
  <2>1. d.header[s] \in FileHeader /\ Len(d.header[s].sectors) < NumDirect
    BY <1>1
  <2>2. Len(d.header[s].sectors) \in Nat
    BY <2>1 DEF FileHeader
  <2> QED BY <2>1, <2>2, DiskFacts DEF OpenHeader
<1> QED BY <1>1, <1>2

(* One part of the disk changes. *)
LEMMA DiskUsed ==
  ASSUME NEW d \in Disk, NEW x \in SUBSET Sector
  PROVE  /\ [d EXCEPT !.used = x] \in Disk /\ [d EXCEPT !.used = x].used = x
         /\ [d EXCEPT !.used = x].table = d.table /\ [d EXCEPT !.used = x].header = d.header
         /\ [d EXCEPT !.used = x].block = d.block
BY DEF Disk

LEMMA DiskBlock ==
  ASSUME NEW d \in Disk, NEW x \in [Sector -> Seq(Sector)], BlocksFit(x)
  PROVE  /\ [d EXCEPT !.block = x] \in Disk /\ [d EXCEPT !.block = x].used = d.used
         /\ [d EXCEPT !.block = x].table = d.table /\ [d EXCEPT !.block = x].header = d.header
         /\ [d EXCEPT !.block = x].block = x
BY DEF Disk

LEMMA DiskTable ==
  ASSUME NEW d \in Disk, NEW s \in Sector, NEW t \in Table
  PROVE  /\ [d EXCEPT !.table[s] = t] \in Disk /\ [d EXCEPT !.table[s] = t].used = d.used
         /\ [d EXCEPT !.table[s] = t].table = [d.table EXCEPT ![s] = t]
         /\ [d EXCEPT !.table[s] = t].header = d.header
         /\ [d EXCEPT !.table[s] = t].block = d.block
<1> DEFINE x == [d.table EXCEPT ![s] = t]
           r == [d EXCEPT !.table = x]
<1>1. [d EXCEPT !.table[s] = t] = r
  BY Zenon
<1>2. x \in [Sector -> Table]
  BY DiskParts
<1> HIDE DEF x
<1>3. r \in Disk /\ r.used = d.used /\ r.table = x /\ r.header = d.header /\ r.block = d.block
  BY <1>2 DEF Disk, Table
<1> QED BY <1>1, <1>3 DEF x

LEMMA PartOfTable ==
  ASSUME NEW t \in Table
  PROVE  /\ Len(t) \in Nat /\ DOMAIN t = 1 .. Len(t) /\ Range(t) \subseteq Entry \cup {FreeEntry}
         /\ \A i \in 1 .. Len(t) : t[i] \in Entry \cup {FreeEntry}
BY DEF Table, Range

LEMMA RoundupFacts ==
  ASSUME NEW n \in Nat
  PROVE  Roundup(n) \in Nat
<1>1. SectorSize \in Nat \ {0} /\ n + SectorSize - 1 \in Nat
  BY DiskFacts
<1> HIDE DEF Roundup
<1>2. \A a \in Nat : a \div SectorSize \in Nat
  BY <1>1
<1> QED BY <1>1, <1>2 DEF Roundup

LEMMA AllocateFacts ==
  ASSUME NEW block \in [Sector -> Seq(Sector)], BlocksFit(block), NEW map \in SUBSET Sector,
         NEW header \in OpenHeader, NEW size \in Nat
  PROVE  Granted(map, Allocate(block, map, header, size))
<1> DEFINE start == [map |-> map, block |-> block, sectors |-> header.sectors,
                     count |-> 0, dead |-> FALSE]
           n == Roundup(size)
           g == DoubleBelow(start, NumDirect, n)
           a == Allocate(block, map, header, size)
<1>1. header \in FileHeader /\ header.sectors \in Seq(Sector) /\ header.bytes \in Nat
      /\ Len(header.sectors) <= NumDirect
  BY DEF OpenHeader, FileHeader
<1>2. CASE Cardinality(Clear(map)) < n
  <2>1. a = [ok |-> FALSE, dead |-> FALSE, map |-> map, block |-> block, header |-> header]
    BY <1>2 DEF Allocate
  <2> HIDE DEF a
  <2>2. Granted(map, a)
    BY <2>1 DEF Granted
  <2> QED BY <2>2 DEF a
<1>3. CASE ~(Cardinality(Clear(map)) < n)
  <2>1. a = Allocated(g, header, size)
    BY <1>3 DEF Allocate, DoubleBelow
  <2>2. start \in Going(map, NumDirect)
    <3>1. start \in Allocation
      BY <1>1 DEF Allocation
    <3> QED BY <1>1, <3>1, GoingIs
  <2>3. n \in Nat /\ NumDirect \in Nat
    BY RoundupFacts, DiskFacts
  <2> HIDE DEF n, start
  <2>4. g \in Going(map, NumDirect)
    <3>1. DoubleStays(Going(map, NumDirect), NumDirect, n)
      BY <2>3, AskDouble DEF DoubleStays, DoubleTurn
    <3> QED BY <2>2, <2>3, <3>1, DoubleLoop
  <2> HIDE DEF g
  <2>5. g \in Allocation /\ BlocksFit(g.block) /\ Len(g.sectors) <= NumDirect
        /\ map \subseteq g.map
    BY <2>4, GoingIs
  <2>6. /\ a.ok = ~g.dead /\ a.dead = g.dead /\ a.map = g.map /\ a.block = g.block
        /\ a.header = [bytes |-> header.bytes + size, sectors |-> g.sectors]
    BY <2>1 DEF Allocated
  <2>7. a.header \in OpenHeader
    <3>1. header.bytes + size \in Nat
      BY <1>1
    <3>2. g.sectors \in Seq(Sector)
      BY <2>5 DEF Allocation
    <3> QED BY <2>5, <2>6, <3>1, <3>2 DEF OpenHeader, FileHeader
  <2> HIDE DEF a
  <2>8. Granted(map, a)
    BY <2>5, <2>6, <2>7 DEF Allocation, Granted
  <2> QED BY <2>8 DEF a
<1> QED BY <1>2, <1>3

-----------------------------------------------------------------------------

(* Writing files and directories.                                             *)
LEMMA PrefixOfSeq ==
  ASSUME NEW S, NEW q \in Seq(S), NEW k \in Nat, k <= Len(q)
  PROVE  /\ SubSeq(q, 1, k) \in Seq(S) /\ Len(SubSeq(q, 1, k)) = k
         /\ \A i \in 1 .. k : SubSeq(q, 1, k)[i] = q[i]
         /\ Range(SubSeq(q, k + 1, Len(q))) \subseteq S
<1>1. SubSeq(q, 1, k) \in Seq(S) /\ Len(SubSeq(q, 1, k)) = k
      /\ \A i \in 1 .. k : SubSeq(q, 1, k)[i] = q[i]
  OBVIOUS
<1>2. SubSeq(q, k + 1, Len(q)) \in Seq(S)
  OBVIOUS
<1> QED BY <1>1, <1>2, PartOfSeq

LEMMA WriteHeaderFacts ==
  ASSUME NEW d \in Disk, NEW s \in Sector, NEW h \in OpenHeader
  PROVE  /\ WriteHeader(d, s, h) \in Disk
         /\ WriteHeader(d, s, h).used = d.used /\ WriteHeader(d, s, h).table = d.table
         /\ WriteHeader(d, s, h).block = d.block
<1> DEFINE kept == Min({Len(h.sectors), NumDirect - 1})
           behind == SubSeq(h.sectors, kept + 1, Len(h.sectors))
           short == [h EXCEPT !.sectors = SubSeq(h.sectors, 1, kept)]
           header2 == [d.header EXCEPT ![s] = short]
           lost2 == d.lost \cup Range(behind)
           r == [d EXCEPT !.header = header2, !.lost = lost2]
<1>1. h \in FileHeader /\ h.sectors \in Seq(Sector) /\ Len(h.sectors) \in Nat /\ h.bytes \in Nat
  BY DEF OpenHeader, FileHeader
<1>2. kept \in Nat /\ kept <= Len(h.sectors) /\ kept < NumDirect
  <2> DEFINE length == Len(h.sectors)
             least == NumDirect - 1
  <2>1. least \in Int /\ least \in Nat /\ least < NumDirect /\ length \in Nat
        /\ length \in Int
    BY <1>1, DiskFacts
  <2> HIDE DEF length, least
  <2>2. Min({length, least}) \in Nat /\ Min({length, least}) <= length
        /\ Min({length, least}) <= least
    BY <2>1, MinOfTwo
  <2> QED BY <2>1, <2>2, DiskFacts DEF length, least
<1>3. WriteHeader(d, s, h) = r
  BY Zenon DEF WriteHeader
<1> HIDE DEF kept
<1>4. /\ SubSeq(h.sectors, 1, kept) \in Seq(Sector) /\ Len(SubSeq(h.sectors, 1, kept)) = kept
      /\ Range(behind) \subseteq Sector
  BY <1>1, <1>2, PrefixOfSeq
<1>5. short \in FileHeader /\ Len(short.sectors) < NumDirect
  BY <1>1, <1>2, <1>4 DEF FileHeader
<1> HIDE DEF behind, short
<1>6. header2 \in [Sector -> FileHeader] /\ \A x \in Sector : Len(header2[x].sectors) < NumDirect
      /\ lost2 \in SUBSET Sector
  BY <1>4, <1>5, DiskParts DEF Disk
<1> HIDE DEF header2, lost2
<1>7. r \in Disk /\ r.used = d.used /\ r.table = d.table /\ r.block = d.block
  BY <1>6 DEF Disk
<1> QED BY <1>3, <1>7

LEMMA ExtendFacts ==
  ASSUME NEW d \in Disk, NEW s \in Sector, NEW h \in OpenHeader, NEW n \in Nat
  PROVE  /\ Extend(d, s, h, Allocate(d.block, d.used, h, n)) \in Writing
         /\ Keeps(d, Extend(d, s, h, Allocate(d.block, d.used, h, n)).disk)
<1> DEFINE a == Allocate(d.block, d.used, h, n)
           d1 == [d EXCEPT !.block = a.block]
           d2 == WriteHeader(d1, s, a.header)
           d3 == [d2 EXCEPT !.used = a.map]
<1>1. /\ a.map \in SUBSET Sector /\ d.used \subseteq a.map
      /\ a.block \in [Sector -> Seq(Sector)] /\ BlocksFit(a.block) /\ a.header \in OpenHeader
  <2>1. d.block \in [Sector -> Seq(Sector)] /\ BlocksFit(d.block) /\ d.used \in SUBSET Sector
    BY DiskParts
  <2>2. Granted(d.used, a)
    BY <2>1, AllocateFacts
  <2> QED BY <2>2 DEF Granted
<1>2. Extend(d, s, h, a) = IF ~a.ok THEN [disk |-> d1, header |-> h, dead |-> TRUE]
                           ELSE [disk |-> d3, header |-> a.header, dead |-> FALSE]
  BY DEF Extend
<1> HIDE DEF a
<1>3. d1 \in Disk /\ d1.used = d.used /\ d1.table = d.table
  BY <1>1, DiskBlock
<1> HIDE DEF d1
<1>4. d2 \in Disk /\ d2.used = d.used /\ d2.table = d.table
  BY <1>1, <1>3, WriteHeaderFacts
<1> HIDE DEF d2
<1>5. d3 \in Disk /\ d3.used = a.map /\ d3.table = d.table
  BY <1>1, <1>4, DiskUsed
<1> HIDE DEF d3
<1>6. Extend(d, s, h, a) \in Writing /\ Keeps(d, Extend(d, s, h, a).disk)
  BY <1>1, <1>2, <1>3, <1>5 DEF Writing, Keeps
<1> QED BY <1>6 DEF a

LEMMA WriteFacts ==
  ASSUME NEW d \in Disk, NEW s \in Sector, NEW h \in OpenHeader, NEW position, NEW n \in Nat
  PROVE  /\ Write(d, s, h, position, n) \in Writing
         /\ Keeps(d, Write(d, s, h, position, n).disk)
<1> DEFINE w == IF position + n <= h.bytes THEN [disk |-> d, header |-> h, dead |-> FALSE]
                ELSE Extend(d, s, h, Allocate(d.block, d.used, h, n))
           stops == w.dead \/ ~Backed(w.disk, w.header, position + n)
           r == [w EXCEPT !.dead = stops]
<1>1. Write(d, s, h, position, n) = r
  BY Zenon DEF Write, WriteAt
<1>2. w \in Writing /\ Keeps(d, w.disk)
  <2>1. CASE position + n <= h.bytes
    BY <2>1 DEF Writing, Keeps
  <2>2. CASE ~(position + n <= h.bytes)
    BY <2>2, ExtendFacts
  <2> QED BY <2>1, <2>2
<1>3. stops \in BOOLEAN
  OBVIOUS
<1> HIDE DEF w, stops
<1>4. r \in Writing /\ r.disk = w.disk
  BY <1>2, <1>3 DEF Writing
<1> QED BY <1>1, <1>2, <1>4

LEMMA ExpandSizeFacts ==
  ASSUME NEW t \in Table, NEW n \in Nat
  PROVE  /\ ExpandSize(t, n) \in Table
         /\ Len(ExpandSize(t, n)) \in Nat /\ Len(t) <= Len(ExpandSize(t, n))
         /\ Len(ExpandSize(t, n)) = IF n > Len(t) THEN n ELSE Len(t)
         /\ \A i \in 1 .. Len(t) : ExpandSize(t, n)[i] = t[i]
         /\ \A i \in Len(t) + 1 .. Len(ExpandSize(t, n)) : ExpandSize(t, n)[i] = FreeEntry
<1> DEFINE more == [i \in 1 .. n - Len(t) |-> FreeEntry]
           k == IF n > Len(t) THEN n - Len(t) ELSE 0
<1>1. Len(t) \in Nat /\ k \in Nat /\ (n > Len(t) => k = n - Len(t)) /\ (~(n > Len(t)) => k = 0)
  BY PartOfTable
<1>2. more \in Seq({FreeEntry}) /\ Len(more) = k
  <2>1. 1 .. n - Len(t) = 1 .. k
    BY <1>1
  <2>2. more \in [1 .. k -> {FreeEntry}]
    BY <2>1
  <2> HIDE DEF more, k
  <2> QED BY <1>1, <2>2
<1>3. ExpandSize(t, n) = t \o more
  BY DEF ExpandSize
<1> HIDE DEF more, k
<1>4. more \in Table /\ \A i \in 1 .. k : more[i] = FreeEntry
  BY <1>2, SeqMonotonic DEF Table
<1>5. /\ t \o more \in Table /\ Len(t \o more) = Len(t) + k
      /\ \A i \in 1 .. Len(t) + k :
           (t \o more)[i] = IF i <= Len(t) THEN t[i] ELSE more[i - Len(t)]
  BY <1>1, <1>2, <1>4 DEF Table
<1> QED BY <1>1, <1>3, <1>4, <1>5

LEMMA WriteTableFacts ==
  ASSUME NEW d \in Disk, NEW s \in Sector, NEW t \in Table
  PROVE  Stored(d, s, t, WriteTable(d, s, t))
<1> DEFINE w1 == Write(d, s, d.header[s], 0, IntSize)
           longer == ExpandSize(w1.disk.table[s], Len(t))
           d2 == [w1.disk EXCEPT !.table[s] = longer]
           w2 == Write(d2, s, w1.header, IntSize, Len(t) * EntrySize)
           w == WriteEntries(w1, s, t)
           d3 == [w.disk EXCEPT !.table[s] = t]
<1>1. w1 \in Writing /\ Keeps(d, w1.disk)
  BY DiskParts, WriteFacts DEF IntSize
<1>2. Len(t) * EntrySize \in Nat /\ Len(t) \in Nat
  BY PartOfTable, DiskAssumption
<1>3. w = IF w1.dead THEN w1 ELSE w2
  BY DEF WriteEntries
<1>4. WriteTable(d, s, t) = IF w.dead THEN w ELSE [w EXCEPT !.disk = d3]
  BY Zenon DEF WriteTable, SetTable
<1> HIDE DEF w1, w
<1>5. w1.disk \in Disk /\ w1.header \in OpenHeader /\ w1.dead \in BOOLEAN
      /\ d.used \subseteq w1.disk.used /\ d.table = w1.disk.table
  BY <1>1 DEF Writing, Keeps
<1>6. longer \in Table /\ longer = ExpandSize(d.table[s], Len(t))
  BY <1>2, <1>5, DiskParts, ExpandSizeFacts
<1> HIDE DEF longer
<1>7. d2 \in Disk /\ d2.used = w1.disk.used /\ d2.table = [d.table EXCEPT ![s] = longer]
  BY <1>5, <1>6, DiskTable
<1> HIDE DEF d2
<1>8. w2 \in Writing /\ Keeps(d2, w2.disk)
  <2> DEFINE n == Len(t) * EntrySize
  <2>1. n \in Nat
    BY <1>2
  <2> HIDE DEF n
  <2>2. Write(d2, s, w1.header, IntSize, n) \in Writing
        /\ Keeps(d2, Write(d2, s, w1.header, IntSize, n).disk)
    BY <1>5, <1>7, <2>1, WriteFacts
  <2> QED BY <2>2 DEF n
<1> HIDE DEF w2
<1>9. w \in Writing /\ d.used \subseteq w.disk.used
      /\ (w.disk.table = d.table \/ w.disk.table = [d.table EXCEPT ![s] = longer])
      /\ (~w.dead => w.disk.table = [d.table EXCEPT ![s] = longer])
  BY <1>1, <1>3, <1>5, <1>7, <1>8 DEF Keeps, Writing
<1>10. w.disk \in Disk /\ w.dead \in BOOLEAN
  BY <1>9 DEF Writing
<1>11. d3 \in Disk /\ d3.used = w.disk.used /\ d3.table = [w.disk.table EXCEPT ![s] = t]
  BY <1>10, DiskTable
<1> HIDE DEF d3
<1>12. CASE w.dead
  BY <1>4, <1>6, <1>9, <1>12 DEF Stored
<1>13. CASE ~w.dead
  <2> DEFINE r == [w EXCEPT !.disk = d3]
  <2>1. r \in Writing /\ r.disk = d3 /\ r.dead = FALSE
    BY <1>9, <1>10, <1>11, <1>13 DEF Writing
  <2>2. d3.table = [d.table EXCEPT ![s] = t]
    BY <1>9, <1>11, <1>13, DiskParts
  <2>3. WriteTable(d, s, t) = r
    BY <1>4, <1>13
  <2> HIDE DEF r
  <2> QED BY <1>9, <1>11, <2>1, <2>2, <2>3 DEF Stored
<1> QED BY <1>12, <1>13

-----------------------------------------------------------------------------

(* Tables of directories.                                                     *)
LEMMA EntryFacts ==
  /\ FreeEntry.inUse = FALSE /\ FreeEntry \notin Entry
  /\ \A e \in Entry : /\ e.inUse = TRUE /\ e.sector \in Sector /\ e.isDirectory \in BOOLEAN
                      /\ e.name \in Name \cup Dots \cup {SwapName}
<1>1. FreeEntry.inUse = FALSE /\ \A e \in Entry : e.inUse = TRUE
  BY DEF FreeEntry, Entry
<1> QED BY <1>1 DEF Entry

LEMMA EntriesFacts ==
  ASSUME NEW t \in Table, NEW x
  PROVE  /\ Entries(t, x) \subseteq Entry
         /\ \A e : e \in Entries(t, x) <=>
                     \E i \in 1 .. Len(t) : t[i] = e /\ t[i].inUse /\ t[i].name = x
<1>1. DOMAIN t = 1 .. Len(t) /\ Range(t) \subseteq Entry \cup {FreeEntry}
  BY PartOfTable
<1>2. \A e : e \in Entries(t, x) <=> e \in Range(t) /\ e.inUse /\ e.name = x
  BY DEF Entries
<1>3. \A e : e \in Range(t) <=> \E i \in 1 .. Len(t) : t[i] = e
  BY <1>1, Zenon DEF Range
<1> QED BY <1>1, <1>2, <1>3, EntryFacts

LEMMA FetchIsVisible ==
  ASSUME NEW d, NEW s
  PROVE  Fetch(d, s) = Visible(d.table[s])
BY DEF Fetch, Visible

LEMMA VisibleFacts ==
  ASSUME NEW t \in Table
  PROVE  /\ Visible(t) \in Table
         /\ Len(Visible(t)) \in Nat /\ 2 * NumDirEntries \in Nat
         /\ Len(Visible(t)) <= Len(t) /\ Len(Visible(t)) <= 2 * NumDirEntries
         /\ \A i \in 1 .. Len(Visible(t)) : Visible(t)[i] = t[i]
         /\ \A i \in 1 .. Len(t) : i <= 2 * NumDirEntries => i <= Len(Visible(t))
<1> DEFINE n == 2 * NumDirEntries
<1>1. n \in Nat /\ Len(t) \in Nat
  BY DiskAssumption, PartOfTable
<1>2. Visible(t) = IF Len(t) > n THEN SubSeq(t, 1, n) ELSE t
  BY DEF Visible
<1> HIDE DEF n
<1>3. CASE Len(t) > n
  <2>1. /\ SubSeq(t, 1, n) \in Table /\ Len(SubSeq(t, 1, n)) = n
        /\ \A i \in 1 .. n : SubSeq(t, 1, n)[i] = t[i]
    BY <1>1, <1>3, PrefixOfSeq DEF Table
  <2>2. Visible(t) \in Table /\ Len(Visible(t)) = n /\ \A i \in 1 .. n : Visible(t)[i] = t[i]
    BY <1>2, <1>3, <2>1
  <2>3. /\ Len(Visible(t)) \in Nat /\ Len(Visible(t)) <= Len(t) /\ Len(Visible(t)) <= n
        /\ \A i \in 1 .. Len(t) : i <= n => i <= Len(Visible(t))
    BY <1>1, <1>3, <2>2
  <2> QED BY <1>1, <2>2, <2>3 DEF n
<1>4. CASE ~(Len(t) > n)
  <2>1. Visible(t) = t
    BY <1>2, <1>4
  <2>2. Len(t) <= n
    BY <1>1, <1>4
  <2> QED BY <1>1, <2>1, <2>2 DEF n
<1> QED BY <1>3, <1>4

LEMMA FetchFacts ==
  ASSUME NEW d \in Disk, NEW s \in Sector
  PROVE  Fetch(d, s) \in Table /\ Len(Fetch(d, s)) <= 2 * NumDirEntries
BY DiskParts, FetchIsVisible, VisibleFacts

LEMMA OneEntry ==
  ASSUME NEW t \in Table, OneEach(t), NEW x, NEW e \in Entries(t, x)
  PROVE  Entries(t, x) = {e}
<1>1. ASSUME NEW f \in Entries(t, x) PROVE f = e
  <2>1. PICK i \in 1 .. Len(t) : t[i] = e /\ t[i].inUse /\ t[i].name = x
    BY EntriesFacts
  <2>2. PICK j \in 1 .. Len(t) : t[j] = f /\ t[j].inUse /\ t[j].name = x
    BY <1>1, EntriesFacts
  <2> QED BY <2>1, <2>2 DEF OneEach
<1> QED BY <1>1

LEMMA VisibleOneEach ==
  ASSUME NEW t \in Table, OneEach(t)
  PROVE  OneEach(Visible(t))
<1>1. \A i \in 1 .. Len(Visible(t)) : i \in 1 .. Len(t) /\ Visible(t)[i] = t[i]
  BY VisibleFacts, PartOfTable
<1> QED BY <1>1 DEF OneEach

LEMMA NewTableFacts ==
  /\ NewTable \in Table /\ OneEach(NewTable) /\ \A x : Entries(Visible(NewTable), x) = {}
  /\ \A x : Entries(NewTable, x) = {} /\ Len(NewTable) <= 2 * NumDirEntries
<1>1. NumDirEntries \in Nat
  BY DiskAssumption
<1>2. NewTable \in [1 .. NumDirEntries -> {FreeEntry}]
  BY DEF NewTable
<1>3. NewTable \in Seq({FreeEntry}) /\ Len(NewTable) = NumDirEntries
  BY <1>1, <1>2
<1>4. NewTable \in Table
  BY <1>3, SeqMonotonic DEF Table
<1>5. \A i \in 1 .. Len(NewTable) : ~NewTable[i].inUse
  BY <1>2, <1>3, EntryFacts
<1>6. OneEach(NewTable)
  BY <1>5 DEF OneEach
<1>7. Len(NewTable) <= 2 * NumDirEntries
  BY <1>1, <1>3
<1>8. Visible(NewTable) = NewTable
  BY <1>1, <1>3 DEF Visible
<1>9. ASSUME NEW x PROVE Entries(NewTable, x) = {}
  BY <1>4, <1>5, EntriesFacts
<1> QED BY <1>4, <1>6, <1>7, <1>8, <1>9

LEMMA ExpandedSame ==
  ASSUME NEW t \in Table, NEW n \in Nat
  PROVE  /\ OneEach(t) => OneEach(ExpandSize(t, n))
         /\ \A x : Entries(Visible(ExpandSize(t, n)), x) = Entries(Visible(t), x)
<1> DEFINE r == ExpandSize(t, n)
<1>1. /\ r \in Table /\ Len(r) \in Nat /\ Len(t) \in Nat /\ Len(t) <= Len(r)
      /\ \A i \in 1 .. Len(t) : r[i] = t[i]
      /\ \A i \in 1 .. Len(r) : r[i].inUse => i \in 1 .. Len(t)
  <2>1. /\ r \in Table /\ Len(r) \in Nat /\ Len(t) <= Len(r)
        /\ \A i \in 1 .. Len(t) : r[i] = t[i]
        /\ \A i \in Len(t) + 1 .. Len(r) : r[i] = FreeEntry
    BY ExpandSizeFacts
  <2>2. Len(t) \in Nat
    BY PartOfTable
  <2> HIDE DEF r
  <2>3. ASSUME NEW i \in 1 .. Len(r), r[i].inUse PROVE i \in 1 .. Len(t)
    <3>1. CASE i \in Len(t) + 1 .. Len(r)
      BY <2>1, <2>3, <3>1, EntryFacts
    <3>2. CASE i \notin Len(t) + 1 .. Len(r)
      BY <2>1, <2>2, <3>2
    <3> QED BY <3>1, <3>2
  <2> QED BY <2>1, <2>2, <2>3
<1> HIDE DEF r
<1>2. OneEach(t) => OneEach(r)
  BY <1>1 DEF OneEach
<1>3. /\ Visible(r) \in Table /\ Visible(t) \in Table
      /\ \A i : i \in 1 .. Len(Visible(r)) /\ Visible(r)[i].inUse
                  => i \in 1 .. Len(Visible(t)) /\ Visible(t)[i] = Visible(r)[i]
      /\ \A i : i \in 1 .. Len(Visible(t))
                  => i \in 1 .. Len(Visible(r)) /\ Visible(t)[i] = Visible(r)[i]
  <2> DEFINE m == 2 * NumDirEntries
             vr == Visible(r)
             vt == Visible(t)
  <2>1. /\ vt \in Table /\ Len(vt) \in Nat /\ m \in Nat /\ Len(vt) <= Len(t) /\ Len(vt) <= m
        /\ \A i \in 1 .. Len(vt) : vt[i] = t[i]
        /\ \A i \in 1 .. Len(t) : i <= m => i <= Len(vt)
    BY VisibleFacts
  <2>2. /\ vr \in Table /\ Len(vr) \in Nat /\ Len(vr) <= Len(r) /\ Len(vr) <= m
        /\ \A i \in 1 .. Len(vr) : vr[i] = r[i]
        /\ \A i \in 1 .. Len(r) : i <= m => i <= Len(vr)
    BY <1>1, VisibleFacts
  <2> HIDE DEF m, vt, vr
  <2>3. ASSUME NEW i \in 1 .. Len(vr), vr[i].inUse
        PROVE  i \in 1 .. Len(vt) /\ vt[i] = vr[i]
    <3>1. i \in 1 .. Len(r) /\ vr[i] = r[i] /\ i <= m
      BY <1>1, <2>1, <2>2
    <3>2. i \in 1 .. Len(t)
      BY <1>1, <2>3, <3>1
    <3>3. i \in 1 .. Len(vt)
      BY <2>1, <3>1, <3>2
    <3> QED BY <1>1, <2>1, <3>1, <3>2, <3>3
  <2>4. ASSUME NEW i \in 1 .. Len(vt) PROVE i \in 1 .. Len(vr) /\ vt[i] = vr[i]
    <3>1. i \in 1 .. Len(t) /\ vt[i] = t[i] /\ i <= m
      BY <1>1, <2>1
    <3>2. i \in 1 .. Len(r) /\ r[i] = t[i]
      BY <1>1, <3>1
    <3>3. i \in 1 .. Len(vr)
      BY <2>2, <3>1, <3>2
    <3> QED BY <2>2, <3>1, <3>2, <3>3
  <2> QED BY <2>1, <2>2, <2>3, <2>4 DEF vt, vr
<1>4. ASSUME NEW x PROVE Entries(Visible(r), x) = Entries(Visible(t), x)
  <2>1. ASSUME NEW e \in Entries(Visible(r), x) PROVE e \in Entries(Visible(t), x)
    <3>1. PICK i \in 1 .. Len(Visible(r)) :
            Visible(r)[i] = e /\ Visible(r)[i].inUse /\ Visible(r)[i].name = x
      BY <1>3, <2>1, EntriesFacts
    <3>2. i \in 1 .. Len(Visible(t)) /\ Visible(t)[i] = e
      BY <1>3, <3>1
    <3> QED BY <1>3, <3>1, <3>2, EntriesFacts
  <2>2. ASSUME NEW e \in Entries(Visible(t), x) PROVE e \in Entries(Visible(r), x)
    <3>1. PICK i \in 1 .. Len(Visible(t)) :
            Visible(t)[i] = e /\ Visible(t)[i].inUse /\ Visible(t)[i].name = x
      BY <1>3, <2>2, EntriesFacts
    <3>2. i \in 1 .. Len(Visible(r)) /\ Visible(r)[i] = e
      BY <1>3, <3>1
    <3> QED BY <1>3, <3>1, <3>2, EntriesFacts
  <2> QED BY <2>1, <2>2
<1> QED BY <1>2, <1>4 DEF r

(* An entry is added: to a free place, or behind a table that was full, or,    *)
(* to an empty table, nowhere ("i" is outside of it).                         *)
LEMMA AddEntryPlace ==
  ASSUME NEW t \in Table, NEW e \in Entry
  PROVE  /\ AddEntry(t, e) \in Table /\ Len(t) <= Len(AddEntry(t, e))
         /\ Len(AddEntry(t, e)) <= 2 * Len(t)
         /\ Len(AddEntry(t, e)) = IF \E k \in 1 .. Len(t) : ~t[k].inUse THEN Len(t) ELSE 2 * Len(t)
         /\ \E i : /\ \A j \in 1 .. Len(AddEntry(t, e)) :
                        AddEntry(t, e)[j] = IF j = i THEN e
                                            ELSE IF j <= Len(t) THEN t[j] ELSE FreeEntry
                   /\ i \in 1 .. Len(t) => ~t[i].inUse
                   /\ Len(t) >= 1 => i \in 1 .. Len(AddEntry(t, e))
<1> DEFINE room == IF \E i \in DOMAIN t : ~t[i].inUse THEN t ELSE ExpandSize(t, 2 * Len(t))
           free == {i \in DOMAIN room : ~room[i].inUse}
           i == Min(free)
           r == [room EXCEPT ![i] = e]
<1>1. Len(t) \in Nat /\ DOMAIN t = 1 .. Len(t) /\ 2 * Len(t) \in Nat
  BY PartOfTable
<1>2. AddEntry(t, e) = r
  BY DEF AddEntry
<1>3. /\ room \in Table /\ Len(room) \in Nat /\ Len(t) <= Len(room)
      /\ Len(room) <= 2 * Len(t)
      /\ \A j \in 1 .. Len(room) : room[j] = IF j <= Len(t) THEN t[j] ELSE FreeEntry
      /\ DOMAIN room = 1 .. Len(room)
      /\ Len(t) >= 1 => \E k \in 1 .. Len(room) : ~room[k].inUse
  <2>1. CASE \E k \in DOMAIN t : ~t[k].inUse
    <3>1. room = t
      BY <2>1
    <3> HIDE DEF room
    <3> QED BY <1>1, <2>1, <3>1
  <2>2. CASE ~\E k \in DOMAIN t : ~t[k].inUse
    <3> DEFINE n == 2 * Len(t)
               x == ExpandSize(t, n)
    <3>1. n \in Nat /\ room = x
      BY <1>1, <2>2
    <3> HIDE DEF n, room
    <3>2. /\ x \in Table /\ Len(x) \in Nat /\ Len(t) <= Len(x)
          /\ \A j \in 1 .. Len(t) : x[j] = t[j]
          /\ \A j \in Len(t) + 1 .. Len(x) : x[j] = FreeEntry
          /\ Len(x) = IF n > Len(t) THEN n ELSE Len(t)
      BY <3>1, ExpandSizeFacts
    <3>5. ASSUME Len(t) >= 1 PROVE \E k \in 1 .. Len(x) : ~x[k].inUse
      <4>1. n = 2 * Len(t) /\ n > Len(t)
        BY <1>1, <3>5 DEF n
      <4>2. Len(t) + 1 \in Len(t) + 1 .. Len(x) /\ Len(t) + 1 \in 1 .. Len(x)
        BY <1>1, <3>2, <3>5, <4>1
      <4>3. x[Len(t) + 1] = FreeEntry
        BY <3>2, <4>2
      <4>4. ~x[Len(t) + 1].inUse
        BY <4>3, EntryFacts
      <4> QED BY <4>2, <4>4
    <3>3. DOMAIN x = 1 .. Len(x)
      BY <3>2, PartOfTable
    <3> HIDE DEF x
    <3>4. ASSUME NEW j \in 1 .. Len(x)
          PROVE  x[j] = IF j <= Len(t) THEN t[j] ELSE FreeEntry
      <4>1. CASE j <= Len(t)
        <5>1. j \in 1 .. Len(t)
          BY <1>1, <3>2, <4>1
        <5> QED BY <3>2, <4>1, <5>1
      <4>2. CASE ~(j <= Len(t))
        <5>1. j \in Len(t) + 1 .. Len(x)
          BY <1>1, <3>2, <4>2
        <5> QED BY <3>2, <4>2, <5>1
      <4> QED BY <4>1, <4>2
    <3>6. Len(x) <= 2 * Len(t)
      BY <1>1, <3>2 DEF n
    <3> QED BY <3>1, <3>2, <3>3, <3>4, <3>5, <3>6
  <2> QED BY <2>1, <2>2
<1>9. Len(room) = IF \E k \in 1 .. Len(t) : ~t[k].inUse THEN Len(t) ELSE 2 * Len(t)
  <2>1. CASE \E k \in DOMAIN t : ~t[k].inUse
    BY <1>1, <2>1
  <2>2. CASE ~\E k \in DOMAIN t : ~t[k].inUse
    <3> DEFINE n == 2 * Len(t)
               x == ExpandSize(t, n)
    <3>1. n \in Nat /\ room = x
      BY <1>1, <2>2
    <3> HIDE DEF n, room
    <3>2. Len(x) = IF n > Len(t) THEN n ELSE Len(t)
      BY <3>1, ExpandSizeFacts
    <3> HIDE DEF x
    <3>3. Len(x) = 2 * Len(t)
      BY <1>1, <3>2 DEF n
    <3> QED BY <1>1, <2>2, <3>1, <3>3
  <2> QED BY <2>1, <2>2
<1> HIDE DEF room
<1>4. i \in free \/ free = {}
  <2>1. free \in SUBSET Nat
    BY <1>3
  <2> HIDE DEF free
  <2> QED BY <2>1, LeastIsMin
<1>5. i \in 1 .. Len(t) => ~t[i].inUse
  <2> SUFFICES ASSUME i \in 1 .. Len(t) PROVE ~t[i].inUse
    OBVIOUS
  <2>1. i \in 1 .. Len(room) /\ room[i] = t[i]
    <3> HIDE DEF i
    <3> QED BY <1>1, <1>3
  <2>2. i \in free \/ ~(\E k \in 1 .. Len(room) : ~room[k].inUse)
    <3> HIDE DEF i
    <3> QED BY <1>3, <1>4
  <2>3. CASE i \in free
    BY <2>1, <2>3
  <2>4. CASE ~(\E k \in 1 .. Len(room) : ~room[k].inUse)
    <3> HIDE DEF i, free
    <3>1. Len(t) >= 1
      BY <1>1
    <3> QED BY <1>3, <2>4, <3>1
  <2> QED BY <2>2, <2>3, <2>4
<1>8. Len(t) >= 1 => i \in 1 .. Len(room)
  <2> HIDE DEF i
  <2> QED BY <1>3, <1>4
<1> HIDE DEF i
<1>6. /\ r \in Table /\ Len(r) = Len(room)
      /\ \A j \in 1 .. Len(room) : r[j] = IF j = i THEN e ELSE room[j]
  <2>1. room \in [1 .. Len(room) -> Entry \cup {FreeEntry}]
    BY <1>3 DEF Table
  <2>2. r \in [1 .. Len(room) -> Entry \cup {FreeEntry}]
    BY <1>3, <2>1
  <2>3. r \in Seq(Entry \cup {FreeEntry}) /\ Len(r) = Len(room)
    <3> HIDE DEF r
    <3> QED BY <1>3, <2>2
  <2> QED BY <1>3, <2>1, <2>3 DEF Table
<1> HIDE DEF r
<1>7. \A j \in 1 .. Len(r) : r[j] = IF j = i THEN e ELSE IF j <= Len(t) THEN t[j] ELSE FreeEntry
  BY <1>3, <1>6
<1> QED BY <1>2, <1>3, <1>5, <1>6, <1>7, <1>8, <1>9

LEMMA AddEntryFacts ==
  ASSUME NEW t \in Table, Len(t) <= 2 * NumDirEntries, OneEach(t), NEW e \in Entry,
         Entries(t, e.name) = {}
  PROVE  /\ AddEntry(t, e) \in Table /\ OneEach(AddEntry(t, e))
         /\ \A x : x # e.name => Entries(Visible(AddEntry(t, e)), x) = Entries(t, x)
         /\ Entries(Visible(AddEntry(t, e)), e.name) \subseteq {e}
<1> DEFINE r == AddEntry(t, e)
           v == Visible(r)
           m == 2 * NumDirEntries
<1>1. r \in Table /\ Len(t) <= Len(r) /\ Len(t) \in Nat /\ Len(r) \in Nat
  BY AddEntryPlace, PartOfTable
<1>2. PICK i : /\ \A j \in 1 .. Len(r) : r[j] = IF j = i THEN e
                                                ELSE IF j <= Len(t) THEN t[j] ELSE FreeEntry
               /\ i \in 1 .. Len(t) => ~t[i].inUse
  BY AddEntryPlace
<1>3. \A j \in 1 .. Len(t) : t[j].inUse => t[j].name # e.name
  BY EntriesFacts
<1> HIDE DEF r
<1>4. ASSUME NEW j \in 1 .. Len(r), r[j].inUse
      PROVE  (j = i /\ r[j] = e) \/ (j # i /\ j \in 1 .. Len(t) /\ r[j] = t[j])
  BY <1>1, <1>2, <1>4, EntryFacts
<1>5. OneEach(r)
  <2> SUFFICES ASSUME NEW j \in 1 .. Len(r), NEW k \in 1 .. Len(r),
                      r[j].inUse, r[k].inUse, r[j].name = r[k].name
               PROVE  j = k
    BY DEF OneEach
  <2>1. CASE j = i
    BY <1>3, <1>4, <2>1
  <2>2. CASE k = i
    BY <1>3, <1>4, <2>2
  <2>3. CASE j # i /\ k # i
    <3>1. j \in 1 .. Len(t) /\ k \in 1 .. Len(t) /\ r[j] = t[j] /\ r[k] = t[k]
      BY <1>4, <2>3
    <3> QED BY <3>1 DEF OneEach
  <2> QED BY <2>1, <2>2, <2>3
<1>6. /\ v \in Table /\ Len(v) \in Nat /\ m \in Nat /\ Len(v) <= Len(r) /\ Len(v) <= m
      /\ \A j \in 1 .. Len(v) : v[j] = r[j]
      /\ \A j \in 1 .. Len(r) : j <= m => j <= Len(v)
  BY <1>1, VisibleFacts
<1>7. Len(t) <= m
  OBVIOUS
<1> HIDE DEF v, m
<1>8. ASSUME NEW j \in 1 .. Len(v), v[j].inUse
      PROVE  v[j] = e \/ (j \in 1 .. Len(t) /\ v[j] = t[j])
  <2>1. j \in 1 .. Len(r) /\ v[j] = r[j]
    BY <1>1, <1>6
  <2> QED BY <1>4, <1>8, <2>1
<1>9. ASSUME NEW j \in 1 .. Len(t), t[j].inUse PROVE j \in 1 .. Len(v) /\ v[j] = t[j]
  <2>1. j \in 1 .. Len(r) /\ j <= m /\ j # i
    BY <1>1, <1>2, <1>6, <1>7, <1>9
  <2>2. r[j] = t[j]
    BY <1>1, <1>2, <2>1
  <2>3. j \in 1 .. Len(v)
    BY <1>1, <1>6, <2>1
  <2> QED BY <1>6, <2>2, <2>3
<1>10. ASSUME NEW x, x # e.name PROVE Entries(v, x) = Entries(t, x)
  <2>1. ASSUME NEW f \in Entries(v, x) PROVE f \in Entries(t, x)
    <3>1. PICK j \in 1 .. Len(v) : v[j] = f /\ v[j].inUse /\ v[j].name = x
      BY <1>6, <2>1, EntriesFacts
    <3>2. j \in 1 .. Len(t) /\ v[j] = t[j]
      BY <1>8, <1>10, <3>1
    <3> QED BY <3>1, <3>2, EntriesFacts
  <2>2. ASSUME NEW f \in Entries(t, x) PROVE f \in Entries(v, x)
    <3>1. PICK j \in 1 .. Len(t) : t[j] = f /\ t[j].inUse /\ t[j].name = x
      BY <2>2, EntriesFacts
    <3>2. j \in 1 .. Len(v) /\ v[j] = t[j]
      BY <1>9, <3>1
    <3> QED BY <1>6, <3>1, <3>2, EntriesFacts
  <2> QED BY <2>1, <2>2
<1>11. ASSUME NEW f \in Entries(v, e.name) PROVE f = e
  <2>1. PICK j \in 1 .. Len(v) : v[j] = f /\ v[j].inUse /\ v[j].name = e.name
    BY <1>6, <1>11, EntriesFacts
  <2> QED BY <1>3, <1>8, <2>1
<1> QED BY <1>1, <1>5, <1>10, <1>11 DEF r, v

LEMMA WithoutFacts ==
  ASSUME NEW t \in Table, Len(t) <= 2 * NumDirEntries, OneEach(t), NEW e
  PROVE  /\ Without(t, e) \in Table /\ Len(Without(t, e)) = Len(t) /\ OneEach(Without(t, e))
         /\ \A x : Entries(Visible(Without(t, e)), x) = Entries(t, x) \ {e}
<1> DEFINE r == Without(t, e)
<1>1. Len(t) \in Nat /\ t \in [1 .. Len(t) -> Entry \cup {FreeEntry}]
  BY DEF Table
<1>2. r = [i \in 1 .. Len(t) |-> IF t[i] = e THEN FreeEntry ELSE t[i]]
  BY <1>1 DEF Without
<1>3. r \in [1 .. Len(t) -> Entry \cup {FreeEntry}]
  BY <1>1, <1>2
<1> HIDE DEF r
<1>4. r \in Table /\ Len(r) = Len(t)
  BY <1>1, <1>3 DEF Table
<1>5. ASSUME NEW i \in 1 .. Len(t)
      PROVE  r[i].inUse <=> (t[i].inUse /\ t[i] # e)
  BY <1>2, <1>5, EntryFacts
<1>6. ASSUME NEW i \in 1 .. Len(t), r[i].inUse PROVE r[i] = t[i] /\ t[i] # e
  BY <1>2, <1>6, EntryFacts
<1>7. OneEach(r)
  BY <1>4, <1>5, <1>6 DEF OneEach
<1>8. Visible(r) = r
  BY <1>1, <1>4, VisibleFacts DEF Visible
<1>9. ASSUME NEW x PROVE Entries(r, x) = Entries(t, x) \ {e}
  <2>1. ASSUME NEW f \in Entries(r, x) PROVE f \in Entries(t, x) \ {e}
    <3>1. PICK j \in 1 .. Len(r) : r[j] = f /\ r[j].inUse /\ r[j].name = x
      BY <1>4, <2>1, EntriesFacts
    <3>2. j \in 1 .. Len(t) /\ t[j] = f /\ t[j] # e /\ t[j].inUse
      BY <1>4, <1>5, <1>6, <3>1
    <3> QED BY <3>1, <3>2, EntriesFacts
  <2>2. ASSUME NEW f \in Entries(t, x) \ {e} PROVE f \in Entries(r, x)
    <3>1. PICK j \in 1 .. Len(t) : t[j] = f /\ t[j].inUse /\ t[j].name = x
      BY <2>2, EntriesFacts
    <3>2. j \in 1 .. Len(r) /\ r[j].inUse /\ r[j] = f
      BY <1>4, <1>5, <1>6, <2>2, <3>1
    <3> QED BY <1>4, <3>1, <3>2, EntriesFacts
  <2> QED BY <2>1, <2>2
<1> QED BY <1>4, <1>7, <1>8, <1>9 DEF r

-----------------------------------------------------------------------------

(* Looking up paths: where a path leads, and that it stands for one thing at  *)
(* most where no directory has a name twice.                                  *)
LEMMA SubdirectoriesFacts ==
  ASSUME NEW t \in Table, NEW x
  PROVE  Subdirectories(t, x) \subseteq Sector
         /\ Subdirectories(t, x) = {e.sector : e \in {f \in Entries(t, x) : f.isDirectory}}
<1>1. Subdirectories(t, x) = {e.sector : e \in {f \in Entries(t, x) : f.isDirectory}}
  BY DEF Subdirectories
<1>2. Entries(t, x) \subseteq Entry
  BY EntriesFacts
<1> QED BY <1>1, <1>2, EntryFacts

LEMMA FrontFacts ==
  ASSUME NEW S, NEW path \in Seq(S), path # <<>>
  PROVE  /\ Len(path) \in Nat \ {0} /\ Last(path) \in S
         /\ Front(path) \in Seq(S) /\ Len(Front(path)) = Len(path) - 1
         /\ \A i \in 1 .. Len(path) - 1 : Front(path)[i] = path[i]
         /\ Len(path) > 1 => Front(path) # <<>>
<1>1. Len(path) \in Nat \ {0} /\ Len(path) - 1 \in Nat /\ Len(path) - 1 <= Len(path)
  OBVIOUS
<1> DEFINE n == Len(path) - 1
<1>2. Front(path) = SubSeq(path, 1, n)
  BY DEF Front
<1>3. Last(path) \in S
  BY <1>1 DEF Last
<1>4. n \in Nat /\ n <= Len(path) /\ (Len(path) > 1 => n >= 1)
  BY <1>1
<1> HIDE DEF n
<1>5. /\ Front(path) \in Seq(S) /\ Len(Front(path)) = n
      /\ \A i \in 1 .. n : Front(path)[i] = path[i]
  BY <1>2, <1>4, PrefixOfSeq
<1>6. Len(path) > 1 => Front(path) # <<>>
  BY <1>4, <1>5
<1> QED BY <1>1, <1>3, <1>5, <1>6 DEF n

LEMMA WalkLoop ==
  ASSUME NEW S, NEW limit \in Nat, NEW d, NEW path, NEW g \in S,
         \A h \in S, i \in 1 .. limit : NextDirectories(d, path, h, i) \in S
  PROVE  Walks(S, limit, d, path, g) # {}
<1> DEFINE F == [x \in S \X (1 .. limit) |-> NextDirectories(d, path, x[1], x[2])]
<1>1. F \in [S \X (1 .. limit) -> S]
  OBVIOUS
<1>2. PICK f \in [0 .. limit -> S] :
        f[0] = g /\ \A i \in 1 .. limit : f[i] = F[<<f[i - 1], i>>]
  <2> HIDE DEF F
  <2>1. \E f \in [0 .. limit -> S] : Recurs(f, g, limit, F)
    BY <1>1, Recursion
  <2> QED BY <2>1 DEF Recurs
<1>3. ASSUME NEW i \in 1 .. limit PROVE f[i] = NextDirectories(d, path, f[i - 1], i)
  <2>1. f[i - 1] \in S
    BY <1>2
  <2>2. F[<<f[i - 1], i>>] = NextDirectories(d, path, f[i - 1], i)
    BY <2>1
  <2> QED BY <1>2, <2>2
<1> HIDE DEF F
<1>4. f \in Walks(S, limit, d, path, g)
  BY <1>2, <1>3 DEF Walks
<1> QED BY <1>4

LEMMA ParsePathWalks ==
  ASSUME NEW d \in Disk, NEW path \in AnyPath
  PROVE  \E dir \in Walks(SUBSET Sector, Len(path) - 1, d, path, {DirectorySector}) :
           ParsePath(d, path) = dir[Len(path) - 1]
<1> DEFINE n == Len(path) - 1
           All == SUBSET Sector
           first == {DirectorySector}
           Step(T, i) == NextDirectories(d, path, T, i)
           Loop(f) == [i \in 0 .. n |-> IF i = 0 THEN first ELSE Step(f[i - 1], i)]
           dir == CHOOSE f : f = Loop(f)
<1>1. n \in Nat
  BY FrontFacts DEF AnyPath
<1>2. ASSUME NEW T \in SUBSET Sector, NEW i PROVE Step(T, i) \in SUBSET Sector
  <2>1. \A s \in T : Subdirectories(Fetch(d, s), path[i]) \subseteq Sector
    BY FetchFacts, SubdirectoriesFacts
  <2> QED BY <2>1 DEF NextDirectories
<1>4. first \in All
  BY DiskFacts
<1>9. ParsePath(d, path) = dir[n]
  BY Zenon DEF ParsePath, NextDirectories
<1>3. \A h \in All, i \in 1 .. n : NextDirectories(d, path, h, i) \in All
  BY <1>2
<1> HIDE DEF n, All, first
<1>14. PICK f : f \in Walks(All, n, d, path, first)
  <2>1. Walks(All, n, d, path, first) # {}
    BY <1>1, <1>3, <1>4, WalkLoop
  <2> QED BY <2>1
<1>5. f \in [0 .. n -> All] /\ f[0] = first
  BY <1>14 DEF Walks
<1>6. \A i \in 1 .. n : f[i] = Step(f[i - 1], i)
  BY <1>14 DEF Walks
<1> HIDE DEF Step
<1>7. f = Loop(f)
  <2>1. \A i \in 0 .. n : f[i] = IF i = 0 THEN first ELSE Step(f[i - 1], i)
    BY <1>1, <1>5, <1>6
  <2> QED BY <1>5, <2>1
<1>8. dir = Loop(dir)
  <2> HIDE DEF Loop
  <2> QED BY <1>7
<1> HIDE DEF dir
<1>10. dir[0] = first /\ \A i \in 1 .. n : dir[i] = Step(dir[i - 1], i)
  BY <1>1, <1>8
<1>11. \A i \in 0 .. n : dir[i] \in All
  <2>1. \A i \in 1 .. n : dir[i - 1] \in All => Step(dir[i - 1], i) \in All
    BY <1>2 DEF All
  <2> HIDE DEF Loop
  <2> QED BY <1>1, <1>4, <1>10, <2>1, Rounds
<1>12. dir \in [0 .. n -> All]
  <2>1. DOMAIN dir = 0 .. n /\ dir = [i \in 0 .. n |-> dir[i]]
    BY <1>8
  <2> QED BY <1>11, <2>1
<1>13. dir \in Walks(All, n, d, path, first)
  BY <1>10, <1>12 DEF Walks, Step
<1> QED BY <1>9, <1>13 DEF n, All, first

LEMMA ParsePathFacts ==
  ASSUME NEW d \in Disk, NEW path \in AnyPath
  PROVE  /\ ParsePath(d, path) \subseteq Sector
         /\ Len(path) = 1 => ParsePath(d, path) = {DirectorySector}
         /\ Len(path) > 1 => ParsePath(d, path) =
              UNION {Subdirectories(Fetch(d, s), Last(Front(path))) : s \in ParsePath(d, Front(path))}
<1> DEFINE n == Len(path) - 1
           front == Front(path)
           All == SUBSET Sector
           first == {DirectorySector}
<1>1. n \in Nat /\ Len(path) = n + 1
  BY FrontFacts DEF AnyPath
<1>2. PICK dir \in Walks(All, n, d, path, first) : ParsePath(d, path) = dir[n]
  BY ParsePathWalks
<1> HIDE DEF All, first, front
<1>3. /\ dir \in [0 .. n -> All] /\ dir[0] = first
      /\ \A i \in 1 .. n : dir[i] = NextDirectories(d, path, dir[i - 1], i)
  BY <1>2 DEF Walks
<1>4. ParsePath(d, path) \subseteq Sector
  BY <1>1, <1>2, <1>3 DEF All
<1>5. ASSUME Len(path) > 1
      PROVE  ParsePath(d, path) =
               UNION {Subdirectories(Fetch(d, s), Last(front)) : s \in ParsePath(d, front)}
  <2>1. front \in AnyPath /\ Len(front) = n /\ \A i \in 1 .. n : front[i] = path[i]
    BY <1>1, <1>5, FrontFacts DEF AnyPath, front
  <2> DEFINE m == n - 1
  <2>2. m \in Nat /\ m = Len(front) - 1 /\ m < n /\ n = m + 1
    BY <1>1, <1>5, <2>1
  <2> HIDE DEF n
  <2>3. PICK dir2 \in Walks(All, m, d, front, first) : ParsePath(d, front) = dir2[m]
    BY <2>1, <2>2, ParsePathWalks DEF All, first
  <2> HIDE DEF m
  <2>4. /\ dir2 \in [0 .. m -> All] /\ dir2[0] = first
        /\ \A i \in 1 .. m : dir2[i] = NextDirectories(d, front, dir2[i - 1], i)
    BY <2>3 DEF Walks
  <2> DEFINE Same == {i \in 0 .. m : dir2[i] = dir[i]}
  <2>5. \A i \in 0 .. m : i \in Same
    <3>1. 0 \in Same
      BY <1>3, <2>2, <2>4
    <3>2. ASSUME NEW i \in 1 .. m, i - 1 \in Same PROVE i \in Same
      <4>1. dir2[i - 1] = dir[i - 1]
        BY <3>2
      <4>2. front[i] = path[i] /\ i \in 1 .. n
        BY <2>1, <2>2, <3>2
      <4>3. NextDirectories(d, front, dir2[i - 1], i) = NextDirectories(d, path, dir[i - 1], i)
        BY <4>1, <4>2 DEF NextDirectories
      <4> QED BY <1>3, <2>4, <4>2, <4>3
    <3> DEFINE is == [i \in 0 .. m |-> i]
    <3>3. is[0] \in Same /\ \A i \in 1 .. m : is[i - 1] \in Same => is[i] \in Same
      BY <2>2, <3>1, <3>2
    <3>5. \A i \in 0 .. m : is[i] = i
      OBVIOUS
    <3> HIDE DEF Same, is
    <3>4. \A i \in 0 .. m : is[i] \in Same
      BY <2>2, <3>3, Rounds
    <3> QED BY <3>4, <3>5
  <2>6. dir[m] = ParsePath(d, front)
    BY <2>2, <2>3, <2>5
  <2>7. dir[n] = NextDirectories(d, path, dir[m], n)
    <3>1. n \in 1 .. n /\ n - 1 = m
      BY <1>1, <2>2
    <3> QED BY <1>3, <3>1
  <2>8. path[n] = Last(front)
    BY <2>1, <2>2 DEF Last
  <2> QED BY <1>2, <2>6, <2>7, <2>8 DEF NextDirectories
<1>6. Len(path) = 1 => ParsePath(d, path) = {DirectorySector}
  BY <1>1, <1>2, <1>3 DEF first
<1> QED BY <1>4, <1>5, <1>6 DEF front

LEMMA FindFacts ==
  ASSUME NEW d \in Disk, NEW path \in AnyPath
  PROVE  /\ Find(d, path) \subseteq Entry
         /\ \A e : e \in Find(d, path) <=>
                     \E s \in ParsePath(d, path) : e \in Entries(Fetch(d, s), Last(path))
         /\ Len(path) > 1 =>
              ParsePath(d, path) = {e.sector : e \in {f \in Find(d, Front(path)) : f.isDirectory}}
<1>1. \A e : e \in Find(d, path) <=>
               \E s \in ParsePath(d, path) : e \in Entries(Fetch(d, s), Last(path))
  BY DEF Find
<1>2. \A s \in ParsePath(d, path) : Fetch(d, s) \in Table
  BY ParsePathFacts, FetchFacts
<1>3. Find(d, path) \subseteq Entry
  BY <1>1, <1>2, EntriesFacts
<1>4. ASSUME Len(path) > 1
      PROVE  ParsePath(d, path) = {e.sector : e \in {f \in Find(d, Front(path)) : f.isDirectory}}
  <2> DEFINE front == Front(path)
             S == ParsePath(d, front)
  <2>1. ParsePath(d, path) = UNION {Subdirectories(Fetch(d, s), Last(front)) : s \in S}
    BY <1>4, ParsePathFacts
  <2>2. front \in AnyPath
    BY <1>4, FrontFacts DEF AnyPath
  <2> HIDE DEF front
  <2>3. \A e : e \in Find(d, front) <=> \E s \in S : e \in Entries(Fetch(d, s), Last(front))
    BY DEF Find
  <2>4. \A s \in S : Subdirectories(Fetch(d, s), Last(front)) =
                       {e.sector : e \in {f \in Entries(Fetch(d, s), Last(front)) : f.isDirectory}}
    BY DEF Subdirectories
  <2>5. ASSUME NEW x \in ParsePath(d, path)
        PROVE  x \in {e.sector : e \in {f \in Find(d, front) : f.isDirectory}}
    <3>1. PICK s \in S : x \in Subdirectories(Fetch(d, s), Last(front))
      BY <2>1, <2>5
    <3>2. PICK e \in Entries(Fetch(d, s), Last(front)) : e.isDirectory /\ x = e.sector
      BY <2>4, <3>1
    <3> QED BY <2>3, <3>1, <3>2
  <2>6. ASSUME NEW e \in Find(d, front), e.isDirectory PROVE e.sector \in ParsePath(d, path)
    <3>1. PICK s \in S : e \in Entries(Fetch(d, s), Last(front))
      BY <2>3, <2>6
    <3>2. e.sector \in Subdirectories(Fetch(d, s), Last(front))
      BY <2>4, <2>6, <3>1
    <3> QED BY <2>1, <3>1, <3>2
  <2>7. ParsePath(d, path) = {e.sector : e \in {f \in Find(d, front) : f.isDirectory}}
    BY <2>5, <2>6
  <2> QED BY <2>7 DEF front
<1> QED BY <1>1, <1>3, <1>4

LEMMA FetchedOnce ==
  ASSUME NEW d \in Disk, UniqueNames(d), NEW s \in Sector
  PROVE  OneEach(Fetch(d, s))
BY DiskParts, VisibleOneEach, FetchIsVisible DEF UniqueNames

LEMMA ParsePathUnique ==
  ASSUME NEW d \in Disk, UniqueNames(d), NEW path \in AnyPath
  PROVE  \A s, t \in ParsePath(d, path) : s = t
<1> DEFINE Single(q) == \A s, t \in ParsePath(d, q) : s = t
           Bad == {n \in Nat : \E q \in AnyPath : Len(q) = n /\ ~Single(q)}
<1>1. SUFFICES ASSUME Bad # {} PROVE FALSE
  <2>1. Len(path) \in Nat
    BY FrontFacts DEF AnyPath
  <2>2. Single(path) \/ Len(path) \in Bad
    BY <2>1
  <2> QED BY <1>1, <2>2
<1>2. PICK n \in Bad : \A m \in Bad : n <= m
  <2>1. Bad \in SUBSET Nat
    OBVIOUS
  <2> HIDE DEF Bad
  <2> QED BY <1>1, <2>1, LeastNatural
<1>3. PICK q \in AnyPath : Len(q) = n /\ ~Single(q)
  BY <1>2
<1>4. n \in Nat \ {0}
  BY <1>3, FrontFacts DEF AnyPath
<1>5. CASE n = 1
  BY <1>3, <1>5, ParsePathFacts
<1>6. CASE n # 1
  <2> DEFINE front == Front(q)
  <2>1. Len(q) > 1
    BY <1>3, <1>4, <1>6
  <2>2. front \in AnyPath /\ Len(front) = n - 1
    BY <1>3, <2>1, FrontFacts DEF AnyPath
  <2>3. n - 1 \in Nat /\ ~(n <= n - 1)
    BY <1>4
  <2>4. n - 1 \notin Bad
    BY <1>2, <2>3
  <2>5. Single(front)
    BY <2>2, <2>3, <2>4
  <2>6. ParsePath(d, q) = UNION {Subdirectories(Fetch(d, s), Last(front)) : s \in ParsePath(d, front)}
    BY <2>1, ParsePathFacts
  <2>7. ASSUME NEW s \in ParsePath(d, front), NEW x \in Subdirectories(Fetch(d, s), Last(front)),
               NEW y \in Subdirectories(Fetch(d, s), Last(front))
        PROVE  x = y
    <3>1. s \in Sector /\ Fetch(d, s) \in Table /\ OneEach(Fetch(d, s))
      BY <2>2, ParsePathFacts, FetchFacts, FetchedOnce
    <3>2. PICK e \in Entries(Fetch(d, s), Last(front)) : x = e.sector
      BY <2>7, <3>1, SubdirectoriesFacts
    <3>3. PICK f \in Entries(Fetch(d, s), Last(front)) : y = f.sector
      BY <2>7, <3>1, SubdirectoriesFacts
    <3> QED BY <3>1, <3>2, <3>3, OneEntry
  <2> HIDE DEF front
  <2>8. Single(q)
    BY <2>5, <2>6, <2>7
  <2> QED BY <1>3, <2>8
<1> QED BY <1>5, <1>6

LEMMA FindUnique ==
  ASSUME NEW d \in Disk, UniqueNames(d), NEW path \in AnyPath, NEW e \in Find(d, path)
  PROVE  Find(d, path) = {e} /\ The(Find(d, path)) = e
<1>1. ASSUME NEW f \in Find(d, path) PROVE f = e
  <2>1. PICK s \in ParsePath(d, path) : e \in Entries(Fetch(d, s), Last(path))
    BY FindFacts
  <2>2. f \in Entries(Fetch(d, s), Last(path))
    <3>1. PICK t \in ParsePath(d, path) : f \in Entries(Fetch(d, t), Last(path))
      BY <1>1, FindFacts
    <3> QED BY <2>1, <3>1, ParsePathUnique
  <2>3. Fetch(d, s) \in Table /\ OneEach(Fetch(d, s))
    BY <2>1, ParsePathFacts, FetchFacts, FetchedOnce
  <2> QED BY <2>1, <2>2, <2>3, OneEntry
<1>2. Find(d, path) = {e}
  BY <1>1
<1> QED BY <1>2 DEF The

-----------------------------------------------------------------------------

(* An entry is put into a directory, and the table of its sector is made new. *)
LEMMA ResultParts ==
  ASSUME NEW r \in Result
  PROVE  r.disk \in Disk /\ r.ok \in BOOLEAN /\ r.dead \in BOOLEAN
BY DEF Result

LEMMA FailedFacts ==
  ASSUME NEW d \in Disk, NEW b \in BOOLEAN
  PROVE  /\ Failed(d) \in Result /\ Failed(d).disk = d /\ ~Failed(d).ok /\ ~Failed(d).dead
         /\ [Failed(d) EXCEPT !.dead = b] \in Result /\ [Failed(d) EXCEPT !.dead = b].disk = d
         /\ ~[Failed(d) EXCEPT !.dead = b].ok
BY DEF Failed, Result

LEMMA EndedFacts ==
  ASSUME NEW w \in Writing
  PROVE  /\ Ended(w) \in Result /\ Ended(w).disk = w.disk /\ Ended(w).dead = w.dead
         /\ Ended(w).ok = ~w.dead
BY DEF Ended, Writing, Result

LEMMA SaveMapFacts ==
  ASSUME NEW r \in Result, NEW map \in SUBSET Sector
  PROVE  /\ SaveMap(r, map) \in Result /\ SaveMap(r, map).dead = r.dead
         /\ SaveMap(r, map).ok = r.ok /\ SaveMap(r, map).disk.table = r.disk.table
         /\ SaveMap(r, map).disk.used = IF r.ok THEN map ELSE r.disk.used
<1> DEFINE d2 == [r.disk EXCEPT !.used = map]
           r2 == [r EXCEPT !.disk = d2]
<1>1. SaveMap(r, map) = IF r.ok THEN r2 ELSE r
  BY Zenon DEF SaveMap
<1>2. r.disk \in Disk /\ r.ok \in BOOLEAN
  BY ResultParts
<1>3. d2 \in Disk /\ d2.used = map /\ d2.table = r.disk.table
  BY <1>2, DiskUsed
<1> HIDE DEF d2
<1>4. r2 \in Result /\ r2.disk = d2 /\ r2.ok = r.ok /\ r2.dead = r.dead
  BY <1>3 DEF Result
<1> HIDE DEF r2
<1>5. CASE r.ok
  BY <1>1, <1>3, <1>4, <1>5
<1>6. CASE ~r.ok
  BY <1>1, <1>6
<1> QED BY <1>5, <1>6

LEMMA StoreEntryFacts ==
  ASSUME NEW d \in Disk, NEW dir \in Sector, NEW entry \in Entry, NEW a,
         Granted(d.used \cup {entry.sector}, a)
  PROVE  Entered(d, dir, entry, StoreEntry(d, dir, entry, a))
<1> DEFINE x == entry.sector
           d1 == [d EXCEPT !.block = a.block]
           d2 == WriteHeader(d1, x, a.header)
           written == [d2 EXCEPT !.table[x] = NewTable]
           t == AddEntry(Fetch(d, dir), entry)
           w == WriteTable(written, dir, t)
           r == SaveMap(Ended(w), a.map)
<1>1. x \in Sector /\ t \in Table /\ NewTable \in Table
  <2>1. Fetch(d, dir) \in Table
    BY FetchFacts
  <2> QED BY <2>1, EntryFacts, AddEntryPlace, NewTableFacts
<1>2. /\ a.block \in [Sector -> Seq(Sector)] /\ BlocksFit(a.block) /\ a.header \in OpenHeader
      /\ a.map \in SUBSET Sector /\ d.used \subseteq a.map /\ x \in a.map /\ a.dead \in BOOLEAN
      /\ a.ok \in BOOLEAN
  BY DEF Granted
<1>3. StoreEntry(d, dir, entry, a) = IF a.ok THEN r ELSE [Failed(d) EXCEPT !.dead = a.dead]
  BY Zenon DEF StoreEntry
<1> HIDE DEF t, x
<1>4. d1 \in Disk /\ d1.used = d.used /\ d1.table = d.table
  BY <1>2, DiskBlock
<1> HIDE DEF d1
<1>5. d2 \in Disk /\ d2.used = d.used /\ d2.table = d.table
  BY <1>1, <1>2, <1>4, WriteHeaderFacts
<1> HIDE DEF d2
<1>6. written \in Disk /\ written.used = d.used /\ written.table = Fresh(d, x)
  BY <1>1, <1>5, DiskTable DEF Fresh
<1> HIDE DEF written
<1>7. Stored(written, dir, t, w)
  BY <1>1, <1>6, WriteTableFacts
<1> HIDE DEF w
<1>8. /\ w \in Writing /\ w.disk \in Disk /\ w.dead \in BOOLEAN /\ d.used \subseteq w.disk.used
      /\ ~w.dead => w.disk.table = [Fresh(d, x) EXCEPT ![dir] = t]
      /\ w.dead => \/ w.disk.table = Fresh(d, x)
                   \/ w.disk.table = [Fresh(d, x) EXCEPT ![dir] = ExpandSize(Fresh(d, x)[dir], Len(t))]
  BY <1>6, <1>7 DEF Stored, Writing
<1>9. /\ r \in Result /\ r.dead = w.dead /\ r.ok = ~w.dead /\ r.disk.table = w.disk.table
      /\ r.disk.used = IF ~w.dead THEN a.map ELSE w.disk.used
  <2> DEFINE ended == Ended(w)
  <2>1. /\ ended \in Result /\ ended.disk = w.disk /\ ended.dead = w.dead
        /\ ended.ok = ~w.dead
    BY <1>8, EndedFacts
  <2> HIDE DEF ended
  <2>2. /\ SaveMap(ended, a.map) \in Result /\ SaveMap(ended, a.map).dead = ended.dead
        /\ SaveMap(ended, a.map).ok = ended.ok
        /\ SaveMap(ended, a.map).disk.table = ended.disk.table
        /\ SaveMap(ended, a.map).disk.used = IF ended.ok THEN a.map ELSE ended.disk.used
    BY <1>2, <2>1, SaveMapFacts
  <2>3. r = SaveMap(ended, a.map)
    BY DEF ended
  <2> HIDE DEF r
  <2> QED BY <2>1, <2>2, <2>3
<1> HIDE DEF r
<1>10. Len(t) \in Nat
  BY <1>1, PartOfTable
<1>11. CASE a.ok
  <2>1. StoreEntry(d, dir, entry, a) = r
    BY <1>3, <1>11
  <2>2. CASE w.dead
    BY <1>8, <1>9, <1>10, <2>1, <2>2 DEF Entered, x
  <2>3. CASE ~w.dead
    BY <1>2, <1>8, <1>9, <2>1, <2>3 DEF Entered, x, t
  <2> QED BY <2>2, <2>3
<1>12. CASE ~a.ok
  <2> DEFINE f == [Failed(d) EXCEPT !.dead = a.dead]
  <2>1. f \in Result /\ f.disk = d /\ ~f.ok
    BY <1>2, FailedFacts
  <2>2. StoreEntry(d, dir, entry, a) = f
    BY <1>3, <1>12
  <2> HIDE DEF f
  <2> QED BY <2>1, <2>2 DEF Entered
<1> QED BY <1>11, <1>12

LEMMA EnterFacts ==
  ASSUME NEW d \in Disk, NEW path \in AnyPath, NEW size \in Nat, NEW b \in BOOLEAN
  PROVE  \/ Enter(d, path, size, b) = Failed(d)
         \/ /\ Find(d, path) = {} /\ NewEntry(d, path, b) \in Entry
            /\ FindClear(d.used) \in Sector \ d.used
            /\ The(ParsePath(d, path)) \in ParsePath(d, path)
            /\ Entered(d, The(ParsePath(d, path)), NewEntry(d, path, b), Enter(d, path, size, b))
<1> DEFINE x == FindClear(d.used)
           entry == NewEntry(d, path, b)
           dir == The(ParsePath(d, path))
           a == Allocate(d.block, d.used \cup {x}, NewHeader, size)
<1>1. Enter(d, path, size, b) =
        IF ParsePath(d, path) = {} \/ Find(d, path) # {} \/ x = NoSector THEN Failed(d)
        ELSE StoreEntry(d, dir, entry, a)
  BY DEF Enter, NewEntry
<1>2. SUFFICES ASSUME ParsePath(d, path) # {}, Find(d, path) = {}, x # NoSector
               PROVE  /\ entry \in Entry /\ x \in Sector \ d.used /\ dir \in ParsePath(d, path)
                      /\ Entered(d, dir, entry, StoreEntry(d, dir, entry, a))
  BY <1>1
<1>3. x \in Sector \ d.used
  BY <1>2, FindClearFacts
<1>4. entry \in Entry /\ entry.sector = x
  <2>1. Last(path) \in Name \cup Dots \cup {SwapName}
    BY FrontFacts DEF AnyPath
  <2> HIDE DEF x
  <2>2. entry = [inUse |-> TRUE, name |-> Last(path), sector |-> x, isDirectory |-> b]
    BY DEF NewEntry, x
  <2> HIDE DEF entry
  <2> QED BY <1>3, <2>1, <2>2 DEF Entry
<1>5. dir \in ParsePath(d, path) /\ dir \in Sector
  <2>1. dir \in ParsePath(d, path)
    BY <1>2 DEF The
  <2> QED BY <2>1, ParsePathFacts
<1> HIDE DEF x
<1>6. Granted(d.used \cup {x}, a)
  <2> DEFINE map == d.used \cup {x}
  <2>1. map \in SUBSET Sector /\ d.block \in [Sector -> Seq(Sector)] /\ BlocksFit(d.block)
    BY <1>3, DiskParts
  <2>2. NewHeader \in OpenHeader
    BY DiskFacts DEF NewHeader, OpenHeader, FileHeader
  <2> HIDE DEF map
  <2>3. Granted(map, Allocate(d.block, map, NewHeader, size))
    BY <2>1, <2>2, AllocateFacts
  <2> QED BY <2>3 DEF map
<1> HIDE DEF a, entry, dir
<1> QED BY <1>3, <1>4, <1>5, <1>6, StoreEntryFacts

-----------------------------------------------------------------------------

(* No call puts a name into a directory twice.                                *)
LEMMA UniqueAfter ==
  ASSUME NEW d \in Disk, UniqueNames(d), NEW e \in Disk, NEW s \in Sector, NEW t \in Table,
         OneEach(t), e.table = [d.table EXCEPT ![s] = t]
  PROVE  UniqueNames(e)
<1> SUFFICES ASSUME NEW x \in Sector PROVE OneEach(e.table[x])
  BY DEF UniqueNames
<1>1. d.table \in [Sector -> Table]
  BY DiskParts
<1>2. e.table[x] = IF x = s THEN t ELSE d.table[x]
  BY <1>1
<1> QED BY <1>2 DEF UniqueNames

LEMMA StoredUnique ==
  ASSUME NEW d \in Disk, UniqueNames(d), NEW s \in Sector, NEW t \in Table, OneEach(t),
         NEW w, Stored(d, s, t, w)
  PROVE  UniqueNames(w.disk)
<1>1. w.disk \in Disk
  BY DEF Stored, Writing
<1>2. CASE w.disk.table = d.table
  BY <1>2 DEF UniqueNames
<1>3. CASE w.disk.table = [d.table EXCEPT ![s] = t]
  BY <1>1, <1>3, UniqueAfter
<1>4. CASE w.disk.table = [d.table EXCEPT ![s] = ExpandSize(d.table[s], Len(t))]
  <2> DEFINE n == Len(t)
             longer == ExpandSize(d.table[s], n)
  <2>1. n \in Nat /\ d.table[s] \in Table /\ OneEach(d.table[s])
    BY PartOfTable, DiskParts DEF UniqueNames
  <2>2. longer \in Table /\ OneEach(longer)
    <3> HIDE DEF n
    <3> QED BY <2>1, ExpandSizeFacts, ExpandedSame
  <2> HIDE DEF n, longer
  <2> QED BY <1>1, <1>4, <2>2, UniqueAfter DEF n, longer
<1> QED BY <1>2, <1>3, <1>4 DEF Stored

LEMMA EnteredUnique ==
  ASSUME NEW d \in Disk, UniqueNames(d), NEW dir \in Sector, NEW entry \in Entry,
         Entries(Fetch(d, dir), entry.name) = {}, NEW r, Entered(d, dir, entry, r)
  PROVE  UniqueNames(r.disk)
<1> DEFINE new == Fresh(d, entry.sector)
           d1 == [d EXCEPT !.table[entry.sector] = NewTable]
<1>1. r.disk \in Disk /\ entry.sector \in Sector
  BY EntryFacts, ResultParts DEF Entered
<1>2. d1 \in Disk /\ d1.table = new
  BY <1>1, DiskTable, NewTableFacts DEF Fresh
<1> HIDE DEF d1
<1>3. UniqueNames(d1)
  BY <1>1, <1>2, NewTableFacts, UniqueAfter DEF Fresh
<1>4. CASE r.disk = d
  BY <1>4
<1>5. CASE r.disk.table = new
  BY <1>2, <1>3, <1>5 DEF UniqueNames
<1>6. CASE r.disk.table = [new EXCEPT ![dir] = AddEntry(Fetch(d, dir), entry)]
  <2> DEFINE t == AddEntry(Fetch(d, dir), entry)
  <2>1. t \in Table /\ OneEach(t)
    <3>1. Fetch(d, dir) \in Table /\ Len(Fetch(d, dir)) <= 2 * NumDirEntries
          /\ OneEach(Fetch(d, dir))
      BY FetchFacts, FetchedOnce
    <3> QED BY <3>1, AddEntryFacts
  <2> HIDE DEF t
  <2>2. r.disk.table = [d1.table EXCEPT ![dir] = t]
    BY <1>2, <1>6 DEF t
  <2> QED BY <1>1, <1>2, <1>3, <2>1, <2>2, UniqueAfter
<1>7. ASSUME NEW n \in Nat, r.disk.table = [new EXCEPT ![dir] = ExpandSize(new[dir], n)]
      PROVE  UniqueNames(r.disk)
  <2> DEFINE t == ExpandSize(new[dir], n)
  <2>1. new[dir] \in Table /\ OneEach(new[dir])
    BY <1>2, <1>3, DiskParts DEF UniqueNames
  <2> HIDE DEF new
  <2>2. t \in Table /\ OneEach(t)
    BY <2>1, ExpandSizeFacts, ExpandedSame
  <2> HIDE DEF t
  <2>3. r.disk.table = [d1.table EXCEPT ![dir] = t]
    BY <1>2, <1>7 DEF t
  <2> QED BY <1>1, <1>2, <1>3, <2>2, <2>3, UniqueAfter
<1> QED BY <1>4, <1>5, <1>6, <1>7 DEF Entered

LEMMA DotTableFacts ==
  ASSUME NEW s \in Sector, NEW parent \in Sector
  PROVE  /\ DotTable(s, parent) \in Table /\ OneEach(DotTable(s, parent))
         /\ \A x \in Name \cup {SwapName} : Entries(Visible(DotTable(s, parent)), x) = {}
<1> DEFINE here == DotEntry(".", s)
           above == DotEntry("..", parent)
           t == AddEntry(NewTable, here)
           u == AddEntry(t, above)
<1>1. /\ here \in Entry /\ here.name = "." /\ above \in Entry /\ above.name = ".."
      /\ "." # ".."
  BY DEF DotEntry, Entry, Dots
<1> HIDE DEF here, above
<1>2. /\ t \in Table /\ OneEach(t) /\ Len(t) <= 2 * NumDirEntries
      /\ \A x : x # "." => Entries(t, x) = {}
  <2>1. NewTable \in Table /\ OneEach(NewTable) /\ Len(NewTable) <= 2 * NumDirEntries
        /\ \A x : Entries(NewTable, x) = {}
    BY NewTableFacts
  <2>2. /\ t \in Table /\ OneEach(t)
        /\ \A x : x # "." => Entries(Visible(t), x) = {}
    BY <1>1, <2>1, AddEntryFacts
  <2>3. Len(t) <= 2 * Len(NewTable) /\ Len(NewTable) = NumDirEntries
    BY <1>1, <2>1, AddEntryPlace, DiskAssumption DEF NewTable
  <2>4. Len(t) <= 2 * NumDirEntries /\ Visible(t) = t
    <3>1. Len(t) \in Nat /\ 2 * NumDirEntries \in Nat /\ Len(t) <= 2 * NumDirEntries
      BY <2>2, <2>3, PartOfTable, VisibleFacts
    <3>2. ~(Len(t) > 2 * NumDirEntries)
      BY <3>1
    <3> QED BY <3>1, <3>2 DEF Visible
  <2> QED BY <2>2, <2>4
<1> HIDE DEF t
<1>3. Entries(t, above.name) = {}
  BY <1>1, <1>2
<1>4. /\ u \in Table /\ OneEach(u)
      /\ \A x : x # above.name => Entries(Visible(u), x) = Entries(t, x)
  BY <1>1, <1>2, <1>3, AddEntryFacts
<1>5. DotTable(s, parent) = u
  BY DEF DotTable, t, here, above
<1> HIDE DEF u
<1>6. ASSUME NEW x \in Name \cup {SwapName} PROVE x # "." /\ x # ".."
  BY NameAssumption DEF Dots
<1> QED BY <1>1, <1>2, <1>4, <1>5, <1>6

-----------------------------------------------------------------------------

(* Whole calls.                                                               *)
LEMMA EnterResult ==
  ASSUME NEW d \in Disk, UniqueNames(d), NEW path \in AnyPath, NEW size \in Nat, NEW b \in BOOLEAN
  PROVE  /\ Enter(d, path, size, b) \in Result /\ UniqueNames(Enter(d, path, size, b).disk)
         /\ d.used \subseteq Enter(d, path, size, b).disk.used
<1> DEFINE r == Enter(d, path, size, b)
<1>1. CASE r = Failed(d)
  BY <1>1, FailedFacts
<1>2. CASE r # Failed(d)
  <2> DEFINE dir == The(ParsePath(d, path))
             entry == NewEntry(d, path, b)
  <2>1. /\ Find(d, path) = {} /\ entry \in Entry /\ dir \in ParsePath(d, path)
        /\ Entered(d, dir, entry, r)
    BY <1>2, EnterFacts
  <2>2. dir \in Sector
    BY <2>1, ParsePathFacts
  <2>3. Entries(Fetch(d, dir), Last(path)) = {} /\ entry.name = Last(path)
    BY <2>1, FindFacts DEF NewEntry
  <2> HIDE DEF dir, entry, r
  <2>4. r \in Result /\ UniqueNames(r.disk) /\ d.used \subseteq r.disk.used
    BY <2>1, <2>2, <2>3, EnteredUnique DEF Entered
  <2> QED BY <2>4 DEF r
<1> QED BY <1>1, <1>2

LEMMA StoredResult ==
  ASSUME NEW d \in Disk, NEW s \in Sector, NEW t \in Table
  PROVE  /\ Ended(WriteTable(d, s, t)) \in Result
         /\ Stored(d, s, t, WriteTable(d, s, t))
         /\ Ended(WriteTable(d, s, t)).disk = WriteTable(d, s, t).disk
         /\ Ended(WriteTable(d, s, t)).dead = WriteTable(d, s, t).dead
         /\ Ended(WriteTable(d, s, t)).ok = ~WriteTable(d, s, t).dead
<1> DEFINE w == WriteTable(d, s, t)
<1>1. Stored(d, s, t, w)
  BY WriteTableFacts
<1> HIDE DEF w
<1>2. w \in Writing
  BY <1>1 DEF Stored
<1>3. Ended(w) \in Result /\ Ended(w).disk = w.disk /\ Ended(w).dead = w.dead
      /\ Ended(w).ok = ~w.dead
  BY <1>2, EndedFacts
<1> QED BY <1>1, <1>3 DEF w

(* Make_Dir stores the entries "." and ".." when the name is there.           *)
LEMMA AddDotsIs ==
  ASSUME NEW r, NEW s, NEW parent
  PROVE  AddDots(r, s, parent) =
           IF r.ok THEN Ended(WriteTable(r.disk, s, DotTable(s, parent))) ELSE r
BY Zenon DEF AddDots, DotTable, DotEntry

LEMMA MakeDirResult ==
  ASSUME NEW d \in Disk, UniqueNames(d), NEW path \in AnyPath
  PROVE  MakeDir(d, path) \in Result /\ UniqueNames(MakeDir(d, path).disk)
<1> DEFINE r == Enter(d, path, 0, TRUE)
           x == FindClear(d.used)
           parent == The(ParsePath(d, path))
<1>1. r \in Result /\ UniqueNames(r.disk)
  BY EnterResult
<1>2. MakeDir(d, path) = IF r.ok THEN Ended(WriteTable(r.disk, x, DotTable(x, parent))) ELSE r
  BY AddDotsIs DEF MakeDir
<1>3. r.ok => x \in Sector /\ parent \in Sector
  <2>1. r.ok => r # Failed(d)
    BY FailedFacts
  <2>2. r.ok => x \in Sector /\ parent \in ParsePath(d, path)
    BY <2>1, EnterFacts
  <2> QED BY <2>2, ParsePathFacts
<1> HIDE DEF r, x, parent
<1>4. CASE ~r.ok
  BY <1>1, <1>2, <1>4
<1>5. CASE r.ok
  <2> DEFINE t == DotTable(x, parent)
  <2>1. t \in Table /\ OneEach(t) /\ r.disk \in Disk /\ x \in Sector
    BY <1>1, <1>3, <1>5, DotTableFacts, ResultParts
  <2> HIDE DEF t
  <2>2. Ended(WriteTable(r.disk, x, t)) \in Result /\ Stored(r.disk, x, t, WriteTable(r.disk, x, t))
        /\ Ended(WriteTable(r.disk, x, t)).disk = WriteTable(r.disk, x, t).disk
    BY <2>1, StoredResult
  <2>3. UniqueNames(WriteTable(r.disk, x, t).disk)
    BY <1>1, <2>1, <2>2, StoredUnique
  <2>4. MakeDir(d, path) = Ended(WriteTable(r.disk, x, t))
    BY <1>2, <1>5 DEF t
  <2> QED BY <2>2, <2>3, <2>4
<1> QED BY <1>4, <1>5

(* A file is deleted: its sectors become free, the table of the header's      *)
(* sector is made new.                                                        *)
LEMMA DeallocateFacts ==
  ASSUME NEW d \in Disk, UniqueNames(d), NEW sector \in Sector
  PROVE  /\ Deallocate(d, sector) \in Disk /\ UniqueNames(Deallocate(d, sector))
         /\ Deallocate(d, sector).used = d.used \ Freed(d, sector)
         /\ Deallocate(d, sector).table = Fresh(d, sector)
<1> DEFINE freed == Freed(d, sector)
           used2 == d.used \ freed
           block2 == [s \in Sector |-> IF s \in freed THEN <<>> ELSE d.block[s]]
           header2 == [d.header EXCEPT ![sector] = NewHeader]
           table2 == Fresh(d, sector)
           r == [d EXCEPT !.used = used2, !.block = block2, !.header = header2, !.table = table2]
<1>1. Deallocate(d, sector) = r
  BY Zenon DEF Deallocate, Freed, Fresh
<1>2. used2 \in SUBSET Sector
  BY DiskParts
<1>3. block2 \in [Sector -> Seq(Sector)] /\ BlocksFit(block2)
  <2>1. d.block \in [Sector -> Seq(Sector)] /\ BlocksFit(d.block)
    BY DiskParts
  <2>2. <<>> \in Seq(Sector) /\ Len(<<>>) <= MaxBlocksNum
    BY DiskFacts
  <2> HIDE DEF freed
  <2> QED BY <2>1, <2>2 DEF BlocksFit
<1>4. header2 \in [Sector -> FileHeader] /\ \A s \in Sector : Len(header2[s].sectors) < NumDirect
  <2>1. NewHeader \in FileHeader /\ Len(NewHeader.sectors) < NumDirect
    BY DiskFacts DEF NewHeader, FileHeader
  <2>2. d.header \in [Sector -> FileHeader] /\ \A s \in Sector : Len(d.header[s].sectors) < NumDirect
    BY DiskParts DEF Disk
  <2> QED BY <2>1, <2>2
<1>5. table2 \in [Sector -> Table]
  BY DiskParts, NewTableFacts DEF Fresh
<1> HIDE DEF used2, block2, header2, table2
<1>6. r \in Disk /\ r.used = used2 /\ r.table = table2
  BY <1>2, <1>3, <1>4, <1>5 DEF Disk, Table
<1> HIDE DEF r
<1>7. UniqueNames(r)
  BY <1>6, NewTableFacts, UniqueAfter DEF table2, Fresh
<1> QED BY <1>1, <1>6, <1>7 DEF used2, table2

LEMMA RemoveFacts ==
  ASSUME NEW d \in Disk, UniqueNames(d), NEW path \in AnyPath
  PROVE  /\ RemoveName(d, path) \in Result /\ UniqueNames(RemoveName(d, path).disk)
         /\ \/ RemoveName(d, path) = Failed(d)
            \/ \E entry \in Find(d, path), dir \in ParsePath(d, path) :
                 ~entry.isDirectory /\ Removed(d, dir, entry, RemoveName(d, path))
<1> DEFINE r == RemoveName(d, path)
           dir == The(ParsePath(d, path))
           entry == The(Find(d, path))
           d1 == Deallocate(d, entry.sector)
           t == Without(Fetch(d, dir), entry)
<1>1. r = IF Find(d, path) = {} \/ entry.isDirectory THEN Failed(d)
          ELSE Ended(WriteTable(d1, dir, t))
  BY DEF RemoveName
<1>2. CASE Find(d, path) = {} \/ entry.isDirectory
  BY <1>1, <1>2, FailedFacts
<1>3. CASE ~(Find(d, path) = {} \/ entry.isDirectory)
  <2>1. entry \in Find(d, path)
    BY <1>3 DEF The
  <2>2. ParsePath(d, path) # {}
    BY <2>1, FindFacts
  <2>3. dir \in ParsePath(d, path) /\ dir \in Sector
    BY <2>2, ParsePathFacts DEF The
  <2>4. entry \in Entry /\ entry.sector \in Sector
    BY <2>1, FindFacts, EntryFacts
  <2> HIDE DEF entry, dir
  <2>5. t \in Table /\ OneEach(t)
    <3>1. Fetch(d, dir) \in Table /\ Len(Fetch(d, dir)) <= 2 * NumDirEntries
          /\ OneEach(Fetch(d, dir))
      BY <2>3, FetchFacts, FetchedOnce
    <3> QED BY <3>1, WithoutFacts
  <2>6. d1 \in Disk /\ UniqueNames(d1)
    BY <2>4, DeallocateFacts
  <2> DEFINE w == WriteTable(d1, dir, t)
  <2>7. /\ Stored(d1, dir, t, w) /\ Ended(w) \in Result /\ Ended(w).disk = w.disk
        /\ Ended(w).dead = w.dead /\ Ended(w).ok = ~w.dead
    <3> HIDE DEF t, d1
    <3> QED BY <2>3, <2>5, <2>6, StoredResult
  <2>8. UniqueNames(w.disk)
    <3> HIDE DEF t, d1, w
    <3> QED BY <2>3, <2>5, <2>6, <2>7, StoredUnique
  <2>9. r = Ended(w)
    BY <1>1, <1>3
  <2> HIDE DEF w, r
  <2>10. d1.used \subseteq w.disk.used
    <3> HIDE DEF d1, t
    <3> QED BY <2>7 DEF Stored
  <2>11. Removed(d, dir, entry, r)
    <3>1. Stored(Deallocate(d, entry.sector), dir, Without(Fetch(d, dir), entry), w)
      BY <2>7
    <3> QED BY <2>7, <2>9, <2>10, <3>1 DEF Removed
  <2>12. ~entry.isDirectory
    BY <1>3
  <2>13. r \in Result /\ UniqueNames(r.disk)
    BY <2>7, <2>8, <2>9
  <2> QED BY <2>1, <2>3, <2>11, <2>12, <2>13 DEF r
<1> QED BY <1>2, <1>3

LEMMA PathFacts ==
  /\ <<SwapName>> \in AnyPath /\ Len(<<SwapName>>) = 1 /\ Last(<<SwapName>>) = SwapName
  /\ \A path \in Path : /\ path \in AnyPath /\ path \in Seq(Name) /\ path # <<>>
                        /\ Len(path) \in 1 .. MaxDepth
<1>1. ASSUME NEW path \in Path
      PROVE  /\ path \in AnyPath /\ path \in Seq(Name) /\ path # <<>>
             /\ Len(path) \in 1 .. MaxDepth
  <2>1. PICK n \in 1 .. MaxDepth : path \in [1 .. n -> Name]
    BY DEF Path
  <2>2. n \in Nat \ {0}
    BY <2>1, NameAssumption
  <2>3. path \in Seq(Name) /\ Len(path) = n
    BY <2>1, <2>2
  <2>4. path \in Seq(Name \cup {SwapName}) /\ path # <<>>
    <3>1. path \in [1 .. n -> Name \cup {SwapName}]
      BY <2>1
    <3> QED BY <2>2, <2>3, <3>1
  <2> QED BY <2>3, <2>4 DEF AnyPath
<1>2. <<SwapName>> \in Seq(Name \cup {SwapName}) /\ <<SwapName>> # <<>>
  OBVIOUS
<1> QED BY <1>1, <1>2 DEF AnyPath, Last

LEMMA CreateResult ==
  ASSUME NEW d \in Disk, UniqueNames(d), NEW path \in AnyPath, NEW size \in Nat
  PROVE  Create(d, path, size) \in Result /\ UniqueNames(Create(d, path, size).disk)
BY EnterResult DEF Create

LEMMA CreateFails ==
  ASSUME NEW d \in Disk, NEW path \in AnyPath, NEW size \in Nat,
         ~Create(d, path, size).ok, ~Create(d, path, size).dead
  PROVE  Create(d, path, size).disk = d
<1> DEFINE r == Create(d, path, size)
<1>1. r = Enter(d, path, size, FALSE)
  BY DEF Create
<1>2. CASE r = Failed(d)
  BY <1>2, FailedFacts
<1>3. CASE r # Failed(d)
  <2>1. Entered(d, The(ParsePath(d, path)), NewEntry(d, path, FALSE), r)
    BY <1>1, <1>3, EnterFacts
  <2> HIDE DEF r
  <2>2. ~r.ok /\ ~r.dead
    BY DEF r
  <2>3. r.disk = d
    BY <2>1, <2>2 DEF Entered
  <2> QED BY <2>3 DEF r
<1> QED BY <1>2, <1>3

(* The three ways in which the swap file is made.                             *)
LEMMA MakeSwapFileIs ==
  ASSUME NEW d \in Disk, UniqueNames(d)
  PROVE  \/ MakeSwapFile(d) = Create(d, Swap, SwapSize)
         \/ MakeSwapFile(d) = RemoveName(d, Swap)
         \/ /\ ~RemoveName(d, Swap).dead
            /\ MakeSwapFile(d) = Create(RemoveName(d, Swap).disk, Swap, SwapSize)
<1> DEFINE r == Create(d, Swap, SwapSize)
           removed == RemoveName(r.disk, Swap)
<1>1. MakeSwapFile(d) = IF r.ok \/ r.dead THEN r
                        ELSE IF removed.dead THEN removed
                        ELSE Create(removed.disk, Swap, SwapSize)
  BY Zenon DEF MakeSwapFile, Swap
<1>2. ~r.ok /\ ~r.dead => r.disk = d
  BY PathFacts, CreateFails, DiskAssumption DEF Swap
<1> QED BY <1>1, <1>2

LEMMA MakeSwapFileResult ==
  ASSUME NEW d \in Disk, UniqueNames(d)
  PROVE  MakeSwapFile(d) \in Result /\ UniqueNames(MakeSwapFile(d).disk)
<1>1. Swap \in AnyPath /\ SwapSize \in Nat
  BY PathFacts, DiskAssumption DEF Swap
<1>2. RemoveName(d, Swap) \in Result /\ UniqueNames(RemoveName(d, Swap).disk)
  BY <1>1, RemoveFacts
<1>3. RemoveName(d, Swap).disk \in Disk
  BY <1>2, ResultParts
<1> QED BY <1>1, <1>2, <1>3, CreateResult, MakeSwapFileIs

(* The disk that is formatted.                                                *)
LEMMA FormatFacts ==
  Format \in Disk /\ UniqueNames(Format) /\ NoNames(Format) /\ DirectorySector \in Format.used
<1> DEFINE none == [s \in Sector |-> <<>>]
           clean == [s \in Sector |-> NewTable]
           headers == [s \in Sector |-> NewHeader]
           empty == [used |-> {}, header |-> headers, block |-> none, table |-> clean, lost |-> {}]
           two == {FreeMapSector, DirectorySector}
           map == Allocate(none, two, NewHeader, FreeMapFileSize)
           dir == Allocate(map.block, map.map, NewHeader, DirectoryFileSize)
           d1 == [empty EXCEPT !.block = dir.block, !.used = dir.map]
           d2 == WriteHeader(d1, FreeMapSector, map.header)
           d3 == WriteHeader(d2, DirectorySector, dir.header)
           w == WriteTable(d3, DirectorySector, NewTable)
<1>1. Format = w.disk
  BY Zenon DEF Format, FormatMap, FormatWith
<1>2. NewHeader \in OpenHeader /\ NewHeader \in FileHeader /\ Len(NewHeader.sectors) < NumDirect
  BY DiskFacts DEF NewHeader, OpenHeader, FileHeader
<1>3. none \in [Sector -> Seq(Sector)] /\ BlocksFit(none) /\ two \in SUBSET Sector
  BY DiskFacts DEF BlocksFit
<1>4. clean \in [Sector -> Table] /\ headers \in [Sector -> FileHeader]
      /\ \A s \in Sector : Len(headers[s].sectors) < NumDirect /\ clean[s] = NewTable
  BY <1>2, NewTableFacts
<1>5. FreeMapFileSize \in Nat /\ DirectoryFileSize \in Nat
  BY DiskAssumption DEF FreeMapFileSize, DirectoryFileSize
<1>6. DirectorySector \in two /\ FreeMapSector \in Sector /\ DirectorySector \in Sector
  BY DiskFacts
<1> HIDE DEF none, clean, headers, two
<1>7. empty \in Disk /\ empty.table = clean
  BY <1>3, <1>4 DEF Disk, Table
<1> HIDE DEF empty
<1>8. Granted(two, map)
  BY <1>2, <1>3, <1>5, AllocateFacts
<1> HIDE DEF map
<1>9. map.map \in SUBSET Sector /\ two \subseteq map.map /\ map.header \in OpenHeader
      /\ map.block \in [Sector -> Seq(Sector)] /\ BlocksFit(map.block)
  BY <1>8 DEF Granted
<1>10. Granted(map.map, dir)
  BY <1>2, <1>5, <1>9, AllocateFacts
<1> HIDE DEF dir
<1>11. dir.map \in SUBSET Sector /\ DirectorySector \in dir.map /\ dir.header \in OpenHeader
       /\ dir.block \in [Sector -> Seq(Sector)] /\ BlocksFit(dir.block)
  BY <1>6, <1>9, <1>10 DEF Granted
<1>12. d1 \in Disk /\ d1.used = dir.map /\ d1.table = clean
  <2> DEFINE block2 == dir.block
             used2 == dir.map
             r == [empty EXCEPT !.block = block2, !.used = used2]
  <2>1. block2 \in [Sector -> Seq(Sector)] /\ BlocksFit(block2) /\ used2 \in SUBSET Sector
    BY <1>11
  <2>2. d1 = r
    OBVIOUS
  <2> HIDE DEF block2, used2, d1
  <2>3. r \in Disk /\ r.used = used2 /\ r.table = empty.table
    BY <1>7, <2>1 DEF Disk
  <2> QED BY <1>7, <2>2, <2>3 DEF used2
<1> HIDE DEF d1
<1>13. d2 \in Disk /\ d2.used = dir.map /\ d2.table = clean
  BY <1>6, <1>9, <1>12, WriteHeaderFacts
<1> HIDE DEF d2
<1>14. d3 \in Disk /\ d3.used = dir.map /\ d3.table = clean
  BY <1>6, <1>11, <1>13, WriteHeaderFacts
<1> HIDE DEF d3
<1>15. Stored(d3, DirectorySector, NewTable, w)
  BY <1>6, <1>14, NewTableFacts, WriteTableFacts
<1> HIDE DEF w
<1>16. UniqueNames(d3)
  BY <1>4, <1>14, NewTableFacts DEF UniqueNames
<1>17. UniqueNames(w.disk) /\ w.disk \in Disk /\ DirectorySector \in w.disk.used
  <2>1. UniqueNames(w.disk)
    BY <1>6, <1>14, <1>15, <1>16, NewTableFacts, StoredUnique
  <2> QED BY <1>11, <1>14, <1>15, <2>1 DEF Stored, Writing
<1>18. ASSUME NEW s \in Sector, NEW x PROVE Entries(Visible(w.disk.table[s]), x) = {}
  <2> DEFINE n == Len(NewTable)
             longer == ExpandSize(NewTable, n)
  <2>1. n \in Nat /\ NewTable \in Table
    BY NewTableFacts, PartOfTable
  <2> HIDE DEF n
  <2>2. Entries(Visible(longer), x) = {} /\ Entries(Visible(NewTable), x) = {}
    BY <2>1, ExpandedSame, NewTableFacts
  <2>3. \/ w.disk.table = clean
        \/ w.disk.table = [clean EXCEPT ![DirectorySector] = ExpandSize(clean[DirectorySector], n)]
        \/ w.disk.table = [clean EXCEPT ![DirectorySector] = NewTable]
    BY <1>14, <1>15 DEF Stored, n
  <2>4. clean[DirectorySector] = NewTable /\ clean[s] = NewTable
    BY <1>4, <1>6
  <2> HIDE DEF longer
  <2>5. w.disk.table[s] = NewTable \/ w.disk.table[s] = longer
    BY <1>4, <2>3, <2>4 DEF longer
  <2> QED BY <2>2, <2>5
<1> QED BY <1>1, <1>17, <1>18 DEF NoNames

-----------------------------------------------------------------------------

(* DiskInv is inductive.                                                      *)
LEMMA DoesKeeps ==
  ASSUME NEW r \in Result, UniqueNames(r.disk), NEW next \in {"boot", "copy", "run"},
         Does(r, next)
  PROVE  DiskInv'
<1>1. disk' = r.disk /\ machine' = IF r.dead THEN "halted" ELSE next
  BY DEF Does
<1>2. disk' \in Disk /\ machine' \in {"boot", "copy", "run", "halted"}
  BY <1>1, ResultParts
<1>3. UniqueNames(disk')
  BY <1>1
<1> QED BY <1>2, <1>3 DEF DiskInv, UniqueNames

LEMMA CopyIntoFacts ==
  ASSUME NEW r \in Result, NEW path, NEW size
  PROVE  CopyInto(r, path, size) \in Result /\ CopyInto(r, path, size).disk = r.disk
         /\ CopyInto(r, path, size).ok = r.ok
<1> DEFINE stops == \/ Find(r.disk, path) = {}
                    \/ ~Backed(r.disk, r.disk.header[HeaderSector(r.disk, path)], size)
           c == [r EXCEPT !.dead = stops]
<1>1. CopyInto(r, path, size) = IF r.ok THEN c ELSE r
  BY Zenon DEF CopyInto
<1>2. stops \in BOOLEAN
  OBVIOUS
<1> HIDE DEF stops
<1>3. c \in Result /\ c.disk = r.disk /\ c.ok = r.ok
  BY <1>2 DEF Result
<1> HIDE DEF c
<1> QED BY <1>1, <1>3

LEMMA InitDiskInv ==
  ASSUME Init
  PROVE  DiskInv
<1>1. MakeSwapFile(Format) \in Result /\ UniqueNames(MakeSwapFile(Format).disk)
  BY FormatFacts, MakeSwapFileResult
<1>2. MakeSwapFile(Format).disk \in Disk
  BY <1>1, ResultParts
<1> QED BY <1>1, <1>2 DEF Init, DiskInv

LEMMA NextDiskInv ==
  ASSUME DiskInv, [Next]_vars
  PROVE  DiskInv'
<1>1. disk \in Disk /\ UniqueNames(disk)
  BY DEF DiskInv
<1>2. ASSUME NEW path \in Path, NEW size \in CopySize, Copy(path, size) PROVE DiskInv'
  <2> DEFINE r == Create(disk, path, size)
             c == CopyInto(r, path, size)
  <2>1. path \in AnyPath /\ size \in Nat
    BY PathFacts, DiskAssumption
  <2>2. r \in Result /\ UniqueNames(r.disk)
    BY <1>1, <2>1, CreateResult
  <2>3. Does(c, "run")
    BY <1>2 DEF Copy
  <2> HIDE DEF r
  <2>4. c \in Result /\ UniqueNames(c.disk)
    BY <2>2, CopyIntoFacts
  <2> HIDE DEF c
  <2> QED BY <2>3, <2>4, DoesKeeps
<1>3. ASSUME NEW path \in Path, RemoveOption(path) PROVE DiskInv'
  <2>1. path \in AnyPath /\ Does(RemoveName(disk, path), "copy")
    BY <1>3, PathFacts DEF RemoveOption
  <2>2. RemoveName(disk, path) \in Result /\ UniqueNames(RemoveName(disk, path).disk)
    BY <1>1, <2>1, RemoveFacts
  <2> QED BY <2>1, <2>2, DoesKeeps
<1>4. ASSUME NEW path \in Path, SysCreate(path) PROVE DiskInv'
  <2>1. path \in AnyPath /\ Does(Create(disk, path, 0), "run")
    BY <1>4, PathFacts DEF SysCreate
  <2>2. Create(disk, path, 0) \in Result /\ UniqueNames(Create(disk, path, 0).disk)
    BY <1>1, <2>1, CreateResult
  <2> QED BY <2>1, <2>2, DoesKeeps
<1>5. ASSUME NEW path \in Path, SysMakeDir(path) PROVE DiskInv'
  <2>1. path \in AnyPath /\ Does(MakeDir(disk, path), "run")
    BY <1>5, PathFacts DEF SysMakeDir
  <2>2. MakeDir(disk, path) \in Result /\ UniqueNames(MakeDir(disk, path).disk)
    BY <1>1, <2>1, MakeDirResult
  <2> QED BY <2>1, <2>2, DoesKeeps
<1>6. ASSUME NEW path \in Path, RemoveFile(path) PROVE DiskInv'
  <2>1. path \in AnyPath /\ Does(RemoveName(disk, path), "run")
    BY <1>6, PathFacts DEF RemoveFile
  <2>2. RemoveName(disk, path) \in Result /\ UniqueNames(RemoveName(disk, path).disk)
    BY <1>1, <2>1, RemoveFacts
  <2> QED BY <2>1, <2>2, DoesKeeps
<1>7. CASE Run
  BY <1>7 DEF Run, DiskInv, UniqueNames
<1>8. CASE Restart
  <2>1. Does(MakeSwapFile(disk), "boot")
    BY <1>8 DEF Restart
  <2>2. MakeSwapFile(disk) \in Result /\ UniqueNames(MakeSwapFile(disk).disk)
    BY <1>1, MakeSwapFileResult
  <2> QED BY <2>1, <2>2, DoesKeeps
<1>9. CASE UNCHANGED vars
  BY <1>9 DEF vars, DiskInv, UniqueNames
<1> QED BY <1>2, <1>3, <1>4, <1>5, <1>6, <1>7, <1>8, <1>9 DEF Next

(* The headers, index blocks and tables on the disk keep their types, and no   *)
(* header or index block outgrows its sector, whatever is created, extended   *)
(* and removed (filehdr.cc, block_for_file.cc).                               *)
THEOREM TypeCorrect == Spec => []TypeOK
<1>1. ASSUME DiskInv PROVE TypeOK
  <2>1. disk \in Disk
    BY <1>1 DEF DiskInv
  <2>2. \A s \in Sector : Len(disk.header[s].sectors) < NumDirect /\ Len(disk.block[s]) <= MaxBlocksNum
    BY <2>1 DEF Disk, BlocksFit
  <2>3. disk \in [used : SUBSET Sector, header : [Sector -> FileHeader],
                  block : [Sector -> Seq(Sector)],
                  table : [Sector -> Seq(Entry \cup {FreeEntry})], lost : SUBSET Sector]
    BY <2>1 DEF Disk
  <2> QED BY <1>1, <2>2, <2>3 DEF TypeOK, DiskInv
<1> QED BY <1>1, InitDiskInv, NextDiskInv, PTL DEF Spec

(* No directory has a name twice, so that removing a name removes what was    *)
(* created under it: FindIndex takes the first entry it finds (directory.cc). *)
THEOREM NamesStayUnique == Spec => []NamesUnique
<1>1. DiskInv => NamesUnique
  BY DEF DiskInv, NamesUnique
<1> QED BY <1>1, InitDiskInv, NextDiskInv, PTL DEF Spec

-----------------------------------------------------------------------------

(* Sectors that belong to two files.  The pointers of all files are finitely   *)
(* many, so that OwnedOnce, which counts them, says that no two pointers      *)
(* point to one sector.                                                       *)
LEMMA PathFinite == IsFiniteSet(Path)
<1> DEFINE Paths(n) == [1 .. n -> Name]
           Bad == {n \in Nat : ~IsFiniteSet(Paths(n))}
<1>1. Bad = {}
  <2> SUFFICES ASSUME Bad # {} PROVE FALSE
    OBVIOUS
  <2>1. PICK n \in Bad : \A m \in Bad : n <= m
    <3>1. Bad \in SUBSET Nat
      OBVIOUS
    <3> HIDE DEF Bad
    <3> QED BY <3>1, LeastNatural
  <2>2. n # 0
    <3>1. \A f, g \in Paths(0) : f = g
      OBVIOUS
    <3>2. Paths(0) = {} \/ \E f : Paths(0) = {f}
      <4> HIDE DEF Paths
      <4> QED BY <3>1
    <3> HIDE DEF Paths
    <3>3. IsFiniteSet(Paths(0))
      BY <3>2, FS_EmptySet, FS_Singleton
    <3> QED BY <2>1, <3>3
  <2>3. n - 1 \in Nat /\ n - 1 \notin Bad /\ n \in Nat
    BY <2>1, <2>2
  <2>4. IsFiniteSet(Paths(n - 1))
    BY <2>3
  <2> DEFINE S == Paths(n - 1) \X Name
             G == [x \in S |-> [i \in 1 .. n |-> IF i = n THEN x[2] ELSE x[1][i]]]
  <2>5. IsFiniteSet(S)
    <3> HIDE DEF Paths
    <3> QED BY <2>4, NameAssumption, FS_Product
  <2>6. G \in Surjection(S, Paths(n))
    <3>1. ASSUME NEW x \in S PROVE G[x] \in Paths(n)
      <4>1. x[1] \in [1 .. n - 1 -> Name] /\ x[2] \in Name
        OBVIOUS
      <4>2. \A i \in 1 .. n : i # n => i \in 1 .. n - 1
        BY <2>3
      <4>3. \A i \in 1 .. n : (IF i = n THEN x[2] ELSE x[1][i]) \in Name
        BY <4>1, <4>2
      <4> HIDE DEF S
      <4> QED BY <4>3
    <3>2. ASSUME NEW f \in Paths(n) PROVE \E x \in S : G[x] = f
      <4> DEFINE h == [i \in 1 .. n - 1 |-> f[i]]
                 x == <<h, f[n]>>
      <4>1. h \in Paths(n - 1) /\ f[n] \in Name /\ f \in [1 .. n -> Name]
        BY <2>3
      <4>2. x \in S
        BY <4>1
      <4>3. G[x] = [i \in 1 .. n |-> IF i = n THEN f[n] ELSE h[i]]
        <5>1. x[1] = h /\ x[2] = f[n]
          OBVIOUS
        <5> HIDE DEF x, S, h
        <5>2. G[x] = [i \in 1 .. n |-> IF i = n THEN x[2] ELSE x[1][i]]
          BY <4>2
        <5> QED BY <5>1, <5>2
      <4>4. \A i \in 1 .. n : (IF i = n THEN f[n] ELSE h[i]) = f[i]
        BY <2>3
      <4>5. f = [i \in 1 .. n |-> f[i]]
        BY <4>1
      <4> HIDE DEF h, x, G, S
      <4> QED BY <4>2, <4>3, <4>4, <4>5
    <3>3. G \in [S -> Paths(n)]
      <4>1. G = [x \in S |-> G[x]]
        OBVIOUS
      <4> HIDE DEF G, S, Paths
      <4> QED BY <3>1, <4>1
    <3> HIDE DEF G, S, Paths
    <3> QED BY <3>2, <3>3 DEF Surjection
  <2> HIDE DEF S, G, Paths
  <2>7. IsFiniteSet(Paths(n))
    BY <2>5, <2>6, FS_Surjection
  <2> QED BY <2>1, <2>7
<1> DEFINE All == {Paths(n) : n \in 1 .. MaxDepth}
           L == [n \in 1 .. MaxDepth |-> Paths(n)]
<1>2. MaxDepth \in Nat /\ \A n \in 1 .. MaxDepth : IsFiniteSet(Paths(n))
  <2>1. MaxDepth \in Nat
    BY NameAssumption
  <2>2. ASSUME NEW n \in 1 .. MaxDepth PROVE IsFiniteSet(Paths(n))
    <3>1. n \in Nat
      BY <2>1
    <3>2. n \notin Bad
      <4> HIDE DEF Bad
      <4> QED BY <1>1
    <3> HIDE DEF Paths
    <3> QED BY <3>1, <3>2
  <2> QED BY <2>1, <2>2
<1> HIDE DEF Paths
<1>3. L \in Surjection(1 .. MaxDepth, All)
  BY DEF Surjection
<1>4. IsFiniteSet(All)
  <2>1. IsFiniteSet(1 .. MaxDepth)
    BY <1>2, FS_Interval
  <2> HIDE DEF L, All
  <2> QED BY <1>3, <2>1, FS_Surjection
<1>5. \A T \in All : IsFiniteSet(T)
  BY <1>2
<1>6. Path = UNION All
  BY DEF Path, Paths
<1> HIDE DEF All
<1> QED BY <1>4, <1>5, <1>6, FS_UNION

LEMMA FileNames ==
  /\ <<"map">> \notin AnyPath /\ <<"root">> \notin AnyPath /\ <<"map">> # <<"root">>
  /\ Swap \notin Path
<1>1. ASSUME NEW x \in {"map", "root"} PROVE <<x>> \notin AnyPath
  <2>1. x \notin Name \cup {SwapName}
    BY NameAssumption
  <2>2. <<x>> \in Seq(Name \cup {SwapName}) => <<x>>[1] \in Name \cup {SwapName}
    OBVIOUS
  <2> QED BY <2>1, <2>2 DEF AnyPath
<1>2. Swap \notin Path
  <2>1. SwapName \notin Name
    BY NameAssumption
  <2>2. Swap \in Path => Swap \in Seq(Name)
    BY PathFacts
  <2>3. Swap \in Seq(Name) => Swap[1] \in Name
    BY DEF Swap
  <2> QED BY <2>1, <2>2, <2>3 DEF Swap
<1>3. <<"map">> # <<"root">>
  OBVIOUS
<1> QED BY <1>1, <1>2, <1>3

LEMMA FileFacts ==
  ASSUME NEW d \in Disk, UniqueNames(d), NEW file \in Files(d)
  PROVE  /\ HeaderSector(d, file) \in Sector
         /\ Header(d, file) \in FileHeader /\ Header(d, file) = d.header[HeaderSector(d, file)]
<1>1. HeaderSector(d, file) \in Sector
  <2>1. CASE file \in {<<"map">>, <<"root">>}
    BY <2>1, FileNames, DiskFacts DEF HeaderSector
  <2>2. CASE file \notin {<<"map">>, <<"root">>}
    <3>1. HeaderSector(d, file) = The(Find(d, file)).sector
      BY <2>2 DEF HeaderSector
    <3>2. Find(d, file) # {} /\ file \in AnyPath
      BY <2>2, PathFacts DEF Files, HasHeader, File
    <3>3. PICK e : e \in Find(d, file)
      BY <3>2
    <3>4. The(Find(d, file)) = e /\ e \in Entry
      BY <3>2, <3>3, FindUnique, FindFacts
    <3> QED BY <3>1, <3>4, EntryFacts
  <2> QED BY <2>1, <2>2
<1>2. Header(d, file) = d.header[HeaderSector(d, file)]
  BY DEF Header
<1> QED BY <1>1, <1>2, DiskParts

(* The names users see, and the kernel's, are files.                          *)
LEMMA FoundIsFile ==
  ASSUME NEW d \in Disk, UniqueNames(d), NEW path \in Path \cup {Swap}, NEW e \in Find(d, path)
  PROVE  path \in Files(d) /\ HeaderSector(d, path) = e.sector
<1>1. path \in AnyPath /\ path \in File
  BY PathFacts DEF File, Swap
<1>2. path \in Files(d)
  BY <1>1 DEF Files, HasHeader
<1>3. HeaderSector(d, path) = The(Find(d, path)).sector
  BY <1>1, FileNames DEF HeaderSector
<1> QED BY <1>1, <1>2, <1>3, FindUnique

LEMMA BlocksAreSectors ==
  ASSUME NEW d \in Disk, NEW h \in FileHeader
  PROVE  IndexBlocks(d, h) \subseteq Sector /\ Sectors(d, h) \subseteq Sector
<1>1. d.block \in [Sector -> Seq(Sector)] /\ h.sectors \in Seq(Sector)
  BY DiskParts DEF FileHeader
<1>2. Range(h.sectors) \subseteq Sector /\ \A s \in Sector : Range(d.block[s]) \subseteq Sector
  BY <1>1, PartOfSeq
<1>3. \A T \in SUBSET Sector : Below(d, T) \subseteq Sector
  BY <1>2 DEF Below
<1>4. IndexBlocks(d, h) \subseteq Sector
  BY <1>2, <1>3 DEF IndexBlocks
<1> QED BY <1>3, <1>4 DEF Sectors

LEMMA PointersAre ==
  ASSUME NEW h, NEW q \in Seq(Sector), NEW p \in Pointers(h, q)
  PROVE  \E i \in 1 .. Len(q) : p = <<<<"sector", h>>, i, q[i]>>
<1>1. DOMAIN q = 1 .. Len(q)
  OBVIOUS
<1> QED BY <1>1, Zenon DEF Pointers

LEMMA PointersFinite ==
  ASSUME NEW d \in Disk, UniqueNames(d)
  PROVE  IsFiniteSet(AllPointers(d)) /\ \A p \in AllPointers(d) : p[3] \in Sector
<1> DEFINE Holder == File \cup ({"sector"} \X Sector)
           m == MaxBlocksNum + NumDirect
           S == (Holder \X (0 .. m)) \X Sector
           G == [x \in S |-> <<x[1][1], x[1][2], x[2]>>]
           T == {G[x] : x \in S}
<1>1. m \in Nat /\ MaxBlocksNum <= m /\ NumDirect <= m
  BY DiskFacts
<1>2. IsFiniteSet(S)
  <2>1. IsFiniteSet(File)
    <3>1. IsFiniteSet({<<"map">>}) /\ IsFiniteSet({<<"root">>}) /\ IsFiniteSet({<<SwapName>>})
      BY FS_Singleton
    <3>2. File = (({<<"map">>} \cup {<<"root">>}) \cup Path) \cup {<<SwapName>>}
      BY DEF File
    <3> QED BY <3>1, <3>2, PathFinite, FS_Union
  <2>2. IsFiniteSet({"sector"} \X Sector)
    BY DiskFacts, FS_Singleton, FS_Product
  <2>3. IsFiniteSet(Holder)
    BY <2>1, <2>2, FS_Union
  <2>4. IsFiniteSet(0 .. m)
    BY <1>1, FS_Interval
  <2> HIDE DEF Holder, m
  <2>5. IsFiniteSet(Holder \X (0 .. m))
    BY <2>3, <2>4, FS_Product
  <2> DEFINE H == Holder \X (0 .. m)
  <2> HIDE DEF H
  <2>6. IsFiniteSet(H \X Sector)
    BY <2>5, DiskFacts, FS_Product DEF H
  <2> QED BY <2>6 DEF H
<1>3. ASSUME NEW h \in Holder, NEW i \in 0 .. m, NEW s \in Sector PROVE <<h, i, s>> \in T
  <2> DEFINE x == <<<<h, i>>, s>>
  <2> HIDE DEF Holder, m
  <2>1. x \in S /\ x[1][1] = h /\ x[1][2] = i /\ x[2] = s
    OBVIOUS
  <2> HIDE DEF x, S
  <2>2. G[x] = <<h, i, s>>
    BY <2>1
  <2> QED BY <2>1, <2>2
<1>4. IsFiniteSet(T)
  <2> HIDE DEF S
  <2>1. G \in Surjection(S, T)
    BY DEF Surjection
  <2> HIDE DEF G, T
  <2> QED BY <1>2, <2>1, FS_Surjection
<1> HIDE DEF T, S, G
<1>5. ASSUME NEW s \in Sector, NEW q \in Seq(Sector), Len(q) <= m, NEW p \in Pointers(s, q)
      PROVE  p \in T /\ p[3] \in Sector
  <2>1. PICK i \in 1 .. Len(q) : p = <<<<"sector", s>>, i, q[i]>>
    BY PointersAre
  <2>2. i \in 0 .. m /\ q[i] \in Sector
    BY <1>1, <1>5, <2>1
  <2>3. <<"sector", s>> \in Holder
    OBVIOUS
  <2> HIDE DEF Holder, m
  <2> QED BY <1>3, <2>1, <2>2, <2>3
<1>6. ASSUME NEW p \in AllPointers(d) PROVE p \in T /\ p[3] \in Sector
  <2>1. PICK file \in Files(d) : p \in PointersOf(d, file)
    BY <1>6 DEF AllPointers
  <2> DEFINE x == HeaderSector(d, file)
             h == Header(d, file)
  <2>2. x \in Sector /\ h \in FileHeader /\ h = d.header[x]
    BY FileFacts
  <2>3. /\ d.block \in [Sector -> Seq(Sector)] /\ BlocksFit(d.block)
        /\ d.header[x] \in OpenHeader
    BY <2>2, DiskParts
  <2>4. p = <<file, 0, x>> \/ p \in Pointers(x, h.sectors)
        \/ \E s \in IndexBlocks(d, h) : p \in Pointers(s, d.block[s])
    BY <2>1, Zenon DEF PointersOf
  <2>5. file \in Holder /\ 0 \in 0 .. m
    BY <1>1 DEF Files
  <2>6. h.sectors \in Seq(Sector) /\ Len(h.sectors) <= m
    <3>1. h.sectors \in Seq(Sector) /\ Len(h.sectors) <= NumDirect
      BY <2>2, <2>3 DEF OpenHeader, FileHeader
    <3> QED BY <1>1, <3>1, DiskFacts
  <2>7. ASSUME NEW s \in Sector PROVE d.block[s] \in Seq(Sector) /\ Len(d.block[s]) <= m
    <3>1. d.block[s] \in Seq(Sector) /\ Len(d.block[s]) <= MaxBlocksNum
      BY <2>3 DEF BlocksFit
    <3> QED BY <1>1, <3>1, DiskFacts
  <2>8. IndexBlocks(d, h) \subseteq Sector
    BY <2>2, BlocksAreSectors
  <2> HIDE DEF x, h, Holder, m
  <2>9. CASE p = <<file, 0, x>>
    BY <1>3, <2>2, <2>5, <2>9
  <2>10. CASE p \in Pointers(x, h.sectors)
    BY <1>5, <2>2, <2>6, <2>10
  <2>11. ASSUME NEW s \in IndexBlocks(d, h), p \in Pointers(s, d.block[s])
         PROVE  p \in T /\ p[3] \in Sector
    BY <1>5, <2>7, <2>8, <2>11
  <2> QED BY <2>4, <2>9, <2>10, <2>11
<1>7. AllPointers(d) \in SUBSET T
  BY <1>6
<1> QED BY <1>4, <1>6, <1>7, FS_Subset

LEMMA PointersApart ==
  ASSUME NEW d \in Disk, UniqueNames(d), OwnedOnce(d),
         NEW p \in AllPointers(d), NEW q \in AllPointers(d), p[3] = q[3]
  PROVE  p = q
<1> DEFINE A == AllPointers(d)
           B == {x[3] : x \in A}
           f == [x \in A |-> x[3]]
<1>1. IsFiniteSet(A)
  BY PointersFinite
<1>2. Cardinality(B) = Cardinality(A)
  BY DEF OwnedOnce, AllPointers
<1>3. p \in A /\ q \in A /\ f[p] = f[q]
  OBVIOUS
<1> HIDE DEF A
<1>4. f \in Surjection(A, B)
  BY DEF Surjection
<1> HIDE DEF f, B
<1>5. f \in Injection(A, B)
  BY <1>1, <1>2, <1>4, FS_Surjection
<1>6. DOMAIN f = A
  BY DEF f
<1> QED BY <1>3, <1>5, <1>6 DEF Injection, IsInjective

LEMMA SectorHasPointer ==
  ASSUME NEW d \in Disk, UniqueNames(d), NEW file \in Files(d),
         NEW x \in Sectors(d, Header(d, file))
  PROVE  \E p \in PointersOf(d, file) : p[3] = x /\ p[2] # 0
<1> DEFINE h == Header(d, file)
           holder == HeaderSector(d, file)
<1>1. h \in FileHeader /\ h.sectors \in Seq(Sector)
  BY FileFacts DEF FileHeader
<1>2. d.block \in [Sector -> Seq(Sector)]
  BY DiskParts
<1>3. IndexBlocks(d, h) \subseteq Sector
  BY <1>1, BlocksAreSectors
<1>4. ASSUME NEW s, NEW q \in Seq(Sector), NEW y \in Range(q)
      PROVE  \E p \in Pointers(s, q) : p[3] = y /\ p[2] # 0
  <2>1. PICK i \in DOMAIN q : q[i] = y
    BY <1>4 DEF Range
  <2>2. <<<<"sector", s>>, i, q[i]>> \in Pointers(s, q)
    BY DEF Pointers
  <2>3. i # 0
    BY <2>1
  <2> QED BY <2>1, <2>2, <2>3
<1>5. x \in Range(h.sectors) \/ \E s \in IndexBlocks(d, h) : x \in Range(d.block[s])
  <2>1. x \in IndexBlocks(d, h) \/ x \in Below(d, IndexBlocks(d, h))
    BY DEF Sectors
  <2>2. x \in Range(h.sectors) \/ x \in Below(d, Range(h.sectors))
        \/ x \in Below(d, IndexBlocks(d, h))
    BY <2>1 DEF IndexBlocks
  <2>3. Range(h.sectors) \subseteq IndexBlocks(d, h)
    BY DEF IndexBlocks
  <2> HIDE DEF h
  <2> QED BY <2>2, <2>3 DEF Below
<1>6. CASE x \in Range(h.sectors)
  <2>1. PICK p \in Pointers(holder, h.sectors) : p[3] = x /\ p[2] # 0
    BY <1>1, <1>4, <1>6
  <2>2. p \in PointersOf(d, file)
    BY <2>1 DEF PointersOf
  <2> QED BY <2>1, <2>2
<1>7. ASSUME NEW s \in IndexBlocks(d, h), x \in Range(d.block[s])
      PROVE  \E p \in PointersOf(d, file) : p[3] = x /\ p[2] # 0
  <2>1. d.block[s] \in Seq(Sector)
    BY <1>2, <1>3, <1>7
  <2>2. PICK p \in Pointers(s, d.block[s]) : p[3] = x /\ p[2] # 0
    BY <1>4, <1>7, <2>1
  <2>3. p \in PointersOf(d, file)
    BY <1>7, <2>2 DEF PointersOf
  <2> QED BY <2>2, <2>3
<1> QED BY <1>5, <1>6, <1>7

LEMMA HeadersApart ==
  ASSUME NEW d \in Disk, UniqueNames(d), Intact(d), NEW f \in Files(d), NEW g \in Files(d)
  PROVE  /\ HeaderSector(d, f) \in d.used
         /\ HeaderSector(d, f) = HeaderSector(d, g) => f = g
         /\ HeaderSector(d, f) \notin Sectors(d, Header(d, g))
<1> DEFINE p == <<f, 0, HeaderSector(d, f)>>
           q == <<g, 0, HeaderSector(d, g)>>
<1>1. OwnedOnce(d) /\ HeaderSector(d, f) \in d.used
  BY DEF Intact, InUse, Owned
<1>2. p \in AllPointers(d) /\ q \in AllPointers(d)
  <2>1. p \in PointersOf(d, f) /\ q \in PointersOf(d, g)
    BY DEF PointersOf
  <2> QED BY <2>1 DEF AllPointers
<1>3. p[3] = HeaderSector(d, f) /\ q[3] = HeaderSector(d, g) /\ p[1] = f /\ q[1] = g /\ p[2] = 0
  OBVIOUS
<1> HIDE DEF p, q
<1>4. HeaderSector(d, f) = HeaderSector(d, g) => f = g
  BY <1>1, <1>2, <1>3, PointersApart
<1>5. ASSUME HeaderSector(d, f) \in Sectors(d, Header(d, g)) PROVE FALSE
  <2>1. PICK r \in PointersOf(d, g) : r[3] = HeaderSector(d, f) /\ r[2] # 0
    BY <1>5, SectorHasPointer
  <2>2. r \in AllPointers(d)
    BY <2>1 DEF AllPointers
  <2>3. r = p
    BY <1>1, <1>2, <1>3, <2>1, <2>2, PointersApart
  <2> QED BY <1>3, <2>1, <2>3
<1> QED BY <1>1, <1>4, <1>5

LEMMA FrontOfPath ==
  ASSUME NEW path \in Path, Len(path) > 1
  PROVE  Front(path) \in Path /\ Len(Front(path)) = Len(path) - 1
<1>1. path \in Seq(Name) /\ path # <<>> /\ Len(path) \in 1 .. MaxDepth /\ MaxDepth \in Nat
  BY PathFacts, NameAssumption
<1>2. Front(path) \in Seq(Name) /\ Len(Front(path)) = Len(path) - 1
  BY <1>1, FrontFacts
<1>3. Len(path) - 1 \in 1 .. MaxDepth
  BY <1>1
<1> DEFINE n == Len(path) - 1
           front == Front(path)
<1> HIDE DEF front
<1>4. front \in [1 .. Len(front) -> Name]
  BY <1>2 DEF front
<1>5. front \in [1 .. n -> Name]
  BY <1>2, <1>4 DEF front
<1> HIDE DEF n
<1>6. front \in Path
  BY <1>3, <1>5 DEF Path, n
<1> QED BY <1>2, <1>6 DEF front

LEMMA DirectoryOfPath ==
  ASSUME NEW d \in Disk, UniqueNames(d), NEW path \in Path \cup {Swap},
         NEW s \in ParsePath(d, path)
  PROVE  /\ DirectoryFile(path) \in Files(d) /\ HeaderSector(d, DirectoryFile(path)) = s
         /\ Len(path) > 1 => /\ Front(path) \in Path
                             /\ \E e \in Find(d, Front(path)) : e.isDirectory /\ e.sector = s
<1>1. path \in AnyPath /\ Len(path) \in Int /\ Len(path) >= 1
      /\ (Len(path) > 1 => path \in Path)
  <2>1. path \in AnyPath /\ (path = Swap => Len(path) = 1)
    BY PathFacts DEF Swap
  <2>2. Len(path) \in Int /\ Len(path) >= 1
    BY <2>1, FrontFacts DEF AnyPath
  <2>3. CASE path \in Path
    BY <2>1, <2>2, <2>3
  <2>4. CASE path = Swap
    <3> DEFINE n == Len(path)
    <3>1. n = 1
      BY <2>1, <2>4
    <3> HIDE DEF n
    <3>2. ~(n > 1)
      BY <3>1
    <3> QED BY <2>1, <2>2, <3>2 DEF n
  <2> QED BY <2>3, <2>4
<1>2. CASE Len(path) = 1
  <2>1. s = DirectorySector
    BY <1>1, <1>2, ParsePathFacts
  <2>2. <<"root">> \in Files(d) /\ HeaderSector(d, <<"root">>) = DirectorySector
    BY FileNames DEF Files, File, HasHeader, HeaderSector
  <2> QED BY <1>2, <2>1, <2>2 DEF DirectoryFile
<1>3. CASE Len(path) > 1
  <2> DEFINE front == Front(path)
  <2>1. front \in Path
    BY <1>1, <1>3, FrontOfPath
  <2>2. PICK e \in Find(d, front) : e.isDirectory /\ e.sector = s
    BY <1>1, <1>3, FindFacts
  <2>3. DirectoryFile(path) = front
    BY <1>1, <1>3 DEF DirectoryFile
  <2> HIDE DEF front
  <2>4. front \in Files(d) /\ HeaderSector(d, front) = s
    BY <2>1, <2>2, FoundIsFile
  <2> QED BY <1>3, <2>1, <2>2, <2>3, <2>4 DEF front
<1> DEFINE n == Len(path)
<1>4. n \in Int /\ n >= 1
  BY <1>1
<1> HIDE DEF n
<1>5. n = 1 \/ n > 1
  BY <1>4
<1> QED BY <1>2, <1>3, <1>5 DEF n

-----------------------------------------------------------------------------

(* A call that changes the entries of the name p only, in the directory it is *)
(* looked up in, changes what p stands for and no other path.                 *)
LEMMA FindSame ==
  ASSUME NEW d \in Disk, NEW e \in Disk, NEW q \in AnyPath, ParsePath(e, q) = ParsePath(d, q),
         \A s \in ParsePath(d, q) : Entries(Fetch(e, s), Last(q)) = Entries(Fetch(d, s), Last(q))
  PROVE  Find(e, q) = Find(d, q)
<1>1. \A x : x \in Find(e, q) <=> \E s \in ParsePath(e, q) : x \in Entries(Fetch(e, s), Last(q))
  BY FindFacts
<1>2. \A x : x \in Find(d, q) <=> \E s \in ParsePath(d, q) : x \in Entries(Fetch(d, s), Last(q))
  BY FindFacts
<1>3. \A x : x \in Find(e, q) <=> x \in Find(d, q)
  BY <1>1, <1>2
<1> QED BY <1>3

LEMMA ParsePathSame ==
  ASSUME NEW d \in Disk, NEW e \in Disk, NEW q \in AnyPath,
         Len(q) > 1 => Find(e, Front(q)) = Find(d, Front(q))
  PROVE  ParsePath(e, q) = ParsePath(d, q)
<1> DEFINE n == Len(q)
<1>1. n \in Nat \ {0}
  BY FrontFacts DEF AnyPath
<1>2. n = 1 \/ n > 1
  <2> HIDE DEF n
  <2> QED BY <1>1
<1>3. CASE n = 1
  BY <1>3, ParsePathFacts
<1>4. CASE n > 1
  BY <1>4, FindFacts
<1> QED BY <1>2, <1>3, <1>4

LEMMA SameNames ==
  ASSUME NEW d \in Disk, NEW e \in Disk, NEW p \in Path \cup {Swap},
         Elsewhere(d, e, p), NoDirectory(d, p), EmptyBelow(d, e, p)
  PROVE  SameFinds(d, e, p)
<1> DEFINE Same(q) == IF q = p THEN ParsePath(e, q) = ParsePath(d, q) ELSE Find(e, q) = Find(d, q)
           Bad == {n \in Nat : \E q \in Path : Len(q) = n /\ ~Same(q)}
<1>1. SUFFICES ASSUME Bad # {} PROVE FALSE
  <2>1. \A q \in Path : Len(q) \in Nat
    BY PathFacts, FrontFacts
  <2>2. \A q \in Path : Same(q) \/ Len(q) \in Bad
    BY <2>1
  <2>3. Bad = {} => \A q \in Path : Same(q)
    <3> HIDE DEF Bad, Same
    <3> QED BY <2>2
  <2> HIDE DEF Bad
  <2> QED BY <1>1, <2>3 DEF SameFinds
<1>2. PICK n \in Bad : \A m \in Bad : n <= m
  <2>1. Bad \in SUBSET Nat
    OBVIOUS
  <2> HIDE DEF Bad
  <2> QED BY <1>1, <2>1, LeastNatural
<1>3. PICK q \in Path : Len(q) = n /\ ~Same(q)
  <2> HIDE DEF Same
  <2> QED BY <1>2
<1>4. q \in AnyPath /\ n \in Nat \ {0} /\ (p \in Path => p \in AnyPath)
  BY <1>3, PathFacts, FrontFacts DEF AnyPath
<1>5. ASSUME n > 1 PROVE Front(q) \in Path /\ Len(Front(q)) = n - 1 /\ Same(Front(q))
  <2>1. Front(q) \in Path /\ Len(Front(q)) = n - 1
    BY <1>3, <1>5, FrontOfPath
  <2>2. n - 1 \in Nat /\ ~(n <= n - 1)
    BY <1>4
  <2>3. n - 1 \notin Bad
    <3> HIDE DEF Bad
    <3> QED BY <1>2, <2>2
  <2> HIDE DEF Same
  <2> QED BY <2>1, <2>2, <2>3
<1>6. ASSUME n > 1 => Front(q) # p PROVE FALSE
  <2>1. Len(q) > 1 => Find(e, Front(q)) = Find(d, Front(q))
    BY <1>3, <1>5, <1>6
  <2>2. ParsePath(e, q) = ParsePath(d, q)
    BY <1>4, <2>1, ParsePathSame
  <2>3. q # p
    BY <1>3, <2>2
  <2>4. Find(e, q) = Find(d, q)
    BY <1>4, <2>2, <2>3, FindSame DEF Elsewhere
  <2> QED BY <1>3, <2>3, <2>4
<1>7. ASSUME n > 1, Front(q) = p PROVE FALSE
  <2>1. p \in Path /\ Len(p) = n - 1 /\ ParsePath(e, p) = ParsePath(d, p) /\ p \in AnyPath
    BY <1>4, <1>5, <1>7
  <2>2. q # p
    <3>1. n - 1 # n
      BY <1>4
    <3> QED BY <1>3, <2>1, <3>1
  <2>3. /\ ParsePath(d, q) = {x.sector : x \in {f \in Find(d, p) : f.isDirectory}}
        /\ ParsePath(e, q) = {x.sector : x \in {f \in Find(e, p) : f.isDirectory}}
    BY <1>3, <1>4, <1>7, FindFacts
  <2>4. ParsePath(d, q) = {}
    BY <2>3 DEF NoDirectory
  <2>5. Find(d, q) = {}
    BY <1>4, <2>4, FindFacts
  <2>6. Last(q) \in Name
    BY <1>3, PathFacts, FrontFacts
  <2>7. ASSUME NEW s \in ParsePath(e, q) PROVE Entries(Fetch(e, s), Last(q)) = {}
    <3>1. PICK x \in Find(e, p) : x.isDirectory /\ x.sector = s
      BY <2>3, <2>7
    <3>2. PICK t \in ParsePath(e, p) : x \in Entries(Fetch(e, t), Last(p))
      BY <2>1, <3>1, FindFacts
    <3> QED BY <2>1, <2>6, <3>1, <3>2 DEF EmptyBelow
  <2>8. Find(e, q) = {}
    BY <1>4, <2>7, FindFacts
  <2> QED BY <1>3, <2>2, <2>5, <2>8
<1> QED BY <1>6, <1>7

LEMMA SamePlace ==
  ASSUME NEW p \in Path, NEW q \in Path, DirectoryFile(p) = DirectoryFile(q), Last(p) = Last(q)
  PROVE  p = q
<1> DEFINE m == Len(p)
           n == Len(q)
<1>1. /\ m \in Nat \ {0} /\ n \in Nat \ {0} /\ p \in Seq(Name) /\ q \in Seq(Name)
      /\ p # <<>> /\ q # <<>>
  BY PathFacts, FrontFacts
<1>2. /\ m > 1 => Front(p) \in Path /\ Len(Front(p)) = m - 1
      /\ n > 1 => Front(q) \in Path /\ Len(Front(q)) = n - 1
  BY FrontOfPath
<1>3. <<"root">> \notin Path
  BY PathFacts, FileNames
<1>4. DirectoryFile(p) = (IF m = 1 THEN <<"root">> ELSE Front(p))
      /\ DirectoryFile(q) = (IF n = 1 THEN <<"root">> ELSE Front(q))
  BY DEF DirectoryFile
<1>5. Last(p) = p[m] /\ Last(q) = q[n]
  BY DEF Last
<1> HIDE DEF m, n
<1>6. (m = 1 \/ m > 1) /\ (n = 1 \/ n > 1)
  BY <1>1
<1>7. m = n /\ (m > 1 => Front(p) = Front(q))
  <2>1. CASE m = 1
    <3>1. n = 1
      BY <1>2, <1>3, <1>4, <1>6, <2>1
    <3> QED BY <2>1, <3>1
  <2>2. CASE m > 1
    <3>1. m # 1
      BY <2>2
    <3>2. n # 1
      BY <1>2, <1>3, <1>4, <2>2, <3>1
    <3>3. Front(p) = Front(q) /\ n > 1
      BY <1>4, <1>6, <3>1, <3>2
    <3>4. m - 1 = n - 1
      BY <1>2, <2>2, <3>3
    <3> QED BY <1>1, <3>3, <3>4
  <2> QED BY <1>6, <2>1, <2>2
<1>8. ASSUME NEW i \in 1 .. m PROVE p[i] = q[i]
  <2>1. CASE i = m
    BY <1>5, <1>7, <2>1
  <2>2. CASE i # m
    <3>1. i \in 1 .. m - 1 /\ m > 1
      BY <1>1, <2>2
    <3>2. Front(p)[i] = p[i] /\ Front(q)[i] = q[i]
      BY <1>1, <1>7, <3>1, FrontFacts DEF m, n
    <3> QED BY <1>7, <3>1, <3>2
  <2> QED BY <2>1, <2>2
<1>9. p = [i \in 1 .. m |-> p[i]] /\ q = [i \in 1 .. m |-> q[i]]
  BY <1>1, <1>7 DEF m, n
<1> QED BY <1>8, <1>9

(* Where directories lie: in used sectors, no two in the same one, and in     *)
(* none of the sectors that the removal of a file sets free.                  *)
LEMMA DirectoriesPlaced ==
  ASSUME NEW d \in Disk, UniqueNames(d), Intact(d)
  PROVE  PlacedIn(d) /\ \A p \in AnyFile : ApartFrom(d, p) /\ FreedApart(d, p)
<1>1. ASSUME NEW q \in AnyFile, NEW s \in ParsePath(d, q) PROVE s \in d.used
  BY <1>1, DirectoryOfPath, HeadersApart DEF AnyFile
<1>2. ASSUME NEW p \in AnyFile, NEW q \in Path \ {p}, Last(q) = Last(p),
             NEW s \in ParsePath(d, q), s \in ParsePath(d, p)
      PROVE  FALSE
  <2>1. p \in Path
    <3>1. Last(q) \in Name
      BY PathFacts, FrontFacts
    <3>2. Last(Swap) = SwapName /\ SwapName \notin Name
      BY PathFacts, NameAssumption DEF Swap
    <3> QED BY <1>2, <3>1, <3>2 DEF AnyFile
  <2>2. DirectoryFile(p) \in Files(d) /\ HeaderSector(d, DirectoryFile(p)) = s
    BY <1>2, <2>1, DirectoryOfPath
  <2>3. DirectoryFile(q) \in Files(d) /\ HeaderSector(d, DirectoryFile(q)) = s
    BY <1>2, DirectoryOfPath
  <2>4. DirectoryFile(p) = DirectoryFile(q)
    BY <2>2, <2>3, HeadersApart
  <2> QED BY <1>2, <2>1, <2>4, SamePlace
<1>3. ASSUME NEW p \in AnyFile, NEW e \in Find(d, p), ~e.isDirectory, NEW q \in AnyFile,
             NEW s \in ParsePath(d, q), s \in Freed(d, e.sector)
      PROVE  FALSE
  <2> DEFINE f == DirectoryFile(q)
  <2>1. p \in Files(d) /\ HeaderSector(d, p) = e.sector /\ Header(d, p) = d.header[e.sector]
    BY <1>3, FoundIsFile DEF AnyFile, Header
  <2>2. f \in Files(d) /\ HeaderSector(d, f) = s
    BY <1>3, DirectoryOfPath DEF AnyFile
  <2> HIDE DEF f
  <2>3. s = e.sector
    BY <1>3, <2>1, <2>2, HeadersApart DEF Freed
  <2>4. f = p
    BY <2>1, <2>2, <2>3, HeadersApart
  <2>5. p \in AnyPath /\ p # <<"root">>
    BY PathFacts, FileNames DEF AnyFile, Swap
  <2>6. Len(q) # 1 /\ Front(q) = p
    BY <2>4, <2>5 DEF f, DirectoryFile
  <2>7. Len(q) > 1
    <3> DEFINE n == Len(q)
    <3>1. n \in Nat \ {0}
      BY PathFacts, FrontFacts DEF AnyFile, AnyPath, Swap
    <3>2. n # 1
      BY <2>6
    <3> HIDE DEF n
    <3>3. n > 1
      BY <3>1, <3>2
    <3> QED BY <3>3 DEF n
  <2>8. PICK x \in Find(d, p) : x.isDirectory
    BY <1>3, <2>6, <2>7, DirectoryOfPath DEF AnyFile
  <2>9. x = e
    BY <1>3, <2>5, <2>8, FindUnique
  <2> QED BY <1>3, <2>8, <2>9
<1> QED BY <1>1, <1>2, <1>3 DEF PlacedIn, ApartFrom, FreedApart

-----------------------------------------------------------------------------

(* Create and Make_Dir give the directory of the path an entry at most, and   *)
(* what the entry points to has no names below it.                            *)
LEMMA EnteredGains ==
  ASSUME NEW d \in Disk, UniqueNames(d), NEW dir \in d.used, NEW entry \in Entry,
         entry.sector \notin d.used, Entries(Fetch(d, dir), entry.name) = {},
         NEW r, Entered(d, dir, entry, r)
  PROVE  r.disk = d \/ Gains(d, r.disk, dir, entry)
<1> DEFINE x == entry.sector
           t == AddEntry(Fetch(d, dir), entry)
           longer(n) == ExpandSize(d.table[dir], n)
<1>1. r.disk \in Disk /\ x \in Sector /\ dir \in Sector /\ x # dir /\ x \notin d.used
  BY EntryFacts, ResultParts, DiskParts DEF Entered
<1>2. d.table \in [Sector -> Table] /\ NewTable \in Table
  BY DiskParts, NewTableFacts
<1>3. Fresh(d, x)[dir] = d.table[dir] /\ Fresh(d, x) = [d.table EXCEPT ![x] = NewTable]
  BY <1>1, <1>2 DEF Fresh
<1>4. \/ r.disk = d
      \/ \E u : /\ u = d.table[dir] \/ u = t \/ \E n \in Nat : u = longer(n)
                /\ r.disk.table = [Fresh(d, x) EXCEPT ![dir] = u]
  <2>1. Fresh(d, x) = [Fresh(d, x) EXCEPT ![dir] = d.table[dir]]
    BY <1>1, <1>2, <1>3
  <2>2. CASE r.disk = d
    BY <2>2
  <2>3. CASE r.disk.table = [Fresh(d, x) EXCEPT ![dir] = t]
    BY <2>3
  <2>4. CASE r.disk.table = Fresh(d, x)
    BY <2>1, <2>4
  <2>5. ASSUME NEW n \in Nat,
               r.disk.table = [Fresh(d, x) EXCEPT ![dir] = ExpandSize(Fresh(d, x)[dir], n)]
        PROVE  \E u : /\ u = d.table[dir] \/ u = t \/ \E k \in Nat : u = longer(k)
                      /\ r.disk.table = [Fresh(d, x) EXCEPT ![dir] = u]
    <3>1. r.disk.table = [Fresh(d, x) EXCEPT ![dir] = longer(n)]
      BY <1>3, <2>5
    <3> HIDE DEF longer, t
    <3> QED BY <3>1
  <2> HIDE DEF t, longer
  <2> QED BY <2>2, <2>3, <2>4, <2>5 DEF Entered, t
<1>5. SUFFICES ASSUME NEW u, u = d.table[dir] \/ u = t \/ \E n \in Nat : u = longer(n),
                      r.disk.table = [Fresh(d, x) EXCEPT ![dir] = u]
               PROVE  Gains(d, r.disk, dir, entry)
  <2> HIDE DEF t, longer, x
  <2> QED BY <1>4
<1>6. /\ Fetch(r.disk, dir) = Visible(u) /\ Fetch(r.disk, x) = Visible(NewTable)
      /\ \A s \in d.used \ {dir} : Fetch(r.disk, s) = Fetch(d, s)
      /\ Fetch(d, dir) = Visible(d.table[dir])
  <2>1. /\ r.disk.table[dir] = u /\ r.disk.table[x] = NewTable
        /\ \A s \in d.used \ {dir} : r.disk.table[s] = d.table[s]
    BY <1>1, <1>2, <1>3, <1>5, DiskParts
  <2> HIDE DEF t, longer, x
  <2> QED BY <2>1, FetchIsVisible
<1>7. /\ Fetch(d, dir) \in Table /\ Len(Fetch(d, dir)) <= 2 * NumDirEntries
      /\ OneEach(Fetch(d, dir)) /\ d.table[dir] \in Table
  BY <1>1, <1>2, FetchFacts, FetchedOnce
<1>8. /\ \A y : y # entry.name => Entries(Visible(u), y) = Entries(Fetch(d, dir), y)
      /\ Entries(Visible(u), entry.name) \subseteq {entry}
  <2>1. CASE u = d.table[dir]
    BY <1>6, <2>1
  <2>2. CASE u = t
    <3> DEFINE f == Fetch(d, dir)
    <3>1. f \in Table /\ Len(f) <= 2 * NumDirEntries /\ OneEach(f) /\ Entries(f, entry.name) = {}
      BY <1>7
    <3>2. u = AddEntry(f, entry)
      BY <2>2
    <3> HIDE DEF f
    <3>3. /\ \A y : y # entry.name => Entries(Visible(AddEntry(f, entry)), y) = Entries(f, y)
          /\ Entries(Visible(AddEntry(f, entry)), entry.name) \subseteq {entry}
      BY <3>1, AddEntryFacts
    <3> QED BY <3>2, <3>3 DEF f
  <2>3. ASSUME NEW n \in Nat, u = longer(n)
        PROVE  \A y : Entries(Visible(u), y) = Entries(Fetch(d, dir), y)
    BY <1>6, <1>7, <2>3, ExpandedSame
  <2> HIDE DEF t, longer
  <2> QED BY <1>5, <2>1, <2>2, <2>3
<1>9. \A y : Entries(Fetch(r.disk, x), y) = {}
  BY <1>6, NewTableFacts
<1> HIDE DEF x, t, longer
<1> QED BY <1>6, <1>8, <1>9 DEF AnyName, Gains, x

LEMMA GainsNames ==
  ASSUME NEW d \in Disk, UniqueNames(d), NEW e \in Disk, NEW p \in AnyFile, PlacedIn(d),
         ApartFrom(d, p), NEW dir \in ParsePath(d, p), NEW entry, entry.name = Last(p),
         Find(d, p) = {}, Gains(d, e, dir, entry)
  PROVE  SameFinds(d, e, p) /\ (p \in Path => Find(e, p) \subseteq {entry})
<1>1. p \in AnyPath /\ p \in Path \cup {Swap}
  BY PathFacts DEF AnyFile, Swap
<1>2. \A s \in ParsePath(d, p) : s = dir
  BY <1>1, ParsePathUnique
<1>3. Elsewhere(d, e, p)
  <2> SUFFICES ASSUME NEW q \in Path \ {p}, NEW s \in ParsePath(d, q)
               PROVE  Entries(Fetch(e, s), Last(q)) = Entries(Fetch(d, s), Last(q))
    BY DEF Elsewhere
  <2>1. s \in d.used /\ Last(q) \in Name
    BY PathFacts, FrontFacts DEF PlacedIn, AnyFile
  <2>2. s = dir => Last(q) # entry.name
    BY DEF ApartFrom
  <2> QED BY <2>1, <2>2 DEF AnyName, Gains
<1>4. NoDirectory(d, p)
  BY DEF NoDirectory
<1>5. EmptyBelow(d, e, p)
  BY <1>2 DEF EmptyBelow, AnyName, Gains
<1>6. SameFinds(d, e, p)
  BY <1>1, <1>3, <1>4, <1>5, SameNames
<1>7. ASSUME p \in Path, NEW x \in Find(e, p) PROVE x = entry
  <2>1. ParsePath(e, p) = ParsePath(d, p)
    BY <1>6, <1>7 DEF SameFinds
  <2>2. PICK s \in ParsePath(e, p) : x \in Entries(Fetch(e, s), Last(p))
    BY <1>1, <1>7, FindFacts
  <2> QED BY <1>2, <2>1, <2>2 DEF AnyName, Gains
<1> QED BY <1>6, <1>7

LEMMA GainsAppears ==
  ASSUME NEW d \in Disk, UniqueNames(d), NEW e \in Disk, NEW p \in AnyFile, PlacedIn(d),
         ApartFrom(d, p), NEW dir \in ParsePath(d, p), NEW entry, entry.name = Last(p),
         Find(d, p) = {}, e = d \/ Gains(d, e, dir, entry)
  PROVE  Appears(d, e, p, entry)
<1>1. CASE e = d
  BY <1>1 DEF Appears
<1>2. CASE Gains(d, e, dir, entry)
  <2>1. SameFinds(d, e, p) /\ (p \in Path => Find(e, p) \subseteq {entry})
    BY <1>2, GainsNames
  <2> QED BY <2>1 DEF Appears, SameFinds
<1> QED BY <1>1, <1>2

LEMMA EnterGains ==
  ASSUME NEW d \in Disk, UniqueNames(d), NEW p \in AnyFile, PlacedIn(d), NEW size \in Nat,
         NEW b \in BOOLEAN, Enter(d, p, size, b) # Failed(d)
  PROVE  /\ The(ParsePath(d, p)) \in ParsePath(d, p) /\ The(ParsePath(d, p)) \in d.used
         /\ FindClear(d.used) \in Sector \ d.used
         /\ NewEntry(d, p, b).name = Last(p) /\ Find(d, p) = {}
         /\ NewEntry(d, p, b).sector = FindClear(d.used)
         /\ \/ Enter(d, p, size, b).disk = d
            \/ Gains(d, Enter(d, p, size, b).disk, The(ParsePath(d, p)), NewEntry(d, p, b))
<1> DEFINE dir == The(ParsePath(d, p))
           entry == NewEntry(d, p, b)
           r == Enter(d, p, size, b)
<1>1. p \in AnyPath
  BY PathFacts DEF AnyFile, Swap
<1>2. /\ Find(d, p) = {} /\ entry \in Entry /\ FindClear(d.used) \in Sector \ d.used
      /\ dir \in ParsePath(d, p) /\ Entered(d, dir, entry, r)
  BY <1>1, EnterFacts
<1>3. entry.name = Last(p) /\ entry.sector = FindClear(d.used)
  BY DEF NewEntry
<1>4. dir \in d.used
  BY <1>2 DEF PlacedIn
<1>5. Entries(Fetch(d, dir), entry.name) = {}
  BY <1>1, <1>2, <1>3, FindFacts
<1> HIDE DEF dir, entry, r
<1>6. r.disk = d \/ Gains(d, r.disk, dir, entry)
  BY <1>2, <1>3, <1>4, <1>5, EnteredGains
<1> QED BY <1>2, <1>3, <1>4, <1>6 DEF dir, entry, r

LEMMA CreateNames ==
  ASSUME NEW d \in Disk, UniqueNames(d), NEW p \in AnyFile, PlacedIn(d), ApartFrom(d, p),
         NEW size \in Nat
  PROVE  Appears(d, Create(d, p, size).disk, p, NewEntry(d, p, FALSE))
<1> DEFINE r == Enter(d, p, size, FALSE)
           entry == NewEntry(d, p, FALSE)
           dir == The(ParsePath(d, p))
<1>1. r.disk \in Disk /\ r = Create(d, p, size)
  BY PathFacts, EnterResult, ResultParts DEF AnyFile, Swap, Create
<1>2. CASE r = Failed(d)
  BY <1>1, <1>2, FailedFacts DEF Appears
<1>3. CASE r # Failed(d)
  <2>1. /\ dir \in ParsePath(d, p) /\ entry.name = Last(p) /\ Find(d, p) = {}
        /\ r.disk = d \/ Gains(d, r.disk, dir, entry)
    BY <1>3, EnterGains
  <2> HIDE DEF r, entry, dir
  <2>2. Appears(d, r.disk, p, entry)
    BY <1>1, <2>1, GainsAppears
  <2> QED BY <1>1, <2>2 DEF entry
<1> QED BY <1>2, <1>3

(* "." and ".." are no names of a path: a directory with them alone is empty.  *)
LEMMA DotsGain ==
  ASSUME NEW d \in Disk, NEW e \in Disk, NEW dir \in d.used, NEW x \in Sector \ d.used,
         NEW entry, entry.sector = x, Gains(d, e, dir, entry), NEW t \in Table,
         \A y \in AnyName : Entries(Visible(t), y) = {}, NEW w, Stored(e, x, t, w)
  PROVE  Gains(d, w.disk, dir, entry) /\ Fetch(w.disk, dir) = Fetch(e, dir)
<1>1. dir \in Sector /\ x \in Sector /\ x # dir /\ e.table \in [Sector -> Table]
      /\ d.used \subseteq Sector
  BY DiskParts
<1>2. /\ \A s \in Sector \ {x} : w.disk.table[s] = e.table[s]
      /\ \/ w.disk.table[x] = t \/ w.disk.table[x] = e.table[x]
         \/ w.disk.table[x] = ExpandSize(e.table[x], Len(t))
  BY <1>1 DEF Stored
<1>3. \A s \in Sector \ {x} : Fetch(w.disk, s) = Fetch(e, s)
  BY <1>2, FetchIsVisible
<1>4. Len(t) \in Nat /\ e.table[x] \in Table
  BY <1>1, PartOfTable
<1>5. ASSUME NEW y \in AnyName PROVE Entries(Fetch(w.disk, x), y) = {}
  <2>1. Entries(Visible(e.table[x]), y) = {}
    BY FetchIsVisible DEF Gains
  <2>2. Entries(Visible(ExpandSize(e.table[x], Len(t))), y) = {}
    BY <1>4, <2>1, ExpandedSame
  <2> QED BY <1>2, <2>1, <2>2, FetchIsVisible
<1>6. \A s \in d.used : Fetch(w.disk, s) = Fetch(e, s)
  BY <1>1, <1>3
<1> QED BY <1>5, <1>6 DEF Gains

LEMMA MakeDirNames ==
  ASSUME NEW d \in Disk, UniqueNames(d), NEW p \in Path, PlacedIn(d), ApartFrom(d, p)
  PROVE  Appears(d, MakeDir(d, p).disk, p, NewEntry(d, p, TRUE))
<1> DEFINE r == Enter(d, p, 0, TRUE)
           entry == NewEntry(d, p, TRUE)
           dir == The(ParsePath(d, p))
           x == FindClear(d.used)
           m == MakeDir(d, p)
<1>1. /\ p \in AnyFile /\ p \in AnyPath /\ r \in Result /\ r.disk \in Disk /\ m.disk \in Disk
      /\ d.used \subseteq r.disk.used
  BY PathFacts, EnterResult, MakeDirResult, ResultParts DEF AnyFile
<1>2. m = IF r.ok THEN Ended(WriteTable(r.disk, x, DotTable(x, dir))) ELSE r
  BY AddDotsIs DEF MakeDir
<1>3. CASE r = Failed(d)
  <2>1. m.disk = d
    BY <1>2, <1>3, FailedFacts
  <2> QED BY <2>1 DEF Appears
<1>4. CASE r # Failed(d)
  <2>1. /\ dir \in ParsePath(d, p) /\ dir \in d.used /\ x \in Sector \ d.used
        /\ entry.name = Last(p) /\ Find(d, p) = {} /\ entry.sector = x
        /\ r.disk = d \/ Gains(d, r.disk, dir, entry)
    <3> DEFINE n == 0
               b == TRUE
               r2 == Enter(d, p, n, b)
               entry2 == NewEntry(d, p, b)
    <3>1. n \in Nat /\ b \in BOOLEAN /\ r2 # Failed(d)
      BY <1>4
    <3> HIDE DEF n, b
    <3>2. /\ dir \in ParsePath(d, p) /\ dir \in d.used /\ x \in Sector \ d.used
          /\ entry2.name = Last(p) /\ Find(d, p) = {} /\ entry2.sector = x
          /\ r2.disk = d \/ Gains(d, r2.disk, dir, entry2)
      BY <1>1, <3>1, EnterGains
    <3> QED BY <3>2 DEF n, b
  <2>2. dir \in Sector /\ x \in Sector /\ x # dir
    BY <2>1, DiskParts
  <2>3. r.ok => Entered(d, dir, entry, r)
    BY <1>1, <1>4, EnterFacts
  <2>4. r.ok => x \in r.disk.used
    BY <2>1, <2>3, DiskParts DEF Entered
  <2> HIDE DEF r, entry, dir, x, m
  <2>5. CASE ~r.ok
    <3>1. Appears(d, r.disk, p, entry)
      BY <1>1, <2>1, GainsAppears
    <3> QED BY <1>2, <2>5, <3>1 DEF m, entry
  <2>6. CASE r.ok
    <3> DEFINE t == DotTable(x, dir)
               w == WriteTable(r.disk, x, t)
    <3>1. t \in Table /\ \A y \in AnyName : Entries(Visible(t), y) = {}
      BY <2>2, DotTableFacts DEF AnyName
    <3> HIDE DEF t
    <3>2. Stored(r.disk, x, t, w) /\ Ended(w).disk = w.disk
      BY <1>1, <2>2, <3>1, StoredResult
    <3> HIDE DEF w
    <3>3. m.disk = w.disk
      BY <1>2, <2>6, <3>2 DEF t, w
    <3>7. Gains(d, r.disk, dir, entry)
      BY <2>1, <2>4, <2>6
    <3>9. Gains(d, w.disk, dir, entry)
      BY <1>1, <2>1, <3>1, <3>2, <3>7, DotsGain
    <3>10. Appears(d, w.disk, p, entry)
      BY <1>1, <2>1, <3>3, <3>9, GainsAppears
    <3> QED BY <3>3, <3>10 DEF m, entry
  <2> QED BY <2>5, <2>6
<1> QED BY <1>3, <1>4

LEMMA RemovedTables ==
  ASSUME NEW d \in Disk, UniqueNames(d), NEW dir \in Sector, NEW entry \in Entry,
         entry.sector # dir, NEW r, Removed(d, dir, entry, r)
  PROVE  /\ \A s \in Sector \ {entry.sector, dir} : Fetch(r.disk, s) = Fetch(d, s)
         /\ \/ \A x : Entries(Fetch(r.disk, dir), x) = Entries(Fetch(d, dir), x)
            \/ \A x : Entries(Fetch(r.disk, dir), x) = Entries(Fetch(d, dir), x) \ {entry}
<1> DEFINE x == entry.sector
           d1 == Deallocate(d, x)
           f == Fetch(d, dir)
           t == Without(f, entry)
<1>1. x \in Sector
  BY EntryFacts
<1>2. d.table \in [Sector -> Table] /\ d1 \in Disk /\ d1.table = Fresh(d, x)
  BY <1>1, DeallocateFacts, DiskParts
<1>3. f \in Table /\ Len(f) <= 2 * NumDirEntries /\ OneEach(f) /\ f = Visible(d.table[dir])
      /\ d.table[dir] \in Table
  BY <1>2, FetchFacts, FetchedOnce, FetchIsVisible
<1> HIDE DEF f
<1>4. t \in Table /\ \A y : Entries(Visible(t), y) = Entries(f, y) \ {entry}
  BY <1>3, WithoutFacts
<1>5. PICK w : Stored(d1, dir, t, w) /\ r.disk = w.disk
  BY DEF Removed, f
<1>6. Len(t) \in Nat
  BY <1>4, PartOfTable
<1> HIDE DEF d1, t
<1>7. d1.table[dir] = d.table[dir] /\ \A s \in Sector \ {x, dir} : d1.table[s] = d.table[s]
  BY <1>1, <1>2 DEF Fresh
<1>8. d1.table \in [Sector -> Table]
  BY <1>2, DiskParts
<1> HIDE DEF x
<1>9. /\ \A s \in Sector \ {x, dir} : r.disk.table[s] = d.table[s]
      /\ \/ r.disk.table[dir] = t \/ r.disk.table[dir] = d.table[dir]
         \/ r.disk.table[dir] = ExpandSize(d.table[dir], Len(t))
  <2>1. CASE r.disk.table = d1.table
    BY <1>7, <2>1
  <2>2. CASE r.disk.table = [d1.table EXCEPT ![dir] = t]
    BY <1>7, <1>8, <2>2
  <2>3. CASE r.disk.table = [d1.table EXCEPT ![dir] = ExpandSize(d1.table[dir], Len(t))]
    BY <1>7, <1>8, <2>3
  <2> QED BY <1>5, <2>1, <2>2, <2>3 DEF Stored
<1>10. \A s \in Sector \ {x, dir} : Fetch(r.disk, s) = Fetch(d, s)
  BY <1>9, FetchIsVisible
<1>11. \/ \A y : Entries(Fetch(r.disk, dir), y) = Entries(f, y)
       \/ \A y : Entries(Fetch(r.disk, dir), y) = Entries(f, y) \ {entry}
  <2>1. \A y : Entries(Visible(ExpandSize(d.table[dir], Len(t))), y) = Entries(f, y)
    BY <1>3, <1>6, ExpandedSame
  <2> QED BY <1>3, <1>4, <1>9, <2>1, FetchIsVisible
<1> QED BY <1>10, <1>11 DEF x, f

LEMMA RemoveNames ==
  ASSUME NEW d \in Disk, UniqueNames(d), NEW p \in AnyFile, PlacedIn(d), ApartFrom(d, p),
         FreedApart(d, p)
  PROVE  Disappears(d, RemoveName(d, p).disk, p)
<1> DEFINE r == RemoveName(d, p)
           e == r.disk
<1>1. p \in AnyPath /\ p \in Path \cup {Swap}
  BY PathFacts DEF AnyFile, Swap
<1>2. r \in Result /\ e \in Disk
  BY <1>1, RemoveFacts, ResultParts
<1>3. CASE r = Failed(d)
  <2>1. e = d
    BY <1>3, FailedFacts
  <2> QED BY <2>1 DEF Disappears
<1>4. CASE r # Failed(d)
  <2>1. PICK entry \in Find(d, p), dir \in ParsePath(d, p) :
          ~entry.isDirectory /\ Removed(d, dir, entry, r)
    BY <1>1, <1>4, RemoveFacts
  <2> DEFINE x == entry.sector
  <2>2. entry \in Entry /\ dir \in Sector
    BY <1>1, FindFacts, ParsePathFacts
  <2>3. \A q \in AnyFile : ParsePath(d, q) \subseteq Sector /\ x \notin ParsePath(d, q)
    BY <2>1, PathFacts, ParsePathFacts DEF FreedApart, Freed, AnyFile, Swap
  <2>4. x # dir
    BY <2>3
  <2> HIDE DEF r
  <2>5. /\ \A s \in Sector \ {x, dir} : Fetch(e, s) = Fetch(d, s)
        /\ \/ \A y : Entries(Fetch(e, dir), y) = Entries(Fetch(d, dir), y)
           \/ \A y : Entries(Fetch(e, dir), y) = Entries(Fetch(d, dir), y) \ {entry}
    BY <2>1, <2>2, <2>4, RemovedTables
  <2> HIDE DEF e, x
  <2>6. Find(d, p) = {entry}
    BY <1>1, FindUnique
  <2>7. \A s \in ParsePath(d, p) : s = dir
    BY <1>1, ParsePathUnique
  <2>8. entry.name = Last(p) /\ Entries(Fetch(d, dir), Last(p)) \subseteq {entry}
    <3>1. PICK s \in ParsePath(d, p) : entry \in Entries(Fetch(d, s), Last(p))
      BY <1>1, FindFacts
    <3>2. \A z \in Entries(Fetch(d, dir), Last(p)) : z \in Find(d, p)
      BY <1>1, FindFacts
    <3> QED BY <2>6, <3>1, <3>2 DEF Entries
  <2>9. Elsewhere(d, e, p)
    <3> SUFFICES ASSUME NEW q \in Path \ {p}, NEW s \in ParsePath(d, q)
                 PROVE  Entries(Fetch(e, s), Last(q)) = Entries(Fetch(d, s), Last(q))
      BY DEF Elsewhere
    <3>1. s \in Sector \ {x}
      BY <2>3 DEF AnyFile
    <3>2. CASE s = dir
      <4>1. Last(q) # entry.name
        BY <2>8, <3>2 DEF ApartFrom
      <4>2. entry \notin Entries(Fetch(d, dir), Last(q))
        BY <4>1 DEF Entries
      <4> QED BY <2>5, <3>2, <4>2
    <3>3. CASE s # dir
      BY <2>5, <3>1, <3>3
    <3> QED BY <3>2, <3>3
  <2>10. NoDirectory(d, p)
    BY <2>1, <2>6 DEF NoDirectory
  <2>11. EmptyBelow(d, e, p)
    BY <2>1, <2>5, <2>7, <2>8 DEF EmptyBelow
  <2>12. SameFinds(d, e, p)
    BY <1>1, <1>2, <2>9, <2>10, <2>11, SameNames DEF e
  <2>13. e \in Disk
    BY <1>2 DEF e
  <2>14. ASSUME NEW q \in Path \ {p} PROVE ParsePath(e, q) = ParsePath(d, q)
    <3>1. q \in AnyPath
      BY PathFacts
    <3>2. CASE Len(q) > 1 /\ Front(q) = p
      <4>1. p \in Path
        BY <3>2, FrontOfPath
      <4>2. /\ ParsePath(d, q) = {z.sector : z \in {g \in Find(d, p) : g.isDirectory}}
            /\ ParsePath(e, q) = {z.sector : z \in {g \in Find(e, p) : g.isDirectory}}
        BY <2>13, <3>1, <3>2, FindFacts
      <4>3. ASSUME NEW z \in Find(e, p) PROVE z = entry
        <5>1. PICK s \in ParsePath(e, p) : z \in Entries(Fetch(e, s), Last(p))
          BY <1>1, <2>13, FindFacts
        <5>2. s = dir
          BY <2>7, <2>12, <4>1, <5>1 DEF SameFinds
        <5> QED BY <2>5, <2>8, <5>1, <5>2
      <4> QED BY <2>1, <2>6, <4>2, <4>3
    <3>3. CASE ~(Len(q) > 1 /\ Front(q) = p)
      <4>1. Len(q) > 1 => Find(e, Front(q)) = Find(d, Front(q))
        BY <2>12, <3>3, FrontOfPath DEF SameFinds
      <4> QED BY <2>13, <3>1, <4>1, ParsePathSame
    <3> QED BY <3>2, <3>3
  <2>15. ASSUME p \in Path
         PROVE  Find(e, p) = Find(d, p) \/ Find(e, p) = {}
    <3>1. \A z \in Find(e, p) : z \in Entries(Fetch(e, dir), Last(p))
      BY <1>1, <2>7, <2>12, <2>13, <2>15, FindFacts DEF SameFinds
    <3>2. \A z \in Find(e, p) : z = entry
      BY <2>5, <2>8, <3>1
    <3> QED BY <2>6, <3>2
  <2> QED BY <2>1, <2>12, <2>14, <2>15 DEF Disappears, SameFinds, e, r
<1> QED BY <1>3, <1>4

(* The swap file is made again without a change to the users' names.          *)
LEMMA SwapApart ==
  ASSUME NEW d
  PROVE  ApartFrom(d, Swap)
<1>1. Last(Swap) = SwapName /\ SwapName \notin Name
  BY PathFacts, NameAssumption DEF Swap
<1>2. \A q \in Path : Last(q) \in Name
  BY PathFacts, FrontFacts
<1> QED BY <1>1, <1>2 DEF ApartFrom

LEMMA PlacedAfterRemoval ==
  ASSUME NEW d \in Disk, UniqueNames(d), PlacedIn(d), FreedApart(d, Swap)
  PROVE  PlacedIn(RemoveName(d, Swap).disk)
<1> DEFINE r == RemoveName(d, Swap)
<1>1. Swap \in AnyPath /\ Swap \in AnyFile /\ Len(Swap) = 1
  BY PathFacts DEF Swap, AnyFile
<1>2. r \in Result /\ r.disk \in Disk
  BY <1>1, RemoveFacts, ResultParts
<1>3. \A q \in AnyFile : ParsePath(r.disk, q) = ParsePath(d, q)
  <2>1. Disappears(d, r.disk, Swap)
    BY <1>1, SwapApart, RemoveNames
  <2>2. ParsePath(r.disk, Swap) = ParsePath(d, Swap)
    BY <1>1, <1>2, ParsePathFacts
  <2> QED BY <2>1, <2>2, FileNames DEF Disappears, AnyFile
<1>4. CASE r = Failed(d)
  <2>1. r.disk = d
    BY <1>4, FailedFacts
  <2> QED BY <2>1
<1>5. CASE r # Failed(d)
  <2>1. PICK entry \in Find(d, Swap), dir \in ParsePath(d, Swap) :
          ~entry.isDirectory /\ Removed(d, dir, entry, r)
    BY <1>1, <1>5, RemoveFacts
  <2> DEFINE x == entry.sector
  <2>2. x \in Sector
    BY <1>1, FindFacts, EntryFacts
  <2>3. Deallocate(d, x).used = d.used \ Freed(d, x)
    BY <2>2, DeallocateFacts
  <2> HIDE DEF r
  <2>4. d.used \ Freed(d, x) \subseteq r.disk.used
    BY <2>1, <2>3 DEF Removed
  <2>5. \A q \in AnyFile : ParsePath(d, q) \cap Freed(d, x) = {}
    BY <2>1 DEF FreedApart
  <2>6. \A q \in AnyFile : ParsePath(d, q) \subseteq r.disk.used
    BY <2>4, <2>5 DEF PlacedIn
  <2> QED BY <1>3, <2>6 DEF PlacedIn, r
<1> QED BY <1>4, <1>5

LEMMA MakeSwapFileNames ==
  ASSUME NEW d \in Disk, UniqueNames(d), PlacedIn(d), FreedApart(d, Swap)
  PROVE  \A q \in Path : Find(MakeSwapFile(d).disk, q) = Find(d, q)
<1> DEFINE e == RemoveName(d, Swap).disk
<1>1. Swap \in AnyFile /\ Swap \notin Path /\ SwapSize \in Nat /\ Swap \in AnyPath
  BY FileNames, PathFacts, DiskAssumption DEF AnyFile, Swap
<1>2. \A f \in Disk : UniqueNames(f) /\ PlacedIn(f) =>
        \A q \in Path : Find(Create(f, Swap, SwapSize).disk, q) = Find(f, q)
  <2> SUFFICES ASSUME NEW f \in Disk, UniqueNames(f), PlacedIn(f)
               PROVE  \A q \in Path : Find(Create(f, Swap, SwapSize).disk, q) = Find(f, q)
    OBVIOUS
  <2>1. Appears(f, Create(f, Swap, SwapSize).disk, Swap, NewEntry(f, Swap, FALSE))
    BY <1>1, SwapApart, CreateNames
  <2> QED BY <1>1, <2>1 DEF Appears
<1>3. \A q \in Path : Find(e, q) = Find(d, q)
  <2>1. Disappears(d, e, Swap)
    BY <1>1, SwapApart, RemoveNames
  <2> QED BY <1>1, <2>1 DEF Disappears
<1>4. e \in Disk /\ UniqueNames(e) /\ PlacedIn(e)
  BY <1>1, RemoveFacts, ResultParts, PlacedAfterRemoval
<1> HIDE DEF e
<1>5. MakeSwapFile(d) = Create(d, Swap, SwapSize) \/ MakeSwapFile(d) = RemoveName(d, Swap)
      \/ MakeSwapFile(d) = Create(e, Swap, SwapSize)
  BY MakeSwapFileIs DEF e
<1>6. CASE MakeSwapFile(d) = Create(d, Swap, SwapSize)
  BY <1>2, <1>6
<1>7. CASE MakeSwapFile(d) = RemoveName(d, Swap)
  BY <1>3, <1>7 DEF e
<1>8. CASE MakeSwapFile(d) = Create(e, Swap, SwapSize)
  BY <1>2, <1>3, <1>4, <1>8
<1> QED BY <1>5, <1>6, <1>7, <1>8

LEMMA FormattedNames ==
  /\ PlacedIn(Format) /\ FreedApart(Format, Swap)
  /\ \A q \in AnyFile : Find(Format, q) = {}
<1> DEFINE d == Format
<1>1. d \in Disk /\ UniqueNames(d) /\ NoNames(d) /\ DirectorySector \in d.used
  BY FormatFacts
<1>2. ASSUME NEW q \in AnyPath PROVE Find(d, q) = {}
  <2>1. \A s \in ParsePath(d, q) : Entries(Fetch(d, s), Last(q)) = {}
    BY <1>1, <1>2, ParsePathFacts, FetchIsVisible DEF NoNames
  <2> QED BY <1>1, <2>1, FindFacts
<1>3. \A q \in AnyFile : q \in AnyPath
  BY PathFacts DEF AnyFile, Swap
<1>4. ASSUME NEW q \in AnyFile PROVE ParsePath(d, q) \subseteq {DirectorySector}
  <2> DEFINE n == Len(q)
  <2>1. q \in AnyPath /\ n \in Nat \ {0}
    BY <1>3, FrontFacts DEF AnyPath
  <2>2. n = 1 \/ n > 1
    <3> HIDE DEF n
    <3> QED BY <2>1
  <2>3. CASE n = 1
    BY <1>1, <2>1, <2>3, ParsePathFacts
  <2>4. CASE n > 1
    <3>1. Front(q) \in AnyPath
      BY <2>1, <2>4, FrontFacts DEF AnyPath
    <3>2. Find(d, Front(q)) = {}
      BY <1>2, <3>1
    <3> QED BY <1>1, <2>1, <2>4, <3>2, FindFacts
  <2> QED BY <2>2, <2>3, <2>4
<1>5. \A q \in AnyFile : Find(d, q) = {}
  BY <1>2, <1>3
<1>6. Swap \in AnyFile
  BY DEF AnyFile
<1> HIDE DEF d
<1>7. PlacedIn(d) /\ FreedApart(d, Swap)
  BY <1>1, <1>4, <1>5, <1>6 DEF PlacedIn, FreedApart
<1> QED BY <1>5, <1>7 DEF d

-----------------------------------------------------------------------------

LEMMA TreeSame ==
  ASSUME NEW d, NEW e, \A q \in Path : Find(e, q) = Find(d, q)
  PROVE  TreeOf(e) = TreeOf(d)
BY DEF TreeOf, Kind

LEMMA TreeChanged ==
  ASSUME NEW d, NEW e, NEW p \in Path, \A q \in Path \ {p} : Find(e, q) = Find(d, q)
  PROVE  TreeOf(e) = [TreeOf(d) EXCEPT ![p] = Kind(e, p)]
<1>1. \A q \in Path \ {p} : Kind(e, q) = Kind(d, q)
  BY DEF Kind
<1> QED BY <1>1 DEF TreeOf

LEMMA KindIs ==
  ASSUME NEW d, NEW p, NEW entry, Find(d, p) = {entry}
  PROVE  Kind(d, p) = IF entry.isDirectory THEN "directory" ELSE "file"
BY DEF Kind, The

LEMMA AppearsAdds ==
  ASSUME NEW d \in Disk, UniqueNames(d), NEW e, NEW p \in Path, NEW entry,
         Appears(d, e, p, entry)
  PROVE  \/ TreeOf(e) = TreeOf(d)
         \/ Added(TreeOf(d), TreeOf(e), p, IF entry.isDirectory THEN "directory" ELSE "file")
<1>1. CASE Find(e, p) = Find(d, p)
  BY <1>1, TreeSame DEF Appears
<1>2. CASE Find(d, p) = {} /\ ParsePath(d, p) # {} /\ Find(e, p) = {entry}
  <2>1. TreeOf(e) = [TreeOf(d) EXCEPT ![p] = IF entry.isDirectory THEN "directory" ELSE "file"]
    <3>1. TreeOf(e) = [TreeOf(d) EXCEPT ![p] = Kind(e, p)]
      BY TreeChanged DEF Appears
    <3>2. Kind(e, p) = IF entry.isDirectory THEN "directory" ELSE "file"
      BY <1>2, KindIs
    <3> QED BY <3>1, <3>2, Zenon
  <2>2. TreeOf(d)[p] = "none"
    BY <1>2 DEF TreeOf, Kind
  <2>3. ASSUME Len(p) > 1 PROVE TreeOf(d)[Front(p)] = "directory"
    <3>1. p \in AnyPath /\ Front(p) \in Path /\ Front(p) \in AnyPath
      BY <2>3, PathFacts, FrontOfPath
    <3>2. PICK x \in Find(d, Front(p)) : x.isDirectory
      BY <1>2, <2>3, <3>1, FindFacts
    <3>3. Find(d, Front(p)) = {x}
      BY <3>1, <3>2, FindUnique
    <3> QED BY <3>1, <3>2, <3>3, KindIs DEF TreeOf
  <2> QED BY <2>1, <2>2, <2>3 DEF Added
<1> QED BY <1>1, <1>2 DEF Appears

LEMMA DisappearsDeletes ==
  ASSUME NEW d \in Disk, UniqueNames(d), NEW e, NEW p \in Path, Disappears(d, e, p)
  PROVE  TreeOf(e) = TreeOf(d) \/ Deleted(TreeOf(d), TreeOf(e), p)
<1>1. \A q \in Path \ {p} : Find(e, q) = Find(d, q)
  BY DEF Disappears
<1>2. CASE Find(e, p) = Find(d, p)
  BY <1>1, <1>2, TreeSame
<1>3. CASE Find(e, p) = {} /\ \E x \in Find(d, p) : ~x.isDirectory
  <2>1. PICK x \in Find(d, p) : ~x.isDirectory
    BY <1>3
  <2>2. Find(d, p) = {x}
    BY <2>1, PathFacts, FindUnique
  <2>3. TreeOf(d)[p] = "file"
    BY <2>1, <2>2, KindIs DEF TreeOf
  <2>4. Kind(e, p) = "none"
    BY <1>3 DEF Kind
  <2>5. TreeOf(e) = [TreeOf(d) EXCEPT ![p] = "none"]
    BY <1>1, <2>4, TreeChanged
  <2> QED BY <2>3, <2>5 DEF Deleted
<1> QED BY <1>2, <1>3 DEF Disappears

LEMMA AddedIsNext ==
  ASSUME NEW p \in Path, NEW kind \in {"file", "directory"},
         Added(TreeOf(disk), TreeOf(disk)', p, kind)
  PROVE  Names!Next
<1>1. Front(p) = SubSeq(p, 1, Len(p) - 1)
  BY DEF Front
<1>2. Names!Add(p, kind)
  BY <1>1 DEF Added, TreeOf, Names!Add, Names!Parent
<1> QED BY <1>2 DEF Names!Next

LEMMA DeletedIsNext ==
  ASSUME NEW p \in Path, Deleted(TreeOf(disk), TreeOf(disk)', p)
  PROVE  Names!Next
<1>1. Names!Delete(p)
  BY DEF Deleted, TreeOf, Names!Delete
<1> QED BY <1>1 DEF Names!Next

LEMMA InitNames ==
  ASSUME Init
  PROVE  Names!Init
<1>1. \A q \in Path : Find(disk, q) = {}
  <2>1. \A q \in Path : Find(MakeSwapFile(Format).disk, q) = Find(Format, q)
    BY FormatFacts, FormattedNames, MakeSwapFileNames
  <2> QED BY <2>1, FormattedNames DEF Init, AnyFile
<1>2. \A q \in Path : Kind(disk, q) = "none"
  BY <1>1 DEF Kind
<1> QED BY <1>2 DEF Names!Init

LEMMA NextNames ==
  ASSUME DiskInv, [Next]_vars
  PROVE  Names!Next \/ UNCHANGED TreeOf(disk)
<1>1. disk \in Disk /\ UniqueNames(disk)
  BY DEF DiskInv
<1>2. CASE UNCHANGED vars
  <2>1. disk' = disk
    BY <1>2 DEF vars
  <2> QED BY <2>1 DEF TreeOf, Kind, Find
<1>3. CASE Next
  <2>1. Intact(disk)
    BY <1>3 DEF Next
  <2>2. PlacedIn(disk) /\ \A p \in AnyFile : ApartFrom(disk, p) /\ FreedApart(disk, p)
    BY <1>1, <2>1, DirectoriesPlaced
  <2>3. ASSUME NEW p \in Path, NEW kind \in {"file", "directory"}, NEW entry,
               entry.isDirectory = (kind = "directory"), Appears(disk, disk', p, entry)
        PROVE  Names!Next \/ UNCHANGED TreeOf(disk)
    <3>1. TreeOf(disk') = TreeOf(disk)
          \/ Added(TreeOf(disk), TreeOf(disk'), p, IF entry.isDirectory THEN "directory" ELSE "file")
      BY <1>1, <2>3, AppearsAdds
    <3>2. (IF entry.isDirectory THEN "directory" ELSE "file") = kind
      BY <2>3
    <3>3. TreeOf(disk') = TreeOf(disk)'
      BY DEF TreeOf, Kind, Find
    <3> QED BY <3>1, <3>2, <3>3, AddedIsNext
  <2>4. ASSUME NEW p \in Path, NEW size \in Nat, disk' = Create(disk, p, size).disk
        PROVE  Names!Next \/ UNCHANGED TreeOf(disk)
    <3>1. p \in AnyFile
      BY DEF AnyFile
    <3>2. Appears(disk, disk', p, NewEntry(disk, p, FALSE))
      BY <1>1, <2>2, <2>4, <3>1, CreateNames
    <3>3. NewEntry(disk, p, FALSE).isDirectory = FALSE
      BY DEF NewEntry
    <3> QED BY <2>3, <3>2, <3>3
  <2>5. ASSUME NEW p \in Path, disk' = RemoveName(disk, p).disk
        PROVE  Names!Next \/ UNCHANGED TreeOf(disk)
    <3>1. p \in AnyFile
      BY DEF AnyFile
    <3>2. Disappears(disk, disk', p)
      BY <1>1, <2>2, <2>5, <3>1, RemoveNames
    <3>3. TreeOf(disk') = TreeOf(disk)'
      BY DEF TreeOf, Kind, Find
    <3> QED BY <1>1, <3>2, <3>3, DisappearsDeletes, DeletedIsNext
  <2>6. ASSUME NEW p \in Path, NEW size \in CopySize, Copy(p, size)
        PROVE  Names!Next \/ UNCHANGED TreeOf(disk)
    <3> DEFINE r == Create(disk, p, size)
    <3>1. size \in Nat /\ p \in AnyPath
      BY PathFacts, DiskAssumption
    <3>2. r \in Result
      BY <1>1, <3>1, CreateResult
    <3>3. disk' = CopyInto(r, p, size).disk
      BY <2>6 DEF Copy, Does
    <3> HIDE DEF r
    <3>4. disk' = r.disk
      BY <3>2, <3>3, CopyIntoFacts
    <3> QED BY <2>4, <3>1, <3>4 DEF r
  <2>7. ASSUME NEW p \in Path, RemoveOption(p)
        PROVE  Names!Next \/ UNCHANGED TreeOf(disk)
    BY <2>5, <2>7 DEF RemoveOption, Does
  <2>8. ASSUME NEW p \in Path, SysCreate(p)
        PROVE  Names!Next \/ UNCHANGED TreeOf(disk)
    BY <2>4, <2>8 DEF SysCreate, Does
  <2>9. ASSUME NEW p \in Path, SysMakeDir(p)
        PROVE  Names!Next \/ UNCHANGED TreeOf(disk)
    <3>1. Appears(disk, disk', p, NewEntry(disk, p, TRUE))
      BY <1>1, <2>2, <2>9, MakeDirNames DEF SysMakeDir, Does, AnyFile
    <3>2. NewEntry(disk, p, TRUE).isDirectory = TRUE
      BY DEF NewEntry
    <3> QED BY <2>3, <3>1, <3>2
  <2>10. ASSUME NEW p \in Path, RemoveFile(p)
         PROVE  Names!Next \/ UNCHANGED TreeOf(disk)
    BY <2>5, <2>10 DEF RemoveFile, Does
  <2>11. CASE Run
    <3>1. disk' = disk
      BY <2>11 DEF Run
    <3> QED BY <3>1 DEF TreeOf, Kind, Find
  <2>12. CASE Restart
    <3>1. disk' = MakeSwapFile(disk).disk
      BY <2>12 DEF Restart, Does
    <3>2. \A q \in Path : Find(disk', q) = Find(disk, q)
      BY <1>1, <2>2, <3>1, MakeSwapFileNames DEF AnyFile
    <3>3. TreeOf(disk') = TreeOf(disk)
      BY <3>2, TreeSame
    <3> QED BY <3>3 DEF TreeOf, Kind, Find
  <2> QED BY <1>3, <2>6, <2>7, <2>8, <2>9, <2>10, <2>11, <2>12 DEF Next
<1> QED BY <1>2, <1>3

(* Every call creates or removes what its path names, or nothing, whatever    *)
(* fails on the way: no other path changes what it stands for, and a new name *)
(* lies in a directory that exists (FileSystem::Create, Make_Dir, Remove).    *)
THEOREM NamesImplemented == Spec => ImplementsNames
<1>1. Init => Names!Init
  BY InitNames
<1>2. DiskInv /\ [Next]_vars => [Names!Next]_([path \in Path |-> Kind(disk, path)])
  BY NextNames DEF TreeOf
<1> QED BY <1>1, <1>2, InitDiskInv, NextDiskInv, PTL DEF Spec, ImplementsNames, Names!Spec

-----------------------------------------------------------------------------

(* Where the sectors are.  The proof that no sector leaks and that every byte *)
(* has a sector goes from the loops of the allocation (what they take, and    *)
(* how the blocks they fill hang together) to the two shapes a file has: a    *)
(* new one is whole or has an empty index block, a directory has one block of *)
(* pointers.  What a call then writes is a disk that fits its headers, unless *)
(* the growing directory took the sector that the new file has as well.       *)

(* One sector less is free once one is taken. *)
LEMMA ClearShrinks ==
  ASSUME NEW map, NEW c \in Clear(map)
  PROVE  Cardinality(Clear(map \cup {c})) = Cardinality(Clear(map)) - 1
<1>1. Clear(map \cup {c}) = Clear(map) \ {c}
  BY DEF Clear
<1> QED BY <1>1, ClearFinite, FS_RemoveElement

(* FindClear says NoSector only of a full map.                                *)
LEMMA NoneClear ==
  ASSUME NEW map
  PROVE  /\ FindClear(map) = NoSector <=> Clear(map) = {}
         /\ Clear(map) = {} <=> Cardinality(Clear(map)) = 0
         /\ FindClear(map) # NoSector => FindClear(map) \in Clear(map)
<1>1. Clear(map) # {} => FindClear(map) \in Clear(map)
  <2>1. Clear(map) \in SUBSET Nat
    BY ClearFinite, DiskFacts
  <2> QED BY <2>1, LeastIsMin DEF FindClear
<1>2. Clear(map) \subseteq Sector /\ NoSector \notin Sector
  BY ClearFinite, DiskFacts
<1>3. Clear(map) = {} <=> Cardinality(Clear(map)) = 0
  BY ClearFinite, FS_EmptySet
<1> QED BY <1>1, <1>2, <1>3 DEF FindClear

(* The first sector taken is the first free one. *)
LEMMA FirstTaken ==
  ASSUME NEW map, NEW k \in Nat, 1 <= k, k <= Cardinality(Clear(map))
  PROVE  FirstClear(map, k)[1] = FindClear(map)
<1> DEFINE C == Clear(map)
           Rank(s) == Cardinality({t \in C : t < s})
           m == FindClear(map)
<1>1. C \in SUBSET Nat /\ IsFiniteSet(C) /\ C # {}
  <2>1. Clear(map) # {}
    BY FS_EmptySet
  <2> QED BY <2>1, ClearFinite, DiskFacts
<1>2. m \in C /\ \A y \in C : m <= y
  <2>1. m = Min(C)
    BY <1>1 DEF FindClear
  <2> HIDE DEF C, m
  <2> QED BY <1>1, <2>1, LeastIsMin
<1>3. Rank(m) = 0
  <2>1. {t \in C : t < m} = {}
    BY <1>1, <1>2
  <2> QED BY <2>1, FS_EmptySet
<1>4. ASSUME NEW s \in C, Rank(s) = 0 PROVE s = m
  <2>1. {t \in C : t < s} \subseteq C
    OBVIOUS
  <2>2. IsFiniteSet({t \in C : t < s})
    <3> HIDE DEF C
    <3> QED BY <1>1, <2>1, FS_Subset
  <2>3. {t \in C : t < s} = {}
    <3> HIDE DEF C
    <3> QED BY <1>4, <2>2, FS_EmptySet
  <2>4. ~(m < s)
    BY <1>2, <2>3
  <2> QED BY <1>1, <1>2, <2>4
<1>5. FirstClear(map, k)[1] = CHOOSE s \in C : Rank(s) = 0
  <2>1. ASSUME NEW i \in 1 .. k
        PROVE  FirstClear(map, k)[i] = CHOOSE s \in C : Rank(s) = i - 1
    BY Zenon DEF FirstClear
  <2>2. 1 \in 1 .. k /\ 1 - 1 = 0
    OBVIOUS
  <2> HIDE DEF C, Rank
  <2> QED BY <2>1, <2>2
<1> HIDE DEF C, Rank, m
<1>6. (CHOOSE s \in C : Rank(s) = 0) = m
  BY <1>2, <1>3, <1>4
<1> QED BY <1>5, <1>6 DEF m

(* The state of a loop of the allocation.                                     *)
LEMMA GoingParts ==
  ASSUME NEW map, NEW limit, NEW h \in Going(map, limit)
  PROVE  /\ h.map \in SUBSET Sector /\ h.block \in [Sector -> Seq(Sector)] /\ BlocksFit(h.block)
         /\ h.sectors \in Seq(Sector) /\ Len(h.sectors) \in Nat /\ Len(h.sectors) <= limit
         /\ h.count \in Int /\ h.dead \in BOOLEAN /\ map \subseteq h.map
BY GoingIs DEF Allocation

(* What taking a new block changes (Made).                                    *)
LEMMA MadeNew ==
  ASSUME NEW map, NEW limit, NEW h \in Going(map, limit), NEW c \in Sector
  PROVE  /\ Made(h, c).map = h.map \cup {c} /\ Made(h, c).block = [h.block EXCEPT ![c] = <<>>]
         /\ Made(h, c).sectors = Append(h.sectors, c) /\ Made(h, c).count = h.count
         /\ Made(h, c).dead = h.dead /\ Made(h, c) \in Allocation
<1> DEFINE map2 == h.map \cup {c}
           block2 == [h.block EXCEPT ![c] = <<>>]
           sectors2 == Append(h.sectors, c)
           made == Made(h, c)
<1>1. h \in Allocation
  BY GoingIs
<1>2. map2 \in SUBSET Sector /\ block2 \in [Sector -> Seq(Sector)] /\ sectors2 \in Seq(Sector)
  BY <1>1 DEF Allocation
<1>3. made = [h EXCEPT !.map = map2, !.block = block2, !.sectors = sectors2]
  BY Zenon DEF Made
<1> HIDE DEF map2, block2, sectors2, made
<1>4. /\ made.map = map2 /\ made.block = block2 /\ made.sectors = sectors2
      /\ made.count = h.count /\ made.dead = h.dead /\ made \in Allocation
  BY <1>1, <1>2, <1>3 DEF Allocation
<1> QED BY <1>4, Zenon DEF map2, block2, sectors2, made

(* A round of either loop that has to make a new block.                       *)
LEMMA AskIs ==
  ASSUME NEW map, NEW limit, NEW h \in Going(map, limit), NEW n \in Nat, NEW i,
         i > Len(h.sectors), ~h.dead, h.count < n
  PROVE  LET c == FindClear(h.map)
             made == Made(h, c)
         IN /\ Ask(IndirectAllocate, n, h, i) =
                 IF c = NoSector THEN [h EXCEPT !.dead = TRUE]
                 ELSE Joined(made, IndirectAllocate(made, c, n - h.count))
            /\ Ask(DoubleAllocate, n, h, i) =
                 IF c = NoSector THEN [h EXCEPT !.dead = TRUE]
                 ELSE Joined(made, DoubleAllocate(made, c, n - h.count))
<1>1. ~(h.count >= n)
  BY GoingParts
<1> DEFINE isNew == i > Len(h.sectors)
           sector == IF isNew THEN FindClear(h.map) ELSE h.sectors[i]
           made == IF isNew
                   THEN [h EXCEPT !.map = @ \cup {sector}, !.block[sector] = <<>>,
                                  !.sectors = Append(@, sector)]
                   ELSE h
<1>2. Ask(IndirectAllocate, n, h, i) =
        IF h.dead \/ h.count >= n THEN h
        ELSE IF sector = NoSector THEN [h EXCEPT !.dead = TRUE]
        ELSE Joined(made, IndirectAllocate(made, sector, n - h.count))
  BY DEF Ask
<1>3. Ask(DoubleAllocate, n, h, i) =
        IF h.dead \/ h.count >= n THEN h
        ELSE IF sector = NoSector THEN [h EXCEPT !.dead = TRUE]
        ELSE Joined(made, DoubleAllocate(made, sector, n - h.count))
  BY DEF Ask
<1>4. isNew /\ sector = FindClear(h.map)
  OBVIOUS
<1> QED BY <1>1, <1>2, <1>3, <1>4, Zenon DEF Made

(* The fields of a round that joins what was made below it.                   *)
LEMMA JoinedFields ==
  ASSUME NEW g \in Allocation, NEW b
  PROVE  /\ Joined(g, b).map = b.map /\ Joined(g, b).block = b.block
         /\ Joined(g, b).count = g.count + b.count /\ Joined(g, b).dead = b.dead
         /\ Joined(g, b).sectors = g.sectors
<1> DEFINE c == g.count + b.count
<1>1. Joined(g, b) = [g EXCEPT !.map = b.map, !.block = b.block, !.count = c, !.dead = b.dead]
  BY Zenon DEF Joined
<1> HIDE DEF c
<1>2. /\ Joined(g, b).map = b.map /\ Joined(g, b).block = b.block
      /\ Joined(g, b).count = c /\ Joined(g, b).dead = b.dead
      /\ Joined(g, b).sectors = g.sectors
  BY <1>1 DEF Allocation
<1> QED BY <1>2 DEF c

(* A round that makes a block of pointers to data: it is full of what was     *)
(* asked for, or empty and one pointer is counted back.                       *)
LEMMA AskNewIndirect ==
  ASSUME NEW map, NEW limit, NEW h \in Going(map, limit), NEW n \in Nat, NEW i,
         i > Len(h.sectors), ~h.dead, h.count < n, NEW c, c = FindClear(h.map), c # NoSector
  PROVE  \E t \in Seq(Sector) :
           /\ Makes(h, c, t, Ask(IndirectAllocate, n, h, i))
           /\ IF Cardinality(Clear(h.map \cup {c})) < n - h.count
              THEN t = <<>> /\ Ask(IndirectAllocate, n, h, i).count = h.count - 1
              ELSE /\ Len(t) = Min({n - h.count, MaxBlocksNum})
                   /\ Ask(IndirectAllocate, n, h, i).count = h.count + Len(t)
<1> DEFINE made == Made(h, c)
           k == Min({n - h.count, MaxBlocksNum})
           t == FirstClear(h.map \cup {c}, k)
           b == IndirectAllocate(made, c, n - h.count)
           r == Ask(IndirectAllocate, n, h, i)
<1>1. c \in Sector /\ c \notin h.map
  BY FindClearFacts
<1>2. /\ made.map = h.map \cup {c} /\ made.block = [h.block EXCEPT ![c] = <<>>]
      /\ made.sectors = Append(h.sectors, c) /\ made.count = h.count
      /\ made.dead = h.dead /\ made \in Allocation
  BY <1>1, MadeNew
<1>3. r = Joined(made, b)
  BY AskIs
<1>4. h.block \in [Sector -> Seq(Sector)] /\ h.count \in Int /\ n - h.count \in Nat
      /\ MaxBlocksNum \in Nat
  BY GoingParts, DiskFacts
<1> HIDE DEF made
<1>5. made.block[c] = <<>>
  BY <1>1, <1>2, <1>4
<1>6. k = Min({n - h.count, MaxBlocksNum - Len(made.block[c])})
  <2>1. MaxBlocksNum - Len(<<>>) = MaxBlocksNum
    BY <1>4
  <2> QED BY <1>5, <2>1
<1>7. b = IF Cardinality(Clear(h.map \cup {c})) < n - h.count
          THEN [made EXCEPT !.count = -1]
          ELSE [made EXCEPT !.map = @ \cup Range(t), !.block[c] = @ \o t, !.count = k]
  BY <1>2, <1>6, Zenon DEF IndirectAllocate
<1>8. /\ r.map = b.map /\ r.block = b.block /\ r.count = h.count + b.count /\ r.dead = b.dead
      /\ r.sectors = Append(h.sectors, c)
  BY <1>2, <1>3, JoinedFields
<1> HIDE DEF r, b
<1>9. CASE Cardinality(Clear(h.map \cup {c})) < n - h.count
  <2>1. b = [made EXCEPT !.count = -1]
    BY <1>7, <1>9
  <2>2. b.map = made.map /\ b.block = made.block /\ b.count = -1 /\ b.dead = made.dead
    BY <1>2, <2>1 DEF Allocation
  <2>3. Range(<<>>) = {} /\ <<>> \in Seq(Sector)
    BY DEF Range
  <2>4. Makes(h, c, <<>>, r)
    BY <1>2, <1>8, <2>2, <2>3 DEF Makes
  <2>5. r.count = h.count - 1
    BY <1>4, <1>8, <2>2
  <2> QED BY <1>9, <2>3, <2>4, <2>5 DEF r
<1>10. CASE ~(Cardinality(Clear(h.map \cup {c})) < n - h.count)
  <2>1. b = [made EXCEPT !.map = @ \cup Range(t), !.block[c] = @ \o t, !.count = k]
    BY <1>7, <1>10
  <2>2. k \in Nat /\ k <= n - h.count /\ k <= Cardinality(Clear(h.map \cup {c}))
    <3>1. Cardinality(Clear(h.map \cup {c})) \in Nat
      BY ClearFinite
    <3>2. k \in Int /\ k <= n - h.count /\ k <= MaxBlocksNum
          /\ (k = n - h.count \/ k = MaxBlocksNum)
      <4> DEFINE w == n - h.count
      <4>1. w \in Int /\ MaxBlocksNum \in Int
        BY <1>4
      <4> HIDE DEF w
      <4>2. /\ Min({w, MaxBlocksNum}) \in Int /\ Min({w, MaxBlocksNum}) <= w
            /\ Min({w, MaxBlocksNum}) <= MaxBlocksNum
            /\ (Min({w, MaxBlocksNum}) = w \/ Min({w, MaxBlocksNum}) = MaxBlocksNum)
        BY <4>1, MinOfTwo
      <4> QED BY <4>2, Zenon DEF w
    <3> HIDE DEF k
    <3> QED BY <1>4, <1>10, <3>1, <3>2
  <2> HIDE DEF k
  <2>3. t \in Seq(Sector) /\ Len(t) = k /\ Range(t) \subseteq Clear(h.map \cup {c})
    BY <2>2, FirstClearFacts
  <2> HIDE DEF t
  <2>4. /\ b.map = made.map \cup Range(t) /\ b.block = [made.block EXCEPT ![c] = made.block[c] \o t]
        /\ b.count = k /\ b.dead = made.dead
    <3> DEFINE map2 == made.map \cup Range(t)
               block2 == [made.block EXCEPT ![c] = made.block[c] \o t]
    <3>1. b = [made EXCEPT !.map = map2, !.block = block2, !.count = k]
      BY <2>1, Zenon
    <3> HIDE DEF map2, block2
    <3>2. b.map = map2 /\ b.block = block2 /\ b.count = k /\ b.dead = made.dead
      BY <1>2, <3>1 DEF Allocation
    <3> QED BY <3>2 DEF map2, block2
  <2>5. <<>> \o t = t
    BY <2>3
  <2>6. b.block = [h.block EXCEPT ![c] = t]
    BY <1>1, <1>2, <1>4, <1>5, <2>4, <2>5
  <2>7. Range(t) \cap (h.map \cup {c}) = {}
    BY <2>3 DEF Clear
  <2>8. Makes(h, c, t, r)
    BY <1>2, <1>8, <2>4, <2>6, <2>7 DEF Makes
  <2>9. r.count = h.count + Len(t)
    BY <1>8, <2>3, <2>4
  <2> QED BY <1>10, <2>3, <2>8, <2>9 DEF r, k
<1> QED BY <1>9, <1>10

(* Quotient and remainder.                                                    *)
LEMMA Divided ==
  ASSUME NEW x \in Int, NEW m \in Nat \ {0}
  PROVE  /\ x \div m \in Int /\ x % m \in 0 .. m - 1
         /\ x = m * (x \div m) + (x % m)
<1>1. m \in Int /\ m > 0
  OBVIOUS
<1>2. x \div m \in Int
  BY <1>1
<1>3. x % m \in 0 .. m - 1
  BY <1>1
<1>4. x = m * (x \div m) + (x % m)
  BY <1>1
<1> QED BY <1>2, <1>3, <1>4

(* They are the only ones.                                                    *)
LEMMA DividedOnce ==
  ASSUME NEW m \in Nat \ {0}, NEW q \in Int, NEW r \in 0 .. m - 1
  PROVE  (m * q + r) \div m = q /\ (m * q + r) % m = r
<1> DEFINE x == m * q + r
<1>1. x \in Int
  OBVIOUS
<1> HIDE DEF x
<1>2. /\ x \div m \in Int /\ x % m \in 0 .. m - 1
      /\ x = m * (x \div m) + (x % m)
  BY <1>1, Divided
<1>3. x = m * q + r
  BY DEF x
<1>4. x \div m = q
  BY <1>2, <1>3
<1>5. x % m = r
  BY <1>2, <1>3, <1>4
<1> QED BY <1>4, <1>5 DEF x

(* A number smaller than the divisor.                                         *)
LEMMA DividedSmall ==
  ASSUME NEW m \in Nat \ {0}, NEW k \in 0 .. m - 1
  PROVE  k \div m = 0
<1> DEFINE q == 0
<1>1. q \in Int /\ m * q + k = k /\ q = 0
  OBVIOUS
<1> HIDE DEF q
<1>2. (m * q + k) \div m = q
  BY <1>1, DividedOnce
<1> QED BY <1>1, <1>2

(* A list with one more sector.                                               *)
LEMMA AppendRange ==
  ASSUME NEW S, NEW q \in Seq(S), NEW x \in S
  PROVE  /\ Append(q, x) \in Seq(S) /\ Len(Append(q, x)) = Len(q) + 1
         /\ Append(q, x)[Len(q) + 1] = x /\ \A j \in 1 .. Len(q) : Append(q, x)[j] = q[j]
         /\ Range(Append(q, x)) = Range(q) \cup {x}
<1>1. /\ Append(q, x) \in Seq(S) /\ Len(Append(q, x)) = Len(q) + 1
      /\ Append(q, x)[Len(q) + 1] = x /\ \A j \in 1 .. Len(q) : Append(q, x)[j] = q[j]
  OBVIOUS
<1>2. Range(q) = {q[j] : j \in 1 .. Len(q)} /\ Len(q) \in Nat
  BY DEF Range
<1> DEFINE r == Append(q, x)
<1>3. Range(r) = {r[j] : j \in 1 .. Len(q) + 1}
  <2>1. DOMAIN r = 1 .. Len(q) + 1
    BY <1>1, <1>2
  <2> HIDE DEF r
  <2> QED BY <2>1 DEF Range
<1> HIDE DEF r
<1>4. Range(r) = Range(q) \cup {x}
  <2>1. \A j \in 1 .. Len(q) + 1 : j = Len(q) + 1 \/ j \in 1 .. Len(q)
    BY <1>2
  <2>2. \A j \in 1 .. Len(q) : j \in 1 .. Len(q) + 1
    BY <1>2
  <2>3. Len(q) + 1 \in 1 .. Len(q) + 1
    BY <1>2
  <2> QED BY <1>1, <1>2, <1>3, <2>1, <2>2, <2>3 DEF r
<1> QED BY <1>1, <1>4 DEF r

(* The rounds only take sectors that were free, and leave what they found.    *)
LEMMA StemGrows ==
  ASSUME NEW m, NEW b, NEW limit, NEW h \in Going(m, limit), Stem(m, b, h),
         NEW c \in Sector \ h.map, NEW t \in Seq(Sector), NEW r, Makes(h, c, t, r)
  PROVE  /\ Stem(m, b, r) /\ r.block[c] = t /\ c \in Range(r.sectors)
         /\ \A s \in Range(h.sectors) : r.block[s] = h.block[s]
         /\ Len(r.sectors) = Len(h.sectors) + 1 /\ r.sectors[Len(h.sectors) + 1] = c
         /\ \A j \in 1 .. Len(h.sectors) : r.sectors[j] = h.sectors[j]
<1>1. /\ h.block \in [Sector -> Seq(Sector)] /\ h.sectors \in Seq(Sector) /\ m \subseteq h.map
      /\ h.map \in SUBSET Sector
  BY GoingParts
<1>2. /\ Range(r.sectors) = Range(h.sectors) \cup {c}
      /\ Len(r.sectors) = Len(h.sectors) + 1 /\ r.sectors[Len(h.sectors) + 1] = c
      /\ \A j \in 1 .. Len(h.sectors) : r.sectors[j] = h.sectors[j]
  BY <1>1, AppendRange DEF Makes
<1>3. r.block[c] = t /\ \A s \in Sector \ {c} : r.block[s] = h.block[s]
  BY <1>1 DEF Makes
<1>4. Range(h.sectors) \subseteq h.map
  BY DEF Stem
<1>5. \A s \in Range(h.sectors) : r.block[s] = h.block[s]
  BY <1>1, <1>3, <1>4
<1>6. Alike(b, r.block, m)
  BY <1>1, <1>3 DEF Alike, Stem
<1>7. Twig(r.block, Range(r.sectors)) = Twig(h.block, Range(h.sectors)) \cup Range(t)
  BY <1>2, <1>3, <1>5 DEF Twig
<1>8. r.map \ m = (h.map \ m) \cup {c} \cup Range(t)
  BY <1>1 DEF Makes
<1>9. Stem(m, b, r)
  BY <1>2, <1>6, <1>7, <1>8 DEF Stem
<1> QED BY <1>2, <1>3, <1>5, <1>9

(* What was reached is reached when the list of blocks grows.                 *)
LEMMA ReachedStays ==
  ASSUME NEW q \in Seq(Sector), NEW p, NEW b, NEW c, NEW k \in Nat, Reaches(b, q, k),
         \A j \in 1 .. Len(q) : p[j] = q[j] /\ c[p[j]] = b[q[j]], Len(p) \in Nat, Len(q) <= Len(p)
  PROVE  Reaches(c, p, k)
<1> DEFINE a == k \div MaxBlocksNum
<1>1. a \in Nat
  <2>1. \A x \in Nat : x \div MaxBlocksNum \in Nat
    BY DiskFacts
  <2> QED BY <2>1
<1>2. a < Len(q) /\ k % MaxBlocksNum < Len(b[q[a + 1]])
  BY DEF Reaches
<1> HIDE DEF a
<1>3. a + 1 \in 1 .. Len(q) /\ a < Len(p)
  BY <1>1, <1>2
<1>4. c[p[a + 1]] = b[q[a + 1]]
  BY <1>3
<1>5. a < Len(p) /\ k % MaxBlocksNum < Len(c[p[a + 1]])
  BY <1>2, <1>3, <1>4
<1> QED BY <1>5 DEF a, Reaches

(* A round that fills its block has as many sectors more as the block holds.  *)
LEMMA FillingGrows ==
  ASSUME NEW m, NEW b, NEW limit, NEW h \in Going(m, limit), Stem(m, b, h), NEW n \in Nat,
         Filling(n, h), h.count < n, NEW c \in Sector \ h.map, NEW t \in Seq(Sector),
         NEW r, Makes(h, c, t, r), Len(t) = Min({n - h.count, MaxBlocksNum}),
         r.count = h.count + Len(t)
  PROVE  Filling(n, r)
<1> DEFINE L == Len(h.sectors)
           M == MaxBlocksNum
<1>1. h.sectors \in Seq(Sector) /\ L \in Nat /\ M \in Nat \ {0} /\ h.count \in 0 .. n
      /\ h.count = M * L
  BY GoingParts, DiskFacts DEF Filling
<1>2. Len(t) \in Nat /\ Len(t) <= n - h.count /\ Len(t) <= M /\ (Len(t) = n - h.count \/ Len(t) = M)
  <2> DEFINE w == n - h.count
  <2>1. w \in Int /\ M \in Int
    BY <1>1
  <2> HIDE DEF w
  <2>2. /\ Min({w, M}) <= w /\ Min({w, M}) <= M
        /\ (Min({w, M}) = w \/ Min({w, M}) = M)
    BY <2>1, MinOfTwo
  <2> QED BY <2>2 DEF w
<1>3. /\ Stem(m, b, r) /\ r.block[c] = t
      /\ \A s \in Range(h.sectors) : r.block[s] = h.block[s]
      /\ Len(r.sectors) = L + 1 /\ r.sectors[L + 1] = c
      /\ \A j \in 1 .. L : r.sectors[j] = h.sectors[j]
  BY StemGrows
<1> HIDE DEF L, M
<1>4. r.count \in 0 .. n /\ r.count = h.count + Len(t)
  BY <1>1, <1>2
<1>5. r.count < n => r.count = M * Len(r.sectors)
  <2>1. SUFFICES ASSUME r.count < n PROVE r.count = M * Len(r.sectors)
    OBVIOUS
  <2>2. Len(t) = M
    BY <1>1, <1>2, <1>4, <2>1
  <2>3. M * (L + 1) = M * L + M
    BY <1>1
  <2> QED BY <1>1, <1>3, <1>4, <2>2, <2>3
<1>6. ASSUME NEW k \in 0 .. r.count - 1 PROVE Reaches(r.block, r.sectors, k)
  <2>1. CASE k < h.count
    <3>1. k \in 0 .. h.count - 1 /\ k \in Nat
      BY <1>1, <1>4, <2>1
    <3>2. Reaches(h.block, h.sectors, k)
      BY <3>1 DEF Filling
    <3>3. \A j \in 1 .. Len(h.sectors) : r.sectors[j] = h.sectors[j]
                                         /\ r.block[r.sectors[j]] = h.block[h.sectors[j]]
      <4>1. \A j \in 1 .. Len(h.sectors) : h.sectors[j] \in Range(h.sectors)
        BY <1>1 DEF Range
      <4> QED BY <1>3, <4>1 DEF L
    <3>4. Len(r.sectors) \in Nat /\ Len(h.sectors) <= Len(r.sectors)
      BY <1>1, <1>3 DEF L
    <3> QED BY <1>1, <3>1, <3>2, <3>3, <3>4, ReachedStays
  <2>2. CASE ~(k < h.count)
    <3> DEFINE j == k - h.count
    <3>1. j \in 0 .. M - 1 /\ j < Len(t) /\ k = M * L + j
      BY <1>1, <1>2, <1>4, <2>2
    <3> HIDE DEF j
    <3>2. k \div M = L /\ k % M = j
      <4>1. (M * L + j) \div M = L /\ (M * L + j) % M = j
        <5>1. M \in Nat \ {0} /\ L \in Int /\ j \in 0 .. M - 1
          BY <1>1, <3>1
        <5> QED BY <5>1, DividedOnce, Zenon
      <4> QED BY <3>1, <4>1
    <3>3. L < Len(r.sectors)
      BY <1>1, <1>3
    <3>4. r.block[r.sectors[L + 1]] = t
      BY <1>3
    <3>5. k \div MaxBlocksNum = L /\ k % MaxBlocksNum = j
      BY <3>2 DEF M
    <3> QED BY <3>1, <3>3, <3>4, <3>5 DEF Reaches
  <2> QED BY <2>1, <2>2
<1>7. ASSUME r.count = n, 1 <= n, n <= M
      PROVE  Len(r.sectors) = 1 /\ Len(r.block[r.sectors[1]]) = n
  <2>1. L = 0
    <3>1. L >= 1 => M * L >= M
      BY <1>1
    <3> QED BY <1>1, <1>7, <3>1
  <2>2. M * L = 0
    BY <1>1, <2>1
  <2>3. Len(t) = n
    BY <1>1, <1>2, <1>4, <1>7, <2>2
  <2> QED BY <1>3, <2>1, <2>3
<1> QED BY <1>4, <1>5, <1>6, <1>7 DEF Filling, M

(* A round after the end, or after a failure, does nothing.                   *)
LEMMA AskWaits ==
  ASSUME NEW h, NEW n, NEW i, h.dead \/ h.count >= n
  PROVE  Ask(IndirectAllocate, n, h, i) = h /\ Ask(DoubleAllocate, n, h, i) = h
<1>1. Ask(IndirectAllocate, n, h, i) = h
  BY DEF Ask
<1>2. Ask(DoubleAllocate, n, h, i) = h
  BY DEF Ask
<1> QED BY <1>1, <1>2

(* A round that finds no sector.                                              *)
LEMMA Dies ==
  ASSUME NEW m, NEW limit, NEW h \in Going(m, limit)
  PROVE  LET r == [h EXCEPT !.dead = TRUE]
         IN r.map = h.map /\ r.block = h.block /\ r.sectors = h.sectors /\ r.count = h.count
            /\ r.dead = TRUE
<1>1. h \in Allocation
  BY GoingIs
<1> QED BY <1>1 DEF Allocation

(* One round of the loop below a double-indirect block.                       *)
LEMMA FillsOn ==
  ASSUME NEW m, NEW b, NEW h \in Going(m, MaxBlocksNum), NEW i \in 1 .. MaxBlocksNum,
         NEW n \in Nat \ {0}, Fills(m, b, n, h, i - 1)
  PROVE  Fills(m, b, n, Ask(IndirectAllocate, n, h, i), i)
<1> DEFINE r == Ask(IndirectAllocate, n, h, i)
           c == FindClear(h.map)
<1> SUFFICES Fills(m, b, n, r, i)
  OBVIOUS
<1>0. /\ h.map \in SUBSET Sector /\ m \subseteq h.map /\ h.sectors \in Seq(Sector)
      /\ Len(h.sectors) \in Nat /\ h.count \in Int /\ h.dead \in BOOLEAN /\ MaxBlocksNum \in Nat \ {0}
      /\ i \in Int /\ Cardinality(Clear(h.map)) \in Nat
  BY GoingParts, DiskFacts, ClearFinite
<1>1. CASE h.dead \/ h.count >= n
  <2>1. r = h
    BY <1>1, AskWaits
  <2>2. Stem(m, b, h)
    BY DEF Fills
  <2>3. h.dead \/ ~(h.count < n)
    BY <1>0, <1>1
  <2> HIDE DEF r
  <2> QED BY <2>1, <2>2, <2>3 DEF Fills, Starved
<1>2. CASE ~h.dead /\ ~(h.count >= n)
  <2>1. h.count < n /\ ~h.dead /\ Stem(m, b, h)
    BY <1>0, <1>2 DEF Fills
  <2>2. \/ Filling(n, h) /\ Len(h.sectors) = i - 1
        \/ Starved(n, h, i - 1) /\ Tight(m, n, 1)
    BY <2>1 DEF Fills
  <2>3. Len(h.sectors) = i - 1 /\ i > Len(h.sectors)
    BY <1>0, <2>2 DEF Starved
  <2>4. n <= MaxBlocksNum /\ Filling(n, h) => h.map = m /\ i = 1
    <3>1. SUFFICES ASSUME n <= MaxBlocksNum, Filling(n, h) PROVE h.map = m /\ i = 1
      OBVIOUS
    <3>2. h.count = MaxBlocksNum * Len(h.sectors)
      BY <2>1, <3>1 DEF Filling
    <3>3. Len(h.sectors) >= 1 => MaxBlocksNum * Len(h.sectors) >= MaxBlocksNum
      BY <1>0
    <3>4. Len(h.sectors) = 0
      BY <1>0, <2>1, <3>1, <3>2, <3>3
    <3>5. Range(h.sectors) = {}
      BY <1>0, <3>4 DEF Range
    <3>6. h.map \ m = {}
      BY <2>1, <3>5 DEF Stem, Twig
    <3>7. h.map = m
      BY <1>0, <3>6
    <3>8. i = 1
      BY <1>0, <2>3, <3>4
    <3> QED BY <3>7, <3>8
  <2>5. CASE c = NoSector
    <3>1. r = [h EXCEPT !.dead = TRUE]
      BY <2>1, <2>3, <2>5, AskIs
    <3> HIDE DEF r
    <3>2. r.map = h.map /\ r.block = h.block /\ r.sectors = h.sectors /\ r.dead
      BY <3>1, Dies
    <3>3. Stem(m, b, r)
      BY <2>1, <3>2 DEF Stem
    <3>4. Tight(m, n, 1)
      <4>1. Cardinality(Clear(h.map)) = 0
        BY <2>5, NoneClear
      <4>2. n \in Nat /\ 0 < n + 1
        OBVIOUS
      <4> QED BY <2>2, <2>4, <4>1, <4>2 DEF Tight
    <3> QED BY <3>2, <3>3, <3>4 DEF Fills
  <2>6. CASE c # NoSector
    <3>1. c \in Sector \ h.map /\ c \in Clear(h.map)
      BY <2>6, FindClearFacts, NoneClear
    <3>0. c = FindClear(h.map)
      OBVIOUS
    <3> HIDE DEF c
    <3>2. PICK t \in Seq(Sector) :
            /\ Makes(h, c, t, r)
            /\ IF Cardinality(Clear(h.map \cup {c})) < n - h.count
               THEN t = <<>> /\ r.count = h.count - 1
               ELSE /\ Len(t) = Min({n - h.count, MaxBlocksNum})
                    /\ r.count = h.count + Len(t)
      BY <2>1, <2>3, <2>6, <3>0, AskNewIndirect
    <3> HIDE DEF r
    <3>3. /\ Stem(m, b, r) /\ r.block[c] = t /\ c \in Range(r.sectors)
          /\ Len(r.sectors) = i
      BY <1>0, <2>1, <2>3, <3>1, <3>2, StemGrows
    <3>4. r.map = h.map \cup {c} \cup Range(t) /\ ~r.dead
      BY <3>2 DEF Makes
    <3>5. Cardinality(Clear(h.map \cup {c})) = Cardinality(Clear(h.map)) - 1
      BY <3>1, ClearShrinks
    <3>6. CASE Cardinality(Clear(h.map \cup {c})) < n - h.count
      <4>1. t = <<>> /\ r.count = h.count - 1
        BY <3>2, <3>6
      <4>2. r.map = h.map \cup {c}
        BY <3>4, <4>1 DEF Range
      <4>3. r.count < n /\ Cardinality(Clear(r.map)) < n - r.count
        BY <1>0, <2>1, <3>5, <3>6, <4>1, <4>2
      <4>4. \E s \in Range(r.sectors) : r.block[s] = <<>>
        BY <3>3, <4>1
      <4>5. ASSUME n = 1 PROVE i = 1 /\ Clear(r.map) = {}
        <5>1. Filling(n, h)
          <6>1. Starved(n, h, i - 1) => Clear(h.map) = {}
            BY <4>5 DEF Starved
          <6> QED BY <2>2, <3>1, <6>1
        <5>2. i = 1 /\ h.count = 0
          <6>1. n <= MaxBlocksNum /\ h.count \in 0 .. n
            BY <1>0, <4>5, <5>1 DEF Filling
          <6> QED BY <2>1, <2>4, <4>5, <5>1, <6>1
        <5>3. Cardinality(Clear(r.map)) = 0
          <6>1. Cardinality(Clear(r.map)) \in Nat
            BY ClearFinite
          <6>2. Cardinality(Clear(r.map)) < 1
            BY <3>6, <4>2, <4>5, <5>2
          <6> QED BY <6>1, <6>2
        <5> QED BY <5>2, <5>3, NoneClear
      <4>6. Starved(n, r, i)
        BY <3>3, <4>3, <4>4, <4>5 DEF Starved
      <4>7. Tight(m, n, 1)
        <5>1. SUFFICES ASSUME n <= MaxBlocksNum, Filling(n, h) PROVE Cardinality(Clear(m)) < n + 1
          BY <2>2 DEF Tight
        <5>2. h.map = m /\ h.count \in 0 .. n
          BY <2>4, <5>1 DEF Filling
        <5> QED BY <1>0, <3>5, <3>6, <5>2
      <4> QED BY <3>3, <3>4, <4>6, <4>7 DEF Fills
    <3>7. CASE ~(Cardinality(Clear(h.map \cup {c})) < n - h.count)
      <4>1. Filling(n, h)
        <5>1. ~Starved(n, h, i - 1)
          BY <1>0, <3>5, <3>7 DEF Starved
        <5> QED BY <2>2, <5>1
      <4>2. Len(t) = Min({n - h.count, MaxBlocksNum}) /\ r.count = h.count + Len(t)
        BY <3>2, <3>7
      <4>3. Filling(n, r)
        BY <2>1, <3>1, <3>2, <4>1, <4>2, FillingGrows
      <4> QED BY <3>3, <3>4, <4>3 DEF Fills
    <3> QED BY <3>6, <3>7
  <2> QED BY <2>5, <2>6
<1> QED BY <1>1, <1>2

(* A block of pointers to blocks of pointers reaches every sector of the      *)
(* disk.                                                                      *)
LEMMA BlocksReachDisk ==
  /\ MaxBlocksNum \in Nat /\ MaxBlocksNum > 3 /\ NumDirect \in Nat /\ NumDirect > 1
  /\ NumDirect = MaxBlocksNum - 2 /\ MaxBlocksNum = SectorSize
  /\ \A map : Cardinality(Clear(map)) <= MaxBlocksNum * MaxBlocksNum
<1>1. /\ NumSectors \in Nat /\ SectorSize \in Nat /\ SectorSize > 3
      /\ NumSectors <= MaxBlocksNum * MaxBlocksNum
  BY DiskAssumption
<1>2. MaxBlocksNum = SectorSize /\ NumDirect = SectorSize - 2
  BY <1>1 DEF MaxBlocksNum, NumDirect, IntSize
<1>3. IsFiniteSet(Sector) /\ Cardinality(Sector) = NumSectors
  <2>1. Cardinality(0 .. NumSectors - 1) = IF 0 > NumSectors - 1 THEN 0 ELSE (NumSectors - 1) - 0 + 1
    BY <1>1, FS_Interval
  <2>2. NumSectors > 0
    BY DiskFacts
  <2> QED BY <1>1, <2>1, <2>2, DiskFacts DEF Sector
<1>4. ASSUME NEW map PROVE Cardinality(Clear(map)) <= MaxBlocksNum * MaxBlocksNum
  <2>1. Cardinality(Clear(map)) <= Cardinality(Sector)
    BY <1>3, ClearFinite, FS_Subset
  <2> DEFINE mm == MaxBlocksNum * MaxBlocksNum
  <2>2. mm \in Int /\ Cardinality(Clear(map)) \in Nat
    BY <1>1, <1>2, ClearFinite
  <2>3. NumSectors <= mm
    BY <1>1
  <2> HIDE DEF mm
  <2>4. Cardinality(Clear(map)) <= mm
    BY <1>1, <1>3, <2>1, <2>2, <2>3
  <2> QED BY <2>4 DEF mm
<1>5. MaxBlocksNum \in Nat /\ MaxBlocksNum > 3 /\ NumDirect \in Nat /\ NumDirect > 1
      /\ NumDirect = MaxBlocksNum - 2
  BY <1>1, <1>2
<1> QED BY <1>2, <1>4, <1>5

(* All the rounds below a new double-indirect block.                          *)
LEMMA BelowNew ==
  ASSUME NEW map, NEW limit, NEW h \in Going(map, limit), NEW c \in Sector \ h.map, ~h.dead,
         NEW n \in Nat \ {0}, ~(Cardinality(Clear(h.map \cup {c})) < n)
  PROVE  \E g \in Going(h.map \cup {c}, MaxBlocksNum) :
           /\ Fills(h.map \cup {c}, Made(h, c).block, n, g, MaxBlocksNum)
           /\ DoubleAllocate(Made(h, c), c, n) = Filled(g, c)
<1> DEFINE m1 == h.map \cup {c}
           b1 == Made(h, c).block
           S == Going(m1, MaxBlocksNum)
           start == [Made(h, c) EXCEPT !.sectors = Made(h, c).block[c], !.count = 0]
<1>1. /\ Made(h, c).map = h.map \cup {c} /\ Made(h, c).block = [h.block EXCEPT ![c] = <<>>]
      /\ Made(h, c).count = h.count /\ Made(h, c).dead = h.dead /\ Made(h, c) \in Allocation
  BY MadeNew
<1>2. h.block \in [Sector -> Seq(Sector)] /\ BlocksFit(h.block) /\ h.map \in SUBSET Sector
      /\ MaxBlocksNum \in Nat \ {0}
  BY GoingParts, DiskFacts
<1>3. Made(h, c).block[c] = <<>>
  BY <1>1, <1>2
<1>4. /\ start.map = m1 /\ start.block = b1 /\ start.sectors = <<>> /\ start.count = 0
      /\ start.dead = FALSE /\ start \in Allocation
  <2> DEFINE none == <<>>
             zero == 0
  <2>1. start = [Made(h, c) EXCEPT !.sectors = none, !.count = zero]
    BY <1>3, Zenon
  <2>2. none \in Seq(Sector) /\ zero \in Int
    OBVIOUS
  <2> HIDE DEF none, zero, start
  <2>3. /\ start.map = Made(h, c).map /\ start.block = Made(h, c).block /\ start.sectors = none
        /\ start.count = zero /\ start.dead = Made(h, c).dead /\ start \in Allocation
    BY <1>1, <2>1, <2>2 DEF Allocation
  <2>4. h.dead = FALSE
    BY GoingParts
  <2> QED BY <1>1, <2>3, <2>4 DEF none, zero
<1>5. BlocksFit(b1)
  <2>1. Len(<<>>) = 0
    OBVIOUS
  <2> QED BY <1>1, <1>2, <2>1 DEF BlocksFit
<1>6. start \in S
  <2> HIDE DEF start, b1, m1
  <2>1. Len(start.sectors) <= MaxBlocksNum
    BY <1>2, <1>4
  <2> QED BY <1>4, <1>5, <2>1, GoingIs
<1>7. Fills(m1, b1, n, start, 0)
  <2> HIDE DEF start, b1, m1
  <2>1. Range(<<>>) = {} /\ Len(<<>>) = 0
    BY DEF Range
  <2>2. Stem(m1, b1, start)
    BY <1>4, <2>1 DEF Stem, Alike, Twig
  <2>3. Filling(n, start)
    <3>1. 0 \in 0 .. n /\ 0 .. 0 - 1 = {} /\ MaxBlocksNum * 0 = 0 /\ 0 # n
      BY <1>2
    <3> QED BY <1>4, <2>1, <3>1 DEF Filling
  <2> QED BY <1>4, <2>1, <2>2, <2>3 DEF Fills
<1>8. DoubleAllocate(Made(h, c), c, n)
        = Filled(IndirectBelow(start, MaxBlocksNum, n), c)
  BY <1>1 DEF DoubleAllocate, IndirectBelow
<1> HIDE DEF start
<1>9. PICK f \in [0 .. MaxBlocksNum -> S] :
        /\ f[0] = start
        /\ \A i \in 1 .. MaxBlocksNum : f[i] = IndirectTurn(n, f[i - 1], i)
        /\ IndirectBelow(start, MaxBlocksNum, n) = f[MaxBlocksNum]
  <2>1. IndirectStays(S, MaxBlocksNum, n)
    BY <1>2, AskIndirect DEF IndirectTurn, IndirectStays
  <2> HIDE DEF S
  <2>2. MaxBlocksNum \in Nat
    BY <1>2
  <2>3. IndirectRun(S, start, MaxBlocksNum, n)
    BY <1>6, <2>1, <2>2, IndirectRounds
  <2> QED BY <2>3 DEF IndirectRun
<1> HIDE DEF m1, b1
<1> DEFINE P == {i \in 0 .. MaxBlocksNum : Fills(m1, b1, n, f[i], i)}
<1>10. \A i \in 0 .. MaxBlocksNum : i \in P
  <2>1. P \in SUBSET Nat /\ 0 \in P
    BY <1>2, <1>7, <1>9
  <2>2. ASSUME NEW i \in 1 .. MaxBlocksNum, i - 1 \in P PROVE i \in P
    <3>1. i - 1 \in 0 .. MaxBlocksNum /\ i \in 0 .. MaxBlocksNum
      BY <1>2
    <3>2. f[i - 1] \in Going(m1, MaxBlocksNum) /\ Fills(m1, b1, n, f[i - 1], i - 1)
      BY <1>9, <2>2, <3>1
    <3>3. Fills(m1, b1, n, IndirectTurn(n, f[i - 1], i), i)
      BY <3>2, FillsOn DEF IndirectTurn
    <3> QED BY <1>9, <3>1, <3>3
  <2> HIDE DEF P
  <2> QED BY <1>2, <2>1, <2>2, IndexedRounds
<1>11. MaxBlocksNum \in 0 .. MaxBlocksNum
  BY <1>2
<1>12. Fills(m1, b1, n, f[MaxBlocksNum], MaxBlocksNum) /\ f[MaxBlocksNum] \in S
  BY <1>9, <1>10, <1>11
<1> QED BY <1>8, <1>9, <1>12 DEF m1, b1

(* The fields of a block that was filled.                                     *)
LEMMA FilledFields ==
  ASSUME NEW g \in Allocation, NEW c \in Sector
  PROVE  /\ Filled(g, c).map = g.map /\ Filled(g, c).count = g.count /\ Filled(g, c).dead = g.dead
         /\ Filled(g, c).block = IF g.dead THEN g.block ELSE [g.block EXCEPT ![c] = g.sectors]
<1> DEFINE block2 == [g.block EXCEPT ![c] = g.sectors]
           r == [g EXCEPT !.block = block2]
<1>1. Filled(g, c) = IF g.dead THEN g ELSE r
  BY Zenon DEF Filled
<1> HIDE DEF block2
<1>2. r.map = g.map /\ r.count = g.count /\ r.dead = g.dead /\ r.block = block2
  BY DEF Allocation
<1> HIDE DEF r
<1> QED BY <1>1, <1>2 DEF block2

(* A round that makes a double-indirect block.                                *)
LEMMA AskNewDouble ==
  ASSUME NEW map, NEW limit, NEW h \in Going(map, limit), NEW n \in Nat, NEW i,
         i > Len(h.sectors), ~h.dead, h.count < n, NEW c, c = FindClear(h.map), c # NoSector
  PROVE  IF Cardinality(Clear(h.map \cup {c})) < n - h.count
         THEN /\ Makes(h, c, <<>>, Ask(DoubleAllocate, n, h, i))
              /\ Ask(DoubleAllocate, n, h, i).count = h.count - 1
         ELSE \E g \in Going(h.map \cup {c}, MaxBlocksNum) :
                /\ Fills(h.map \cup {c}, [h.block EXCEPT ![c] = <<>>], n - h.count, g, MaxBlocksNum)
                /\ Plants(h, c, g, Ask(DoubleAllocate, n, h, i))
<1> DEFINE made == Made(h, c)
           k == n - h.count
           b == DoubleAllocate(made, c, k)
           r == Ask(DoubleAllocate, n, h, i)
<1>1. c \in Sector /\ c \notin h.map
  BY FindClearFacts
<1>2. /\ made.map = h.map \cup {c} /\ made.block = [h.block EXCEPT ![c] = <<>>]
      /\ made.sectors = Append(h.sectors, c) /\ made.count = h.count
      /\ made.dead = h.dead /\ made \in Allocation
  BY <1>1, MadeNew
<1>3. r = Joined(made, b)
  BY AskIs
<1>4. h.count \in Int /\ k \in Nat \ {0}
  <2>1. h.count \in Int
    BY GoingParts
  <2> QED BY <2>1
<1>5. /\ r.map = b.map /\ r.block = b.block /\ r.count = h.count + b.count /\ r.dead = b.dead
      /\ r.sectors = Append(h.sectors, c)
  BY <1>2, <1>3, JoinedFields
<1>6. CASE Cardinality(Clear(h.map \cup {c})) < k
  <2>1. b = [made EXCEPT !.count = -1]
    BY <1>2, <1>6 DEF DoubleAllocate
  <2> HIDE DEF b, r, made
  <2>2. b.map = made.map /\ b.block = made.block /\ b.count = -1 /\ b.dead = made.dead
    BY <1>2, <2>1 DEF Allocation
  <2>3. Range(<<>>) = {}
    BY DEF Range
  <2>4. Makes(h, c, <<>>, r)
    BY <1>2, <1>5, <2>2, <2>3 DEF Makes
  <2>5. r.count = h.count - 1
    BY <1>4, <1>5, <2>2
  <2> QED BY <1>6, <2>4, <2>5 DEF r
<1>7. CASE ~(Cardinality(Clear(h.map \cup {c})) < k)
  <2> HIDE DEF k, r
  <2>1. PICK g \in Going(h.map \cup {c}, MaxBlocksNum) :
          /\ Fills(h.map \cup {c}, made.block, k, g, MaxBlocksNum)
          /\ b = Filled(g, c)
    <3>1. c \in Sector \ h.map /\ k \in Nat \ {0} /\ ~(Cardinality(Clear(h.map \cup {c})) < k)
      BY <1>1, <1>4, <1>7
    <3>2. \E g \in Going(h.map \cup {c}, MaxBlocksNum) :
            /\ Fills(h.map \cup {c}, Made(h, c).block, k, g, MaxBlocksNum)
            /\ DoubleAllocate(Made(h, c), c, k) = Filled(g, c)
      BY ONLY <3>1, BelowNew, h \in Going(map, limit), ~h.dead
    <3> QED BY <3>2
  <2>2. g \in Allocation
    BY GoingIs
  <2> HIDE DEF b, made
  <2>3. Plants(h, c, g, r)
    <3>1. /\ b.map = g.map /\ b.count = g.count /\ b.dead = g.dead
          /\ b.block = IF g.dead THEN g.block ELSE [g.block EXCEPT ![c] = g.sectors]
      BY <1>1, <2>1, <2>2, FilledFields
    <3> QED BY <1>5, <3>1 DEF Plants
  <2>4. Fills(h.map \cup {c}, [h.block EXCEPT ![c] = <<>>], k, g, MaxBlocksNum)
    BY <1>2, <2>1
  <2> QED BY <1>7, <2>3, <2>4 DEF r, k
<1> QED BY <1>6, <1>7

(* A list of one sector.                                                      *)
LEMMA OneSector ==
  ASSUME NEW S, NEW c \in S
  PROVE  /\ Append(<<>>, c) = <<c>> /\ <<c>> \in Seq(S) /\ Len(<<c>>) = 1 /\ <<c>>[1] = c
         /\ Range(<<c>>) = {c}
<1>1. Append(<<>>, c) = <<c>> /\ <<c>> \in Seq(S) /\ Len(<<c>>) = 1 /\ <<c>>[1] = c
  OBVIOUS
<1>2. Range(<<c>>) = {c}
  <2>1. DOMAIN <<c>> = {1}
    OBVIOUS
  <2> QED BY <1>1, <2>1 DEF Range
<1> QED BY <1>1, <1>2

(* The first double-indirect block and all that was made below it.            *)
LEMMA PlantedFirst ==
  ASSUME NEW m, NEW b, NEW h \in Going(m, NumDirect), Starting(m, b, h), NEW c \in Sector \ m,
         NEW g \in Going(m \cup {c}, MaxBlocksNum), Stem(m \cup {c}, [b EXCEPT ![c] = <<>>], g),
         ~g.dead, NEW r, Plants(h, c, g, r)
  PROVE  /\ Alike(b, r.block, m) /\ r.sectors = <<c>> /\ r.block[c] = g.sectors
         /\ \A s \in Range(g.sectors) : r.block[s] = g.block[s] /\ s # c
         /\ Branches(m, r)
<1>1. /\ g.block \in [Sector -> Seq(Sector)] /\ g.sectors \in Seq(Sector) /\ m \cup {c} \subseteq g.map
      /\ g.map \in SUBSET Sector /\ b \in [Sector -> Seq(Sector)] /\ m \in SUBSET Sector
  BY GoingParts DEF Starting
<1>2. r.sectors = <<c>> /\ r.map = g.map /\ r.block = [g.block EXCEPT ![c] = g.sectors]
  BY OneSector DEF Plants, Starting
<1>3. r.block[c] = g.sectors /\ \A s \in Sector \ {c} : r.block[s] = g.block[s]
  BY <1>1, <1>2
<1>4. Alike(b, r.block, m)
  <2>1. \A s \in m : s \in Sector /\ s # c
    BY <1>1
  <2>2. \A s \in m : g.block[s] = [b EXCEPT ![c] = <<>>][s]
    BY DEF Stem, Alike
  <2>3. \A s \in m : [b EXCEPT ![c] = <<>>][s] = b[s]
    BY <1>1, <2>1
  <2> QED BY <1>3, <2>1, <2>2, <2>3 DEF Alike
<1>5. g.map \ (m \cup {c}) = Range(g.sectors) \cup Twig(g.block, Range(g.sectors))
  BY DEF Stem
<1>6. \A s \in Range(g.sectors) : r.block[s] = g.block[s] /\ s # c
  BY <1>1, <1>3, <1>5
<1>7. r.map \ m = {c} \cup Range(g.sectors) \cup Twig(g.block, Range(g.sectors))
  BY <1>1, <1>2, <1>5
<1>8. Twig(r.block, Range(g.sectors)) = Twig(g.block, Range(g.sectors))
  BY <1>6 DEF Twig
<1>9. Range(r.sectors) = {c}
  BY <1>2, OneSector
<1>10. Twig(r.block, {c}) = Range(g.sectors)
  BY <1>3 DEF Twig
<1>11. Index(r.block, r.sectors) = {c} \cup Range(g.sectors)
  BY <1>9, <1>10 DEF Index
<1>12. Twig(r.block, {c} \cup Range(g.sectors)) = Range(g.sectors) \cup Twig(g.block, Range(g.sectors))
  <2>1. Twig(r.block, {c} \cup Range(g.sectors)) = Twig(r.block, {c}) \cup Twig(r.block, Range(g.sectors))
    BY DEF Twig
  <2> QED BY <1>8, <1>10, <2>1
<1>13. Branches(m, r)
  BY <1>7, <1>11, <1>12 DEF Branches, Tree
<1> QED BY <1>2, <1>3, <1>4, <1>6, <1>13

(* An empty block more.                                                       *)
LEMMA GrownTree ==
  ASSUME NEW m, NEW limit, NEW h \in Going(m, limit), Branches(m, h),
         NEW c \in Sector \ h.map, NEW r, Makes(h, c, <<>>, r)
  PROVE  /\ Branches(m, r) /\ r.map = h.map \cup {c}
         /\ r.block[c] = <<>> /\ \A s \in Tree(h.block, h.sectors) \cup m : r.block[s] = h.block[s]
<1>1. /\ h.block \in [Sector -> Seq(Sector)] /\ h.sectors \in Seq(Sector) /\ m \subseteq h.map
      /\ h.map \in SUBSET Sector
  BY GoingParts
<1>2. Range(<<>>) = {}
  BY DEF Range
<1>3. r.map = h.map \cup {c} /\ r.block = [h.block EXCEPT ![c] = <<>>]
      /\ Range(r.sectors) = Range(h.sectors) \cup {c}
  BY <1>1, <1>2, AppendRange DEF Makes
<1>4. r.block[c] = <<>> /\ \A s \in Sector \ {c} : r.block[s] = h.block[s]
  BY <1>1, <1>3
<1>5. Tree(h.block, h.sectors) \subseteq h.map
  BY DEF Branches
<1>6. \A s \in Tree(h.block, h.sectors) \cup m : r.block[s] = h.block[s]
  BY <1>1, <1>4, <1>5
<1> DEFINE q == Range(h.sectors)
           x == Index(h.block, h.sectors)
<1>7. q \subseteq x /\ x \subseteq Tree(h.block, h.sectors)
  BY DEF Index, Tree
<1>8. Twig(r.block, q) = Twig(h.block, q) /\ Twig(r.block, x) = Twig(h.block, x) /\ Twig(r.block, {c}) = {}
  <2> HIDE DEF q, x
  <2>1. Twig(r.block, q) = Twig(h.block, q)
    BY <1>6, <1>7 DEF Twig
  <2>2. Twig(r.block, x) = Twig(h.block, x)
    BY <1>6, <1>7 DEF Twig
  <2>3. Twig(r.block, {c}) = {}
    BY <1>2, <1>4 DEF Twig
  <2> QED BY <2>1, <2>2, <2>3
<1>9. Index(r.block, r.sectors) = x \cup {c}
  <2>1. Twig(r.block, q \cup {c}) = Twig(r.block, q) \cup Twig(r.block, {c})
    BY DEF Twig
  <2> QED BY <1>3, <1>8, <2>1 DEF Index
<1>10. Twig(r.block, x \cup {c}) = Twig(h.block, x)
  <2>1. Twig(r.block, x \cup {c}) = Twig(r.block, x) \cup Twig(r.block, {c})
    BY DEF Twig
  <2> QED BY <1>8, <2>1
<1>11. Tree(r.block, r.sectors) = Tree(h.block, h.sectors) \cup {c}
  BY <1>9, <1>10 DEF Tree
<1>12. r.map \ m = (h.map \ m) \cup {c}
  BY <1>1, <1>3
<1> QED BY <1>3, <1>4, <1>6, <1>11, <1>12 DEF Branches

(* In the first round the new block takes all, or the sectors run out. *)
LEMMA FirstSprout ==
  ASSUME NEW m, NEW b, NEW h \in Going(m, NumDirect), Starting(m, b, h), NEW n \in Nat \ {0}
  PROVE  Sprouts(m, b, n, Ask(DoubleAllocate, n, h, 1), 1)
<1> DEFINE r == Ask(DoubleAllocate, n, h, 1)
           c == FindClear(m)
<1> SUFFICES Sprouts(m, b, n, r, 1)
  OBVIOUS
<1>1. /\ h.map = m /\ h.block = b /\ h.sectors = <<>> /\ h.count = 0 /\ ~h.dead
      /\ m \in SUBSET Sector /\ b \in [Sector -> Seq(Sector)] /\ 1 > Len(h.sectors) /\ h.count < n
  BY GoingParts DEF Starting
<1>2. Cardinality(Clear(m)) \in Nat /\ MaxBlocksNum \in Nat /\ MaxBlocksNum > 3
      /\ n - h.count = n
  BY <1>1, ClearFinite, BlocksReachDisk
<1>3. CASE c = NoSector
  <2>1. r = [h EXCEPT !.dead = TRUE]
    BY <1>1, <1>3, AskIs
  <2> HIDE DEF r
  <2>2. r.block = h.block /\ r.dead
    BY <2>1, Dies
  <2>3. Cardinality(Clear(m)) = 0
    BY <1>3, NoneClear
  <2>4. Tight(m, n, 2)
    BY <2>3 DEF Tight
  <2>5. Alike(b, r.block, m)
    BY <1>1, <2>2 DEF Alike
  <2> QED BY <2>2, <2>4, <2>5 DEF Sprouts
<1>4. CASE c # NoSector
  <2>1. c \in Sector \ m /\ c \in Clear(m)
    BY <1>1, <1>4, NoneClear DEF Clear
  <2>2. Cardinality(Clear(m \cup {c})) = Cardinality(Clear(m)) - 1
    BY <2>1, ClearShrinks
  <2>3. IF Cardinality(Clear(m \cup {c})) < n
        THEN Makes(h, c, <<>>, r) /\ r.count = h.count - 1
        ELSE \E g \in Going(m \cup {c}, MaxBlocksNum) :
                /\ Fills(m \cup {c}, [b EXCEPT ![c] = <<>>], n, g, MaxBlocksNum)
                /\ Plants(h, c, g, r)
    <3>0. c = FindClear(h.map)
      BY <1>1
    <3> HIDE DEF c, r
    <3>1. IF Cardinality(Clear(h.map \cup {c})) < n - h.count
          THEN Makes(h, c, <<>>, r) /\ r.count = h.count - 1
          ELSE \E g \in Going(h.map \cup {c}, MaxBlocksNum) :
                  /\ Fills(h.map \cup {c}, [h.block EXCEPT ![c] = <<>>], n - h.count, g, MaxBlocksNum)
                  /\ Plants(h, c, g, r)
      BY <1>1, <1>4, <3>0, AskNewDouble DEF r
    <3> QED BY <1>1, <1>2, <3>1
  <2> HIDE DEF r
  <2>4. c = FindClear(m)
    OBVIOUS
  <2> HIDE DEF c
  <2>5. CASE Cardinality(Clear(m \cup {c})) < n
    <3>1. Makes(h, c, <<>>, r) /\ r.count = -1
      BY <1>1, <2>3, <2>5
    <3>2. Branches(m, h)
      <4>1. Range(<<>>) = {}
        BY DEF Range
      <4> QED BY <1>1, <4>1 DEF Branches, Tree, Index, Twig
    <3>3. Branches(m, r) /\ r.map = m \cup {c} /\ r.block[c] = <<>> /\ \A s \in m : r.block[s] = b[s]
      BY <1>1, <2>1, <3>1, <3>2, GrownTree
    <3>4. r.sectors = <<c>> /\ ~r.dead
      BY <1>1, <3>1 DEF Makes
    <3>5. Len(r.sectors) = 1 /\ r.sectors[1] = c
      BY <3>4
    <3>6. Gap(r.block, r.sectors)
      BY <3>3, <3>5 DEF Gap
    <3>7. n = 1 => Clear(r.map) = {}
      <4>1. n = 1 => Cardinality(Clear(r.map)) = 0
        BY <1>2, <2>2, <2>5, <3>3, ClearFinite
      <4> QED BY <4>1, NoneClear
    <3>8. Wanting(n, r, 1)
      <4>1. r.count < n /\ Cardinality(Clear(r.map)) < n - r.count
        BY <1>2, <2>2, <2>5, <3>1, <3>3
      <4> QED BY <3>5, <3>6, <3>7, <4>1 DEF Wanting
    <3>9. Tight(m, n, 2)
      BY <1>2, <2>2, <2>5 DEF Tight
    <3> QED BY <2>4, <3>3, <3>4, <3>5, <3>8, <3>9 DEF Sprouts, Alike
  <2>6. CASE ~(Cardinality(Clear(m \cup {c})) < n)
    <3>1. PICK g \in Going(m \cup {c}, MaxBlocksNum) :
                /\ Fills(m \cup {c}, [b EXCEPT ![c] = <<>>], n, g, MaxBlocksNum)
                /\ Plants(h, c, g, r)
      BY <2>3, <2>6
    <3>2. r.dead = g.dead /\ r.count = g.count /\ r.map = g.map /\ g.count \in Int
          /\ Len(g.sectors) \in Nat /\ g.block \in [Sector -> Seq(Sector)]
          /\ g.sectors \in Seq(Sector)
      <4>1. g.count \in Int /\ Len(g.sectors) \in Nat /\ g.block \in [Sector -> Seq(Sector)]
            /\ g.sectors \in Seq(Sector)
        BY GoingParts
      <4> QED BY <1>1, <3>1, <4>1 DEF Plants
    <3>3. Stem(m \cup {c}, [b EXCEPT ![c] = <<>>], g)
      BY <3>1 DEF Fills
    <3>4. Tight(m \cup {c}, n, 1) => Tight(m, n, 2)
      BY <1>2, <2>2 DEF Tight
    <3>5. CASE g.dead
      <4>1. r.block = g.block
        BY <3>1, <3>5 DEF Plants
      <4>2. \A s \in m : [b EXCEPT ![c] = <<>>][s] = b[s]
        BY <1>1, <2>1
      <4>3. Alike(b, r.block, m)
        BY <3>3, <4>1, <4>2 DEF Stem, Alike
      <4>4. Tight(m, n, 2)
        BY <3>1, <3>4, <3>5 DEF Fills
      <4> QED BY <3>2, <3>5, <4>3, <4>4 DEF Sprouts
    <3>6. CASE ~g.dead
      <4>1. /\ Alike(b, r.block, m) /\ r.sectors = <<c>> /\ r.block[c] = g.sectors
            /\ \A s \in Range(g.sectors) : r.block[s] = g.block[s] /\ s # c
            /\ Branches(m, r)
        BY <2>1, <3>1, <3>3, <3>6, PlantedFirst
      <4>2. Len(r.sectors) = 1 /\ r.sectors[1] = c /\ r.block[r.sectors[1]] = g.sectors
        BY <4>1
      <4>3. \A j \in 1 .. Len(g.sectors) : r.block[g.sectors[j]] = g.block[g.sectors[j]]
        <5>1. \A j \in 1 .. Len(g.sectors) : g.sectors[j] \in Range(g.sectors)
          BY <3>2 DEF Range
        <5> QED BY <4>1, <5>1
      <4>4. CASE Filling(n, g) /\ (g.count < n => Len(g.sectors) = MaxBlocksNum)
        <5>1. ~(g.count < n)
          <6> DEFINE mm == MaxBlocksNum * MaxBlocksNum
          <6>1. g.count < n => g.count = mm
            BY <4>4 DEF Filling
          <6>2. Cardinality(Clear(m \cup {c})) <= mm /\ Cardinality(Clear(m \cup {c})) \in Nat
            BY BlocksReachDisk, ClearFinite
          <6>3. mm \in Int
            BY <1>2
          <6> HIDE DEF mm
          <6> QED BY <2>6, <3>2, <6>1, <6>2, <6>3
        <5>2. g.count = n
          BY <3>2, <4>4, <5>1 DEF Filling
        <5>3. \A k \in 0 .. n - 1 : Reaches(r.block, g.sectors, k)
          <6>1. ASSUME NEW k \in 0 .. n - 1 PROVE Reaches(r.block, g.sectors, k)
            <7>1. Reaches(g.block, g.sectors, k) /\ k \in Nat
              BY <4>4, <5>2 DEF Filling
            <7>2. /\ \A j \in 1 .. Len(g.sectors) : g.sectors[j] = g.sectors[j]
                                         /\ r.block[g.sectors[j]] = g.block[g.sectors[j]]
                  /\ Len(g.sectors) \in Nat /\ Len(g.sectors) <= Len(g.sectors)
                  /\ g.sectors \in Seq(Sector)
              BY <3>2, <4>3
            <7> QED BY ONLY <7>1, <7>2, ReachedStays
          <6> QED BY <6>1
        <5>4. n <= MaxBlocksNum => Len(g.sectors) = 1 /\ Len(r.block[g.sectors[1]]) = n
          BY <4>3, <4>4, <5>2 DEF Filling
        <5>5. Whole(n, r.block, r.sectors)
          <6>1. r.sectors[1] \notin Range(r.block[r.sectors[1]])
            BY <4>1, <4>2
          <6> QED BY <4>2, <5>3, <5>4, <6>1 DEF Whole
        <5> QED BY <2>4, <3>2, <3>6, <4>1, <4>2, <5>1, <5>5 DEF Sprouts
      <4>5. CASE Starved(n, g, MaxBlocksNum) /\ Tight(m \cup {c}, n, 1)
        <5>1. \E s \in Range(g.sectors) : r.block[s] = <<>>
          BY <4>1, <4>5 DEF Starved
        <5>2. Gap(r.block, r.sectors)
          <6>1. \E s \in {r.sectors[1]} \cup Range(r.block[r.sectors[1]]) : r.block[s] = <<>>
            BY <4>2, <5>1
          <6>2. 2 .. Len(r.sectors) = {}
            BY <4>2
          <6> QED BY <4>2, <6>1, <6>2 DEF Gap
        <5>3. n # 1
          BY <1>2, <4>5 DEF Starved
        <5>4. Wanting(n, r, 1)
          BY <3>2, <4>2, <4>5, <5>2, <5>3 DEF Wanting, Starved
        <5> QED BY <2>4, <3>2, <3>4, <3>6, <4>1, <4>2, <4>5, <5>4 DEF Sprouts
      <4> QED BY <3>1, <3>6, <4>4, <4>5 DEF Fills
    <3> QED BY <3>5, <3>6
  <2> QED BY <2>5, <2>6
<1> QED BY <1>3, <1>4

(* The rounds after it only make empty blocks, until no sector is free. *)
LEMMA LaterSprouts ==
  ASSUME NEW m, NEW b, NEW h \in Going(m, NumDirect), NEW n \in Nat \ {0},
         NEW i \in 2 .. NumDirect, Sprouts(m, b, n, h, i - 1)
  PROVE  Sprouts(m, b, n, Ask(DoubleAllocate, n, h, i), i)
<1> DEFINE r == Ask(DoubleAllocate, n, h, i)
           c == FindClear(h.map)
<1> SUFFICES Sprouts(m, b, n, r, i)
  OBVIOUS
<1>1. /\ h.map \in SUBSET Sector /\ h.block \in [Sector -> Seq(Sector)] /\ h.sectors \in Seq(Sector)
      /\ Len(h.sectors) \in Nat /\ h.count \in Int /\ m \subseteq h.map
      /\ Cardinality(Clear(h.map)) \in Nat /\ i \in Int /\ i >= 2
  BY GoingParts, ClearFinite, BlocksReachDisk
<1>2. CASE h.dead \/ h.count >= n
  <2>1. r = h
    BY <1>2, AskWaits
  <2>2. ~(h.count < n) \/ h.dead
    BY <1>1, <1>2
  <2> HIDE DEF r
  <2> QED BY <2>1, <2>2 DEF Sprouts, Wanting
<1>3. CASE ~h.dead /\ ~(h.count >= n)
  <2>1. /\ Alike(b, h.block, m) /\ ~h.dead /\ Branches(m, h) /\ h.sectors[1] = FindClear(m)
        /\ Wanting(n, h, i - 1) /\ Tight(m, n, 2)
    BY <1>3 DEF Sprouts
  <2>2. h.count < n /\ Cardinality(Clear(h.map)) < n - h.count /\ Len(h.sectors) = i - 1
        /\ i > Len(h.sectors) /\ Gap(h.block, h.sectors) /\ (n = 1 => Clear(h.map) = {})
    BY <1>1, <2>1 DEF Wanting
  <2>3. CASE c = NoSector
    <3>1. r = [h EXCEPT !.dead = TRUE]
      BY <2>1, <2>2, <2>3, AskIs
    <3> HIDE DEF r
    <3>2. r.block = h.block /\ r.dead
      BY <3>1, Dies
    <3> QED BY <2>1, <3>2 DEF Sprouts
  <2>4. CASE c # NoSector
    <3>1. c \in Sector \ h.map /\ c \in Clear(h.map)
      BY <1>1, <2>4, NoneClear DEF Clear
    <3>2. c = FindClear(h.map)
      OBVIOUS
    <3> HIDE DEF c
    <3>3. Cardinality(Clear(h.map \cup {c})) = Cardinality(Clear(h.map)) - 1
      BY <3>1, ClearShrinks
    <3>4. Cardinality(Clear(h.map \cup {c})) < n - h.count
      BY <1>1, <2>2, <3>3
    <3>5. Makes(h, c, <<>>, r) /\ r.count = h.count - 1
      BY <2>1, <2>2, <2>4, <3>2, <3>4, AskNewDouble
    <3> HIDE DEF r
    <3>6. /\ Branches(m, r) /\ r.map = h.map \cup {c}
          /\ r.block[c] = <<>> /\ \A s \in Tree(h.block, h.sectors) \cup m : r.block[s] = h.block[s]
      BY <2>1, <3>1, <3>5, GrownTree
    <3>7. r.sectors = Append(h.sectors, c) /\ ~r.dead
      BY <3>5 DEF Makes
    <3>8. /\ Len(r.sectors) = i /\ r.sectors[i] = c
          /\ \A j \in 1 .. Len(h.sectors) : r.sectors[j] = h.sectors[j]
      BY <1>1, <2>2, <3>1, <3>7, AppendRange
    <3>9. r.sectors[1] = h.sectors[1]
      BY <1>1, <2>2, <3>8
    <3>10. Gap(r.block, r.sectors)
      <4>1. \A j \in 1 .. Len(h.sectors) : h.sectors[j] \in Range(h.sectors)
        BY <1>1 DEF Range
      <4>2. Range(h.sectors) \subseteq Index(h.block, h.sectors)
        BY DEF Index
      <4>3. Index(h.block, h.sectors) \subseteq Tree(h.block, h.sectors)
        BY DEF Tree
      <4>4. \A j \in 1 .. Len(h.sectors) : r.block[h.sectors[j]] = h.block[h.sectors[j]]
        BY <3>6, <4>1, <4>2, <4>3
      <4>5. 1 \in 1 .. Len(h.sectors)
        BY <1>1, <2>2
      <4>6. \E s \in {r.sectors[1]} \cup Range(r.block[r.sectors[1]]) : r.block[s] = <<>>
        <5>1. PICK s \in {h.sectors[1]} \cup Range(h.block[h.sectors[1]]) : h.block[s] = <<>>
          BY <2>2 DEF Gap
        <5>2. s \in Tree(h.block, h.sectors)
          <6>1. Range(h.block[h.sectors[1]]) \subseteq Twig(h.block, Range(h.sectors))
            BY <4>1, <4>5 DEF Twig
          <6> QED BY <4>1, <4>2, <4>3, <4>5, <5>1, <6>1 DEF Index
        <5> QED BY <3>6, <3>9, <4>4, <4>5, <5>1, <5>2
      <4>7. \A j \in 2 .. Len(r.sectors) : r.block[r.sectors[j]] = <<>>
        <5>1. ASSUME NEW j \in 2 .. Len(r.sectors) PROVE r.block[r.sectors[j]] = <<>>
          <6>1. j = i \/ (j \in 2 .. Len(h.sectors) /\ j \in 1 .. Len(h.sectors))
            BY <1>1, <2>2, <3>8
          <6> QED BY <2>2, <3>6, <3>8, <4>4, <6>1 DEF Gap
        <5> QED BY <5>1
      <4> QED BY <1>1, <3>8, <4>6, <4>7 DEF Gap
    <3>11. n # 1
      BY <2>2, <3>1
    <3>12. Wanting(n, r, i)
      <4>1. r.count < n
        BY <1>1, <2>2, <3>5
      <4>2. Cardinality(Clear(r.map)) < n - r.count
        BY <1>1, <2>2, <3>3, <3>5, <3>6
      <4> QED BY <3>8, <3>10, <3>11, <4>1, <4>2 DEF Wanting
    <3>13. Alike(b, r.block, m)
      BY <2>1, <3>6 DEF Alike
    <3> QED BY <2>1, <3>6, <3>7, <3>9, <3>12, <3>13 DEF Sprouts
  <2> QED BY <2>3, <2>4
<1> QED BY <1>2, <1>3

(* FileHeader::Allocate for a file that has no sectors yet: it takes only     *)
(* free sectors and leaves all the other blocks as they were; when it         *)
(* succeeds the header's tree is exactly what it took, and reaches every      *)
(* sector that was asked for, or has an index block that was left empty when  *)
(* the disk was full. When it fails, the disk was too full for n sectors and  *)
(* their index blocks.                                                        *)
THEOREM NewFile ==
  ASSUME NEW block \in [Sector -> Seq(Sector)], BlocksFit(block), NEW map \in SUBSET Sector,
         NEW size \in Nat
  PROVE  /\ Planted(block, map, Roundup(size), Allocate(block, map, NewHeader, size))
         /\ Allocate(block, map, NewHeader, size).ok =>
              Allocate(block, map, NewHeader, size).header.bytes = size
<1> DEFINE n == Roundup(size)
           a == Allocate(block, map, NewHeader, size)
           start == [map |-> map, block |-> block, sectors |-> NewHeader.sectors,
                     count |-> 0, dead |-> FALSE]
           S == Going(map, NumDirect)
           g == DoubleBelow(start, NumDirect, n)
<1> SUFFICES Planted(block, map, n, a) /\ (a.ok => a.header.bytes = size)
  OBVIOUS
<1>1. n \in Nat /\ Cardinality(Clear(map)) \in Nat /\ NewHeader.sectors = <<>> /\ NewHeader.bytes = 0
  BY RoundupFacts, ClearFinite DEF NewHeader
<1>2. Alike(block, block, map)
  BY DEF Alike
<1>3. CASE Cardinality(Clear(map)) < n
  <2>1. a = [ok |-> FALSE, dead |-> FALSE, map |-> map, block |-> block, header |-> NewHeader]
    BY <1>3 DEF Allocate
  <2> HIDE DEF a, n
  <2> QED BY <1>1, <1>2, <1>3, <2>1 DEF Planted, Tight
<1>4. CASE ~(Cardinality(Clear(map)) < n)
  <2>1. a = Allocated(g, NewHeader, size)
    BY <1>4 DEF Allocate, DoubleBelow
  <2>2. start \in S /\ Starting(map, block, start)
    <3>0. NewHeader.sectors \in Seq(Sector) /\ Len(NewHeader.sectors) = 0 /\ NumDirect \in Nat
      BY <1>1, BlocksReachDisk
    <3>1. start \in Allocation
      BY <3>0 DEF Allocation
    <3>2. start \in S
      BY <3>0, <3>1, GoingIs
    <3> QED BY <1>1, <3>2 DEF Starting
  <2>3. NumDirect \in Nat /\ NumDirect > 1
    BY BlocksReachDisk
  <2> HIDE DEF n, start
  <2>4. PICK f \in [0 .. NumDirect -> S] :
          /\ f[0] = start
          /\ \A i \in 1 .. NumDirect : f[i] = DoubleTurn(n, f[i - 1], i)
          /\ g = f[NumDirect]
    <3>1. DoubleStays(S, NumDirect, n)
      BY <1>1, <2>3, AskDouble DEF DoubleStays, DoubleTurn
    <3> HIDE DEF S
    <3>2. DoubleRun(S, start, NumDirect, n)
      BY <2>2, <2>3, <3>1, DoubleRounds
    <3> QED BY <3>2 DEF DoubleRun
  <2>5. a.ok = ~g.dead /\ a.map = g.map /\ a.block = g.block
        /\ a.header.bytes = size /\ a.header.sectors = g.sectors
    BY <1>1, <2>1 DEF Allocated
  <2> HIDE DEF a, g
  <2>6. CASE n = 0
    <3> DEFINE P == {i \in 0 .. NumDirect : f[i] = start}
    <3>1. \A i \in 0 .. NumDirect : i \in P
      <4>1. P \in SUBSET Nat /\ 0 \in P
        BY <2>3, <2>4
      <4>2. ASSUME NEW i \in 1 .. NumDirect, i - 1 \in P PROVE i \in P
        <5>1. f[i - 1] = start /\ i \in 0 .. NumDirect
          BY <2>3, <4>2
        <5>2. f[i] = Ask(DoubleAllocate, n, start, i)
          BY <2>4, <5>1 DEF DoubleTurn
        <5>3. start.count >= n
          BY <2>2, <2>6 DEF Starting
        <5>4. f[i] = start
          BY <5>2, <5>3, AskWaits
        <5> QED BY <5>1, <5>4
      <4> HIDE DEF P
      <4> QED BY <2>3, <4>1, <4>2, IndexedRounds
    <3>2. g = start
      <4>1. NumDirect \in 0 .. NumDirect
        BY <2>3
      <4> QED BY <2>4, <3>1, <4>1
    <3>3. a.ok /\ a.map = map /\ a.block = block /\ a.header.sectors = <<>> /\ a.header.bytes = size
      BY <2>2, <2>5, <3>2 DEF Starting
    <3>4. Tree(block, <<>>) = {}
      <4>1. Range(<<>>) = {}
        BY DEF Range
      <4> QED BY <4>1 DEF Tree, Index, Twig
    <3> QED BY <1>2, <2>6, <3>3, <3>4 DEF Planted
  <2>7. CASE n # 0
    <3> DEFINE P == {i \in 0 .. NumDirect : i = 0 \/ Sprouts(map, block, n, f[i], i)}
    <3>0. n \in Nat \ {0}
      BY <1>1, <2>7
    <3>1. \A i \in 0 .. NumDirect : i \in P
      <4>1. P \in SUBSET Nat /\ 0 \in P
        BY <2>3
      <4>2. ASSUME NEW i \in 1 .. NumDirect, i - 1 \in P PROVE i \in P
        <5>1. i \in 0 .. NumDirect /\ f[i - 1] \in S /\ f[i] = Ask(DoubleAllocate, n, f[i - 1], i)
          BY <2>3, <2>4 DEF DoubleTurn
        <5>2. CASE i = 1
          <6>1. f[1 - 1] = start
            BY <2>4
          <6>2. Sprouts(map, block, n, Ask(DoubleAllocate, n, start, 1), 1)
            BY <2>2, <3>0, FirstSprout
          <6> QED BY <5>1, <5>2, <6>1, <6>2
        <5>3. CASE i # 1
          <6>1. i \in 2 .. NumDirect /\ Sprouts(map, block, n, f[i - 1], i - 1)
            BY <4>2, <5>3
          <6>2. Sprouts(map, block, n, Ask(DoubleAllocate, n, f[i - 1], i), i)
            BY <3>0, <5>1, <6>1, LaterSprouts
          <6> QED BY <5>1, <6>2
        <5> QED BY <5>2, <5>3
      <4> HIDE DEF P
      <4> QED BY <2>3, <4>1, <4>2, IndexedRounds
    <3>2. Sprouts(map, block, n, g, NumDirect)
      <4>1. NumDirect \in 0 .. NumDirect /\ NumDirect # 0
        BY <2>3
      <4> QED BY <2>4, <3>1, <4>1
    <3>3. Alike(block, a.block, map)
      BY <2>5, <3>2 DEF Sprouts
    <3>4. CASE g.dead
      <4>1. \A x : g.dead => (~g.dead => x)
        OBVIOUS
      <4> QED BY <2>5, <3>2, <3>3, <3>4 DEF Sprouts, Planted
    <3>5. CASE ~g.dead
      <4>1. a.ok /\ Branches(map, g) /\ g.sectors[1] = FindClear(map)
            /\ (Whole(n, g.block, g.sectors) \/ (Wanting(n, g, NumDirect) /\ Tight(map, n, 2)))
        BY <2>5, <3>2, <3>5 DEF Sprouts
      <4>2. a.map \ map = Tree(a.block, a.header.sectors)
        BY <2>5, <4>1 DEF Branches
      <4>3. Wanting(n, g, NumDirect) => n > 1 /\ Gap(g.block, g.sectors)
        BY <2>3, <3>0 DEF Wanting
      <4> QED BY <2>5, <2>7, <3>3, <4>1, <4>2, <4>3 DEF Planted
    <3> QED BY <3>4, <3>5
  <2> QED BY <2>6, <2>7
<1> QED BY <1>3, <1>4

(* A loop that has what it was asked for in its first round is over. *)
LEMMA IndirectOnce ==
  ASSUME NEW map, NEW g \in Going(map, MaxBlocksNum), NEW n \in Nat,
         IndirectTurn(n, g, 1).count >= n
  PROVE  IndirectBelow(g, MaxBlocksNum, n) = IndirectTurn(n, g, 1)
<1> DEFINE S == Going(map, MaxBlocksNum)
           r == IndirectTurn(n, g, 1)
<1>1. MaxBlocksNum \in Nat /\ MaxBlocksNum > 3
  BY BlocksReachDisk
<1>2. PICK f \in [0 .. MaxBlocksNum -> S] :
        /\ f[0] = g
        /\ \A i \in 1 .. MaxBlocksNum : f[i] = IndirectTurn(n, f[i - 1], i)
        /\ IndirectBelow(g, MaxBlocksNum, n) = f[MaxBlocksNum]
  <2>1. IndirectStays(S, MaxBlocksNum, n)
    BY <1>1, AskIndirect DEF IndirectTurn, IndirectStays
  <2>0. g \in S
    OBVIOUS
  <2> HIDE DEF S
  <2>2. IndirectRun(S, g, MaxBlocksNum, n)
    BY <1>1, <2>0, <2>1, IndirectRounds
  <2> QED BY <2>2 DEF IndirectRun
<1> DEFINE P == {i \in 0 .. MaxBlocksNum : i = 0 \/ f[i] = r}
<1>3. \A i \in 0 .. MaxBlocksNum : i \in P
  <2>1. P \in SUBSET Nat /\ 0 \in P
    BY <1>1
  <2>2. ASSUME NEW i \in 1 .. MaxBlocksNum, i - 1 \in P PROVE i \in P
    <3>1. i \in 0 .. MaxBlocksNum /\ f[i] = IndirectTurn(n, f[i - 1], i)
      BY <1>1, <1>2
    <3>2. CASE i = 1
      <4>1. f[1 - 1] = g
        BY <1>2
      <4> QED BY <3>1, <3>2, <4>1
    <3>3. CASE i # 1
      <4>1. f[i - 1] = r
        BY <2>2, <3>3
      <4> HIDE DEF r
      <4>2. r.count >= n
        BY DEF r
      <4>3. IndirectTurn(n, r, i) = r
        BY <4>2, AskWaits DEF IndirectTurn
      <4> QED BY <3>1, <4>1, <4>3
    <3> QED BY <3>2, <3>3
  <2> HIDE DEF P
  <2> QED BY <1>1, <2>1, <2>2, IndexedRounds
<1>4. MaxBlocksNum \in 0 .. MaxBlocksNum /\ MaxBlocksNum # 0
  BY <1>1
<1> QED BY <1>2, <1>3, <1>4

(* The same of the loop over the header.                                      *)
LEMMA DoubleOnce ==
  ASSUME NEW map, NEW g \in Going(map, NumDirect), NEW n \in Nat,
         DoubleTurn(n, g, 1).count >= n
  PROVE  DoubleBelow(g, NumDirect, n) = DoubleTurn(n, g, 1)
<1> DEFINE S == Going(map, NumDirect)
           r == DoubleTurn(n, g, 1)
<1>1. NumDirect \in Nat /\ NumDirect > 1
  BY BlocksReachDisk
<1>2. PICK f \in [0 .. NumDirect -> S] :
        /\ f[0] = g
        /\ \A i \in 1 .. NumDirect : f[i] = DoubleTurn(n, f[i - 1], i)
        /\ DoubleBelow(g, NumDirect, n) = f[NumDirect]
  <2>1. DoubleStays(S, NumDirect, n)
    BY <1>1, AskDouble DEF DoubleTurn, DoubleStays
  <2>0. g \in S
    OBVIOUS
  <2> HIDE DEF S
  <2>2. DoubleRun(S, g, NumDirect, n)
    BY <1>1, <2>0, <2>1, DoubleRounds
  <2> QED BY <2>2 DEF DoubleRun
<1> DEFINE P == {i \in 0 .. NumDirect : i = 0 \/ f[i] = r}
<1>3. \A i \in 0 .. NumDirect : i \in P
  <2>1. P \in SUBSET Nat /\ 0 \in P
    BY <1>1
  <2>2. ASSUME NEW i \in 1 .. NumDirect, i - 1 \in P PROVE i \in P
    <3>1. i \in 0 .. NumDirect /\ f[i] = DoubleTurn(n, f[i - 1], i)
      BY <1>1, <1>2
    <3>2. CASE i = 1
      <4>1. f[1 - 1] = g
        BY <1>2
      <4> QED BY <3>1, <3>2, <4>1
    <3>3. CASE i # 1
      <4>1. f[i - 1] = r
        BY <2>2, <3>3
      <4> HIDE DEF r
      <4>2. r.count >= n
        BY DEF r
      <4>3. DoubleTurn(n, r, i) = r
        BY <4>2, AskWaits DEF DoubleTurn
      <4> QED BY <3>1, <4>1, <4>3
    <3> QED BY <3>2, <3>3
  <2> HIDE DEF P
  <2> QED BY <1>1, <2>1, <2>2, IndexedRounds
<1>4. NumDirect \in 0 .. NumDirect /\ NumDirect # 0
  BY <1>1
<1> QED BY <1>2, <1>3, <1>4

(* The first round finds the first block: h.sectors[1] is there. *)
LEMMA AskFirst ==
  ASSUME NEW map, NEW limit, NEW h \in Going(map, limit), NEW n \in Nat,
         Len(h.sectors) >= 1, ~h.dead, h.count < n, NEW x, x = h.sectors[1], x # NoSector
  PROVE  /\ Ask(IndirectAllocate, n, h, 1) = Joined(h, IndirectAllocate(h, x, n - h.count))
         /\ Ask(DoubleAllocate, n, h, 1) = Joined(h, DoubleAllocate(h, x, n - h.count))
<1>1. ~(h.count >= n) /\ ~(1 > Len(h.sectors))
  BY GoingParts
<1> DEFINE isNew == 1 > Len(h.sectors)
           sector == IF isNew THEN FindClear(h.map) ELSE h.sectors[1]
           made == IF isNew
                   THEN [h EXCEPT !.map = @ \cup {sector}, !.block[sector] = <<>>,
                                  !.sectors = Append(@, sector)]
                   ELSE h
<1>2. Ask(IndirectAllocate, n, h, 1) =
        IF h.dead \/ h.count >= n THEN h
        ELSE IF sector = NoSector THEN [h EXCEPT !.dead = TRUE]
        ELSE Joined(made, IndirectAllocate(made, sector, n - h.count))
  BY DEF Ask
<1>3. Ask(DoubleAllocate, n, h, 1) =
        IF h.dead \/ h.count >= n THEN h
        ELSE IF sector = NoSector THEN [h EXCEPT !.dead = TRUE]
        ELSE Joined(made, DoubleAllocate(made, sector, n - h.count))
  BY DEF Ask
<1>4. ~isNew /\ sector = x /\ made = h
  BY <1>1
<1> QED BY <1>1, <1>2, <1>3, <1>4, Zenon

(* Sectors are added to a block of pointers that has room for them.           *)
LEMMA GrowIndirect ==
  ASSUME NEW map, NEW limit, NEW g \in Going(map, limit), NEW y \in Sector, NEW n \in Nat,
         ~(Cardinality(Clear(g.map)) < n), Len(g.block[y]) + n <= MaxBlocksNum, ~g.dead
  PROVE  Grown(g.block, g.map, y, n, IndirectAllocate(g, y, n))
<1> DEFINE k == Min({n, MaxBlocksNum - Len(g.block[y])})
           t == FirstClear(g.map, k)
           r == IndirectAllocate(g, y, n)
           map2 == g.map \cup Range(t)
           block2 == [g.block EXCEPT ![y] = g.block[y] \o t]
<1>1. g \in Allocation /\ Len(g.block[y]) \in Nat /\ MaxBlocksNum \in Nat
  BY GoingIs, DiskFacts DEF Allocation
<1>2. k = n
  <2> DEFINE w == MaxBlocksNum - Len(g.block[y])
  <2>1. w \in Int /\ n <= w
    BY <1>1
  <2> HIDE DEF w
  <2>2. Min({n, w}) <= n /\ (Min({n, w}) = n \/ Min({n, w}) = w)
    BY ONLY <2>1, n \in Int, MinOfTwo
  <2>3. Min({n, w}) = n
    BY <2>1, <2>2
  <2> QED BY <2>3 DEF w
<1>3. r = [g EXCEPT !.map = map2, !.block = block2, !.count = k]
  BY Zenon DEF IndirectAllocate
<1> HIDE DEF map2, block2, k, r
<1>4. r.map = map2 /\ r.block = block2 /\ r.count = k /\ r.dead = g.dead
  BY <1>1, <1>3 DEF Allocation
<1> QED BY <1>2, <1>4 DEF Grown, map2, block2, r

(* The same below a block x of one pointer.                                   *)
LEMMA GrowDouble ==
  ASSUME NEW map, NEW limit, NEW h \in Going(map, limit), NEW x, NEW y, Rooted(h.block, h.sectors, x, y),
         NEW n \in Nat \ {0}, ~(Cardinality(Clear(h.map)) < n), ~h.dead,
         Len(h.block[y]) + n <= MaxBlocksNum
  PROVE  Grown(h.block, h.map, y, n, DoubleAllocate(h, x, n))
<1> DEFINE start == [h EXCEPT !.sectors = h.block[x], !.count = 0]
           b == IndirectAllocate(start, y, n)
           turn == IndirectTurn(n, start, 1)
           t == FirstClear(h.map, n)
<1>1. /\ h \in Allocation /\ h.block \in [Sector -> Seq(Sector)] /\ x \in Sector /\ y \in Sector
      /\ h.block[x] = <<y>> /\ x # y /\ MaxBlocksNum \in Nat /\ MaxBlocksNum > 3
  BY GoingIs, GoingParts, BlocksReachDisk DEF Rooted
<1>2. DoubleAllocate(h, x, n) = Filled(IndirectBelow(start, MaxBlocksNum, n), x)
  BY DEF DoubleAllocate, IndirectBelow
<1>3. /\ start.map = h.map /\ start.block = h.block /\ start.sectors = <<y>> /\ start.count = 0
      /\ start.dead = FALSE /\ start \in Allocation
  <2> DEFINE one == <<y>>
             zero == 0
  <2>1. start = [h EXCEPT !.sectors = one, !.count = zero]
    BY <1>1
  <2>2. one \in Seq(Sector) /\ zero \in Int /\ h.dead = FALSE
    BY <1>1, GoingParts
  <2> HIDE DEF start, one, zero
  <2>3. /\ start.map = h.map /\ start.block = h.block /\ start.sectors = one /\ start.count = zero
        /\ start.dead = FALSE /\ start \in Allocation
    BY <1>1, <2>1, <2>2 DEF Allocation
  <2> QED BY <2>3 DEF one, zero
<1> HIDE DEF start
<1>4. Len(start.sectors) = 1 /\ start.sectors[1] = y
  BY <1>3
<1>5. start \in Going(map, MaxBlocksNum)
  <2>1. BlocksFit(start.block) /\ map \subseteq start.map
    BY <1>3, GoingParts
  <2>2. start \in Allocation /\ Len(start.sectors) <= MaxBlocksNum
    BY <1>1, <1>3, <1>4
  <2> QED BY <2>1, <2>2, GoingIs
<1>6. Grown(h.block, h.map, y, n, b)
  <2>1. Grown(start.block, start.map, y, n, IndirectAllocate(start, y, n))
    BY <1>1, <1>3, <1>5, GrowIndirect
  <2> QED BY <1>3, <2>1
<1>7. turn = Joined(start, b)
  <2>1. y # NoSector
    BY <1>1, DiskFacts
  <2>2. Ask(IndirectAllocate, n, start, 1) = Joined(start, IndirectAllocate(start, y, n - start.count))
    <3>1. Len(start.sectors) >= 1 /\ ~start.dead /\ start.count < n /\ y = start.sectors[1]
      BY <1>3, <1>4
    <3>2. n \in Nat
      OBVIOUS
    <3> QED BY <1>5, <2>1, <3>1, <3>2, AskFirst
  <2>3. n - start.count = n
    BY <1>3
  <2> QED BY <2>2, <2>3 DEF IndirectTurn
<1> HIDE DEF b
<1>8. /\ turn.map = b.map /\ turn.block = b.block /\ turn.count = start.count + b.count
      /\ turn.dead = b.dead /\ turn.sectors = start.sectors
  BY <1>3, <1>7, JoinedFields
<1>9. turn.count = n /\ ~turn.dead /\ turn.sectors = <<y>> /\ turn \in Allocation
  <2>1. 1 \in 1 .. MaxBlocksNum
    BY <1>1
  <2>2. turn \in Going(map, MaxBlocksNum)
    BY <1>1, <1>5, <2>1, AskIndirect DEF IndirectTurn
  <2>3. turn \in Allocation
    BY <2>2, GoingIs
  <2> HIDE DEF turn
  <2> QED BY <1>3, <1>6, <1>8, <2>3 DEF Grown
<1>10. IndirectBelow(start, MaxBlocksNum, n) = turn
  <2>1. turn.count >= n
    BY <1>9
  <2> QED BY <1>5, <2>1, IndirectOnce
<1> HIDE DEF turn
<1> DEFINE r == Filled(turn, x)
<1>11. r.map = b.map /\ r.count = n /\ ~r.dead /\ r.block = [b.block EXCEPT ![x] = <<y>>]
  <2>1. /\ r.map = turn.map /\ r.count = turn.count /\ r.dead = turn.dead
        /\ r.block = IF turn.dead THEN turn.block ELSE [turn.block EXCEPT ![x] = turn.sectors]
    BY <1>1, <1>9, FilledFields
  <2> HIDE DEF r
  <2> QED BY <1>8, <1>9, <2>1
<1>12. r.block = b.block
  <2> HIDE DEF t
  <2>1. b.block = [h.block EXCEPT ![y] = h.block[y] \o t]
    BY <1>6 DEF Grown, t
  <2>2. [b.block EXCEPT ![x] = <<y>>] = b.block
    BY <1>1, <2>1
  <2> QED BY <1>11, <2>2
<1>13. Grown(h.block, h.map, y, n, r)
  BY <1>6, <1>11, <1>12 DEF Grown
<1> QED BY <1>2, <1>10, <1>13

(* FileHeader::Allocate for a directory that grows in its one block of        *)
(* pointers: it fails without a change when too few sectors are free, and     *)
(* otherwise appends the first free ones to that block and to nothing else.   *)
THEOREM GrowFile ==
  ASSUME NEW block \in [Sector -> Seq(Sector)], BlocksFit(block), NEW map \in SUBSET Sector,
         NEW header \in OpenHeader, NEW x, NEW y, Rooted(block, header.sectors, x, y),
         NEW size \in Nat, Roundup(size) > 0, Len(block[y]) + Roundup(size) <= MaxBlocksNum
  PROVE  Enlarged(block, map, header, y, size, Allocate(block, map, header, size))
<1> DEFINE n == Roundup(size)
           a == Allocate(block, map, header, size)
           t == FirstClear(map, n)
           start == [map |-> map, block |-> block, sectors |-> header.sectors,
                     count |-> 0, dead |-> FALSE]
           turn == DoubleTurn(n, start, 1)
           b == DoubleAllocate(start, x, n)
<1> SUFFICES Enlarged(block, map, header, y, size, a)
  OBVIOUS
<1>1. n \in Nat \ {0} /\ Cardinality(Clear(map)) \in Nat
  BY RoundupFacts, ClearFinite
<1>2. header.sectors \in Seq(Sector) /\ Len(header.sectors) <= NumDirect /\ NumDirect \in Nat
      /\ NumDirect > 1
  BY BlocksReachDisk DEF OpenHeader, FileHeader
<1>3. CASE Cardinality(Clear(map)) < n
  <2>1. a = [ok |-> FALSE, dead |-> FALSE, map |-> map, block |-> block, header |-> header]
    BY <1>3 DEF Allocate
  <2> HIDE DEF a
  <2>2. ~a.ok /\ ~a.dead /\ a.block = block
    BY <2>1
  <2> QED BY <1>3, <2>2 DEF Enlarged
<1>4. CASE ~(Cardinality(Clear(map)) < n)
  <2>1. a = Allocated(DoubleBelow(start, NumDirect, n), header, size)
    BY <1>4 DEF Allocate, DoubleBelow
  <2>2. start \in Going(map, NumDirect)
    <3>1. start \in Allocation
      BY <1>2 DEF Allocation
    <3> QED BY <1>2, <3>1, GoingIs
  <2>3. /\ start.map = map /\ start.block = block /\ start.sectors = header.sectors
        /\ start.count = 0 /\ ~start.dead
    OBVIOUS
  <2> HIDE DEF start, n
  <2>4. Rooted(start.block, start.sectors, x, y)
    BY <2>3
  <2>5. Len(start.sectors) >= 1 /\ start.sectors[1] = x /\ x # NoSector
    BY <2>4, DiskFacts DEF Rooted
  <2>6. Grown(block, map, y, n, b)
    <3>1. Len(start.block[y]) + n <= MaxBlocksNum
      BY <2>3 DEF n
    <3>2. Grown(start.block, start.map, y, n, b)
      BY <1>1, <1>4, <2>2, <2>3, <2>4, <3>1, GrowDouble
    <3> QED BY <2>3, <3>2
  <2>7. turn = Joined(start, b)
    <3>1. Ask(DoubleAllocate, n, start, 1) = Joined(start, DoubleAllocate(start, x, n - start.count))
      <4>1. n \in Nat /\ start.count < n
        BY <1>1, <2>3
      <4> QED BY <2>2, <2>3, <2>5, <4>1, AskFirst
    <3>2. n - start.count = n
      BY <1>1, <2>3
    <3> QED BY <3>1, <3>2 DEF DoubleTurn
  <2> HIDE DEF b
  <2>8. /\ turn.map = b.map /\ turn.block = b.block /\ turn.count = start.count + b.count
        /\ turn.dead = b.dead /\ turn.sectors = start.sectors
    <3>1. start \in Allocation
      BY <2>2, GoingIs
    <3> QED BY <2>7, <3>1, JoinedFields
  <2>9. DoubleBelow(start, NumDirect, n) = turn
    <3>1. turn.count >= n
      BY <1>1, <2>3, <2>6, <2>8 DEF Grown
    <3> QED BY <1>1, <2>2, <3>1, DoubleOnce
  <2> HIDE DEF turn
  <2>10. /\ a.ok = ~turn.dead /\ a.map = turn.map /\ a.block = turn.block
         /\ a.header = [bytes |-> header.bytes + size, sectors |-> turn.sectors]
    BY <2>1, <2>9 DEF Allocated
  <2> HIDE DEF a
  <2>11. /\ a.ok /\ a.map = map \cup Range(t)
         /\ a.block = [block EXCEPT ![y] = block[y] \o t]
         /\ a.header = [bytes |-> header.bytes + size, sectors |-> header.sectors]
    BY <2>3, <2>6, <2>8, <2>10 DEF Grown
  <2> QED BY <1>4, <2>11 DEF Enlarged, n
<1> QED BY <1>3, <1>4

(* Multiples of a positive number.                                            *)
LEMMA ProductOrder ==
  ASSUME NEW s \in Nat \ {0}, NEW p \in Int, NEW q \in Int, s * p < s * q + s
  PROVE  p <= q
<1>1. p > q => s * p >= s * (q + 1)
  BY Z3
<1>2. s * (q + 1) = s * q + s
  BY Z3
<1> DEFINE a == s * p
           b == s * (q + 1)
           c == s * q
<1>3. a \in Int /\ b \in Int /\ c \in Int
  OBVIOUS
<1>4. (p > q => a >= b) /\ b = c + s /\ a < c + s
  BY <1>1, <1>2
<1> HIDE DEF a, b, c
<1> QED BY <1>3, <1>4

(* The sectors for n bytes hold them, with less than a sector to spare. *)
LEMMA RoundupBounds ==
  ASSUME NEW n \in Nat
  PROVE  /\ Roundup(n) \in Nat
         /\ n <= SectorSize * Roundup(n) /\ SectorSize * Roundup(n) <= n + SectorSize - 1
<1>1. SectorSize \in Nat \ {0} /\ n + SectorSize - 1 \in Nat /\ Roundup(n) \in Nat
  BY DiskFacts, RoundupFacts
<1> DEFINE x == n + SectorSize - 1
           q == Roundup(n)
<1>2. q = x \div SectorSize
  BY DEF Roundup
<1>3. x \in Int
  BY <1>1
<1> HIDE DEF x, q
<1>4. /\ x % SectorSize \in 0 .. SectorSize - 1
      /\ x = SectorSize * q + (x % SectorSize)
  BY <1>1, <1>2, <1>3, Divided
<1> DEFINE p == SectorSize * q
           r == x % SectorSize
<1>5. p \in Int /\ r \in 0 .. SectorSize - 1 /\ x = p + r
  BY <1>1, <1>4 DEF q
<1> HIDE DEF p, r
<1>6. n <= p /\ p <= n + SectorSize - 1
  BY <1>1, <1>5 DEF x
<1> QED BY <1>1, <1>6 DEF p, q

(* Two parts of a file need no fewer sectors apart than together.             *)
LEMMA RoundupSum ==
  ASSUME NEW a \in Nat, NEW b \in Nat
  PROVE  Roundup(a + b) <= Roundup(a) + Roundup(b)
<1> DEFINE p == Roundup(a)
           q == Roundup(b)
           r == Roundup(a + b)
           S == SectorSize
<1>1. /\ p \in Nat /\ q \in Nat /\ r \in Nat /\ S \in Nat \ {0}
      /\ a <= S * p /\ b <= S * q /\ S * r <= a + b + S - 1
  BY RoundupBounds, DiskFacts
<1> HIDE DEF p, q, r, S
<1>2. S * (p + q) = S * p + S * q
  BY <1>1
<1> DEFINE sp == S * p
           sq == S * q
           sr == S * r
           spq == S * (p + q)
<1>3. sp \in Int /\ sq \in Int /\ sr \in Int /\ spq = sp + sq
      /\ a <= sp /\ b <= sq /\ sr <= a + b + S - 1
  BY <1>1, <1>2
<1> HIDE DEF sp, sq, sr, spq
<1>4. sr < spq + S
  BY <1>1, <1>3
<1>5. r <= p + q
  BY <1>1, <1>4, ProductOrder DEF sr, spq
<1> QED BY <1>5 DEF p, q, r

(* More bytes, no fewer sectors.                                              *)
LEMMA RoundupOrder ==
  ASSUME NEW a \in Nat, NEW b \in Nat, a <= b
  PROVE  Roundup(a) <= Roundup(b)
<1> DEFINE p == Roundup(a)
           q == Roundup(b)
           S == SectorSize
<1>1. /\ p \in Nat /\ q \in Nat /\ S \in Nat \ {0}
      /\ S * p <= a + S - 1 /\ b <= S * q
  BY RoundupBounds, DiskFacts
<1> HIDE DEF p, q, S
<1> DEFINE sp == S * p
           sq == S * q
<1>2. sp \in Int /\ sq \in Int /\ sp <= a + S - 1 /\ b <= sq
  BY <1>1
<1> HIDE DEF sp, sq
<1>3. sp < sq + S
  BY <1>1, <1>2
<1>4. p <= q
  BY <1>1, <1>3, ProductOrder DEF sp, sq
<1> QED BY <1>4 DEF p, q

(* The sectors for no byte and for one.                                       *)
LEMMA RoundupSmall ==
  /\ Roundup(0) = 0 /\ Roundup(1) = 1
  /\ \A n \in Nat : n > 0 => Roundup(n) > 0
<1> DEFINE S == SectorSize
<1>1. S \in Nat \ {0} /\ S > 3
  BY BlocksReachDisk
<1>2. ASSUME NEW n \in Nat, NEW k \in Nat, n <= S * k, S * k < n + S PROVE Roundup(n) = k
  <2> DEFINE q == Roundup(n)
             sq == S * q
             sk == S * k
  <2>1. q \in Nat /\ n <= S * q /\ S * q <= n + S - 1
    BY RoundupBounds
  <2> HIDE DEF q, S
  <2>2. sq \in Int /\ sk \in Int /\ n <= sq /\ sq <= n + S - 1 /\ n <= sk /\ sk < n + S
    BY <1>1, <1>2, <2>1
  <2> HIDE DEF sq, sk
  <2>3. sq < sk + S /\ sk < sq + S
    BY <1>1, <2>2
  <2>4. q <= k
    BY <1>1, <2>1, <2>3, ProductOrder DEF sq, sk
  <2>5. k <= q
    BY <1>1, <2>1, <2>3, ProductOrder DEF sq, sk
  <2>6. q = k
    BY <2>1, <2>4, <2>5
  <2> QED BY <2>6 DEF q
<1> HIDE DEF S
<1>3. Roundup(0) = 0
  <2>1. S * 0 = 0
    BY <1>1
  <2> QED BY <1>1, <1>2, <2>1
<1>4. Roundup(1) = 1
  <2>1. S * 1 = S
    BY <1>1
  <2> QED BY <1>1, <1>2, <2>1
<1>5. ASSUME NEW n \in Nat, n > 0 PROVE Roundup(n) > 0
  <2>1. Roundup(1) <= Roundup(n) /\ Roundup(n) \in Nat
    BY <1>5, RoundupOrder, RoundupFacts
  <2> QED BY <1>4, <2>1
<1> QED BY <1>3, <1>4, <1>5

(* Blocks and Holdings are what FileHeader::Deallocate walks over.            *)
LEMMA SectorsAreTree ==
  ASSUME NEW d, NEW s
  PROVE  IndexBlocks(d, d.header[s]) = Blocks(d, s) /\ Sectors(d, d.header[s]) = Holdings(d, s)
<1>1. \A S : Below(d, S) = Twig(d.block, S)
  BY DEF Below, Twig
<1>2. IndexBlocks(d, d.header[s]) = Blocks(d, s)
  BY <1>1 DEF IndexBlocks, Blocks, Index
<1> QED BY <1>1, <1>2 DEF Sectors, Holdings, Blocks, Tree

(* The tree of a file with one block of pointers.                             *)
LEMMA RootedTree ==
  ASSUME NEW block, NEW q, NEW x, NEW y, Rooted(block, q, x, y)
  PROVE  /\ Range(q) = {x} /\ Index(block, q) = {x, y}
         /\ Tree(block, q) = {x, y} \cup Range(block[y])
<1>1. Range(q) = {x}
  BY OneSector DEF Rooted
<1>2. Range(block[x]) = {y}
  BY OneSector DEF Rooted
<1>3. Index(block, q) = {x, y}
  BY <1>1, <1>2 DEF Index, Twig
<1>4. Twig(block, {x, y}) = {y} \cup Range(block[y])
  BY <1>2 DEF Twig
<1> QED BY <1>1, <1>3, <1>4 DEF Tree

(* A file without sectors.                                                    *)
LEMMA EmptyTree ==
  ASSUME NEW block
  PROVE  Range(<<>>) = {} /\ Index(block, <<>>) = {} /\ Tree(block, <<>>) = {}
<1>1. Range(<<>>) = {}
  BY DEF Range
<1> QED BY <1>1 DEF Tree, Index, Twig

(* What WriteBack writes, and what it cuts off.                               *)
LEMMA WriteHeaderIs ==
  ASSUME NEW d \in Disk, NEW s \in Sector, NEW h \in OpenHeader
  PROVE  /\ WriteHeader(d, s, h).header = [d.header EXCEPT ![s] = [bytes |-> h.bytes, sectors |-> Kept(h)]]
         /\ WriteHeader(d, s, h).lost = d.lost \cup Range(Behind(h))
<1> DEFINE short == [h EXCEPT !.sectors = Kept(h)]
           header2 == [d.header EXCEPT ![s] = short]
           lost2 == d.lost \cup Range(Behind(h))
           r == [d EXCEPT !.header = header2, !.lost = lost2]
<1>1. WriteHeader(d, s, h) = r
  BY Zenon DEF WriteHeader, Kept, Behind
<1>2. short = [bytes |-> h.bytes, sectors |-> Kept(h)]
  <2> DEFINE k == Kept(h)
  <2> HIDE DEF k
  <2>1. [h EXCEPT !.sectors = k] = [bytes |-> h.bytes, sectors |-> k]
    BY DEF OpenHeader, FileHeader
  <2> QED BY <2>1 DEF k
<1>3. header2 = [d.header EXCEPT ![s] = [bytes |-> h.bytes, sectors |-> Kept(h)]]
  BY <1>2
<1> HIDE DEF header2, lost2
<1>4. r.header = header2 /\ r.lost = lost2
  BY DEF Disk
<1> QED BY <1>1, <1>3, <1>4 DEF lost2

(* A header is what is kept and what is cut off.                              *)
LEMMA KeptFacts ==
  ASSUME NEW h \in OpenHeader
  PROVE  /\ Kept(h) \in Seq(Sector) /\ Len(Kept(h)) <= Len(h.sectors) /\ Len(Kept(h)) \in Nat
         /\ \A i \in 1 .. Len(Kept(h)) : Kept(h)[i] = h.sectors[i]
         /\ Range(h.sectors) = Range(Kept(h)) \cup Range(Behind(h))
         /\ Len(h.sectors) >= 1 => Len(Kept(h)) >= 1
         /\ \A x \in Range(Behind(h)) : \E j \in 1 .. Len(h.sectors) : j > Len(Kept(h)) /\ x = h.sectors[j]
<1> DEFINE k == Min({Len(h.sectors), NumDirect - 1})
           q == h.sectors
<1>1. h.sectors \in Seq(Sector) /\ Len(h.sectors) \in Nat
  BY DEF OpenHeader, FileHeader
<1>2. k \in Nat /\ k <= Len(q) /\ (Len(q) >= 1 => k >= 1)
  <2> DEFINE length == Len(h.sectors)
             least == NumDirect - 1
  <2>1. least \in Int /\ least \in Nat /\ least >= 1 /\ length \in Nat /\ length \in Int
    BY <1>1, BlocksReachDisk
  <2> HIDE DEF length, least
  <2>2. Min({length, least}) \in Int /\ Min({length, least}) <= length
        /\ (Min({length, least}) = length \/ Min({length, least}) = least)
    BY <2>1, MinOfTwo
  <2>3. Min({length, least}) \in Nat /\ (length >= 1 => Min({length, least}) >= 1)
    BY <2>1, <2>2
  <2> QED BY <2>2, <2>3 DEF length, least
<1>3. Kept(h) = SubSeq(q, 1, k) /\ Behind(h) = SubSeq(q, k + 1, Len(q))
  BY DEF Kept, Behind
<1> HIDE DEF k, q
<1>4. q \in Seq(Sector) /\ Len(q) \in Nat
  BY <1>1 DEF q
<1>5. /\ SubSeq(q, 1, k) \in Seq(Sector) /\ Len(SubSeq(q, 1, k)) = k
      /\ \A i \in 1 .. k : SubSeq(q, 1, k)[i] = q[i]
  BY <1>2, <1>4, PrefixOfSeq
<1> DEFINE p == SubSeq(q, 1, k)
           b == SubSeq(q, k + 1, Len(q))
<1>6. /\ b \in Seq(Sector) /\ Len(b) = Len(q) - k
      /\ \A i \in 1 .. Len(q) - k : b[i] = q[k + i]
  BY <1>2, <1>4
<1>7. Range(p) = {q[i] : i \in 1 .. k}
  <2>1. DOMAIN p = 1 .. k
    BY <1>2, <1>5
  <2> HIDE DEF p
  <2> QED BY <1>5, <2>1 DEF Range, p
<1>8. Range(b) = {q[i] : i \in k + 1 .. Len(q)}
  <2>1. DOMAIN b = 1 .. Len(q) - k
    BY <1>2, <1>4, <1>6
  <2> HIDE DEF b
  <2>2. Range(b) = {b[i] : i \in 1 .. Len(q) - k}
    BY <2>1 DEF Range
  <2>3. \A i \in 1 .. Len(q) - k : k + i \in k + 1 .. Len(q)
    BY <1>2, <1>4
  <2>4. \A j \in k + 1 .. Len(q) : j - k \in 1 .. Len(q) - k /\ k + (j - k) = j
    BY <1>2, <1>4
  <2>5. \A i \in 1 .. Len(q) - k : b[i] = q[k + i]
    BY <1>6 DEF b
  <2> QED BY <2>2, <2>3, <2>4, <2>5
<1>9. Range(q) = {q[i] : i \in 1 .. Len(q)}
  BY <1>4 DEF Range
<1>10. \A i \in 1 .. Len(q) : i \in 1 .. k \/ i \in k + 1 .. Len(q)
  BY <1>2, <1>4
<1>11. \A i \in 1 .. k : i \in 1 .. Len(q)
  BY <1>2, <1>4
<1>12. \A i \in k + 1 .. Len(q) : i \in 1 .. Len(q) /\ i > k
  BY <1>2, <1>4
<1> HIDE DEF p, b
<1>13. Range(q) = Range(p) \cup Range(b)
  BY <1>7, <1>8, <1>9, <1>10, <1>11, <1>12
<1>14. \A x \in Range(b) : \E j \in 1 .. Len(q) : j > k /\ x = q[j]
  BY <1>8, <1>12
<1>15. p \in Seq(Sector) /\ Len(p) = k /\ \A i \in 1 .. k : p[i] = q[i]
  BY <1>5 DEF p
<1>16. Kept(h) = p /\ Behind(h) = b /\ h.sectors = q
  BY <1>3 DEF p, b, q
<1> QED BY <1>2, <1>13, <1>14, <1>15, <1>16

(* Nothing is cut off a header of one pointer.                                *)
LEMMA KeptOne ==
  ASSUME NEW h \in OpenHeader, NEW x \in Sector, h.sectors = <<x>>
  PROVE  Kept(h) = <<x>> /\ Range(Behind(h)) = {}
<1>1. Len(h.sectors) = 1
  OBVIOUS
<1>2. Len(Kept(h)) = 1 /\ Kept(h)[1] = x /\ Kept(h) \in Seq(Sector)
  <2> DEFINE k == Kept(h)
  <2>1. /\ k \in Seq(Sector) /\ Len(k) <= Len(h.sectors) /\ Len(k) \in Nat
        /\ \A i \in 1 .. Len(k) : k[i] = h.sectors[i]
        /\ Len(h.sectors) >= 1 => Len(k) >= 1
    BY KeptFacts
  <2> HIDE DEF k
  <2>2. Len(k) = 1
    BY <1>1, <2>1
  <2>3. 1 \in 1 .. Len(k)
    BY <2>2
  <2>4. k[1] = h.sectors[1] /\ h.sectors[1] = x
    BY <2>1, <2>3
  <2> QED BY <2>1, <2>2, <2>4 DEF k
<1>3. Range(Behind(h)) = {}
  BY <1>1, <1>2, KeptFacts
<1> QED BY <1>2, <1>3

(* What a directory holds it still holds after a write to it.                 *)
LEMMA HoldsOn ==
  ASSUME NEW d, NEW U, U \subseteq d.used, NEW e, NEW s, NEW c, Extends(d, e, s), HoldsAt(U, d, s, c)
  PROVE  HoldsAt(U, e, s, c)
<1>1. /\ Range(d.header[s].sectors) \subseteq Range(e.header[s].sectors)
      /\ \A x, y \in d.used : Rooted(d.block, d.header[s].sectors, x, y) =>
           /\ Rooted(e.block, e.header[s].sectors, x, y)
           /\ Range(d.block[y]) \subseteq Range(e.block[y])
  BY DEF Extends
<1>2. CASE c \in Range(d.header[s].sectors)
  BY <1>1, <1>2 DEF HoldsAt
<1>3. CASE \E x, y \in U : Rooted(d.block, d.header[s].sectors, x, y) /\ c \in Range(d.block[y])
  <2>1. PICK x \in U, y \in U : Rooted(d.block, d.header[s].sectors, x, y) /\ c \in Range(d.block[y])
    BY <1>3
  <2>2. Rooted(e.block, e.header[s].sectors, x, y) /\ c \in Range(e.block[y])
    BY <1>1, <2>1
  <2> QED BY <2>2 DEF HoldsAt
<1> QED BY <1>2, <1>3 DEF HoldsAt

(* Two writes to the same directory.                                          *)
LEMMA ExtendsTwice ==
  ASSUME NEW d \in Disk, NEW m \in Disk, NEW e \in Disk, NEW s \in Sector,
         Extends(d, m, s), Extends(m, e, s)
  PROVE  Extends(d, e, s)
<1>1. /\ \A u \in Sector \ {s} : e.header[u] = d.header[u]
      /\ e.lost = d.lost /\ d.used \subseteq m.used /\ m.used \subseteq e.used
  BY DEF Extends
<1>2. \A u \in d.used \ Blocks(d, s) : e.block[u] = d.block[u]
  <2>1. /\ \A u \in d.used \ Blocks(d, s) : m.block[u] = d.block[u]
        /\ \A u \in m.used \ Blocks(m, s) : e.block[u] = m.block[u]
        /\ Blocks(m, s) \cap d.used \subseteq Blocks(d, s)
    BY DEF Extends
  <2> QED BY <1>1, <2>1
<1>3. Blocks(e, s) \cap d.used \subseteq Blocks(d, s)
  <2>1. /\ Blocks(m, s) \cap d.used \subseteq Blocks(d, s)
        /\ Blocks(e, s) \cap m.used \subseteq Blocks(m, s)
    BY DEF Extends
  <2> QED BY <1>1, <2>1
<1>4. /\ Holdings(d, s) \subseteq Holdings(m, s) /\ Holdings(m, s) \subseteq Holdings(e, s)
      /\ Holdings(m, s) \subseteq Holdings(d, s) \cup (Sector \ d.used)
      /\ Holdings(e, s) \subseteq Holdings(m, s) \cup (Sector \ m.used)
      /\ m.used \subseteq d.used \cup Holdings(m, s)
      /\ e.used \subseteq m.used \cup Holdings(e, s)
      /\ Holdings(d, s) \subseteq d.used => Holdings(m, s) \subseteq m.used
      /\ Holdings(m, s) \subseteq m.used => Holdings(e, s) \subseteq e.used
  BY DEF Extends
<1>5. /\ Holdings(d, s) \subseteq Holdings(e, s)
      /\ Holdings(e, s) \subseteq Holdings(d, s) \cup (Sector \ d.used)
      /\ e.used \subseteq d.used \cup Holdings(e, s)
      /\ Holdings(d, s) \subseteq d.used => Holdings(e, s) \subseteq e.used
  BY <1>1, <1>4
<1>6. Range(d.header[s].sectors) \subseteq Range(e.header[s].sectors)
  BY DEF Extends
<1>7. \A x, y \in d.used : Rooted(d.block, d.header[s].sectors, x, y) =>
       /\ Rooted(e.block, e.header[s].sectors, x, y)
       /\ Range(d.block[y]) \subseteq Range(e.block[y])
  <2>1. \A x, y \in d.used : Rooted(d.block, d.header[s].sectors, x, y) =>
          /\ Rooted(m.block, m.header[s].sectors, x, y)
          /\ Range(d.block[y]) \subseteq Range(m.block[y])
    BY DEF Extends
  <2>2. \A x, y \in m.used : Rooted(m.block, m.header[s].sectors, x, y) =>
          /\ Rooted(e.block, e.header[s].sectors, x, y)
          /\ Range(m.block[y]) \subseteq Range(e.block[y])
    BY DEF Extends
  <2> QED BY <1>1, <2>1, <2>2
<1>8. d.header[s].bytes <= e.header[s].bytes
  <2>1. d.header[s].bytes \in Nat /\ m.header[s].bytes \in Nat /\ e.header[s].bytes \in Nat
    BY DiskParts DEF FileHeader
  <2>2. d.header[s].bytes <= m.header[s].bytes /\ m.header[s].bytes <= e.header[s].bytes
    BY DEF Extends
  <2> QED BY <2>1, <2>2
<1>9. KeptAs(d, e, s) \/ HoldsAt(d.used, e, s, FindClear(d.used))
  <2>1. CASE HoldsAt(d.used, m, s, FindClear(d.used))
    BY <1>1, <2>1, HoldsOn
  <2>2. CASE KeptAs(d, m, s) /\ KeptAs(m, e, s)
    BY <2>2 DEF KeptAs, Alike
  <2>3. CASE KeptAs(d, m, s) /\ HoldsAt(m.used, e, s, FindClear(m.used))
    BY <2>3 DEF KeptAs
  <2> QED BY <2>1, <2>2, <2>3 DEF Extends
<1> QED BY <1>1, <1>2, <1>3, <1>5, <1>6, <1>7, <1>8, <1>9 DEF Extends

(* Nothing of a directory changes but blocks that are not in use. *)
LEMMA StaysPut ==
  ASSUME NEW d \in Disk, NEW e \in Disk, NEW s \in Sector, DirShape(d, s),
         e.header = d.header, e.lost = d.lost, e.used = d.used, Alike(d.block, e.block, d.used)
  PROVE  Extends(d, e, s) /\ DirShape(e, s) /\ KeptAs(d, e, s)
<1>1. KeptAs(d, e, s)
  BY DEF KeptAs
<1>2. d.header[s].bytes <= e.header[s].bytes
  <2>1. d.header[s].bytes \in Nat
    BY DiskParts DEF FileHeader
  <2> QED BY <2>1
<1>3. CASE d.header[s] = NewHeader
  <2>1. e.header[s].sectors = <<>> /\ d.header[s].sectors = <<>>
    BY <1>3 DEF NewHeader
  <2>2. Blocks(d, s) = {} /\ Holdings(d, s) = {} /\ Blocks(e, s) = {} /\ Holdings(e, s) = {}
    BY <2>1, EmptyTree DEF Blocks, Holdings
  <2>3. \A x, y : ~Rooted(d.block, d.header[s].sectors, x, y)
    <3>1. ASSUME NEW x, NEW y, Rooted(d.block, d.header[s].sectors, x, y) PROVE FALSE
      <4>1. Range(<<>>) = {x}
        BY <2>1, <3>1, RootedTree
      <4> QED BY <4>1, EmptyTree
    <3> QED BY <3>1
  <2>4. DirShape(e, s)
    BY <1>3 DEF DirShape
  <2> QED BY <1>1, <1>2, <2>2, <2>3, <2>4 DEF Extends, Alike
<1>4. CASE \E x, y : Leafy(d.block, d.used, d.header[s], x, y)
  <2>1. PICK x, y : Leafy(d.block, d.used, d.header[s], x, y)
    BY <1>4
  <2>2. x \in d.used /\ y \in d.used /\ Rooted(d.block, d.header[s].sectors, x, y)
    BY <2>1 DEF Leafy
  <2>3. e.block[x] = d.block[x] /\ e.block[y] = d.block[y]
    BY <2>2 DEF Alike
  <2>4. Rooted(e.block, e.header[s].sectors, x, y)
    BY <2>2, <2>3 DEF Rooted
  <2>5. Blocks(d, s) = Blocks(e, s) /\ Holdings(d, s) = Holdings(e, s)
    <3>1. Blocks(d, s) = {x, y} /\ Holdings(d, s) = {x, y} \cup Range(d.block[y])
      BY <2>2, RootedTree DEF Blocks, Holdings
    <3>2. Blocks(e, s) = {x, y} /\ Holdings(e, s) = {x, y} \cup Range(e.block[y])
      BY <2>4, RootedTree DEF Blocks, Holdings
    <3> QED BY <2>3, <3>1, <3>2
  <2>6. \A p, q \in d.used : Rooted(d.block, d.header[s].sectors, p, q) =>
       /\ Rooted(e.block, e.header[s].sectors, p, q)
       /\ Range(d.block[q]) \subseteq Range(e.block[q])
    BY DEF Rooted, Alike
  <2>7. Leafy(e.block, e.used, e.header[s], x, y)
    BY <2>1, <2>3, <2>4 DEF Leafy
  <2>8. DirShape(e, s)
    BY <2>7 DEF DirShape
  <2> QED BY <1>1, <1>2, <2>5, <2>6, <2>8 DEF Extends, Alike
<1> QED BY <1>3, <1>4 DEF DirShape

(* A file that is written behind its end: the whole of Extend.                *)
LEMMA ExtendIs ==
  ASSUME NEW d \in Disk, NEW s \in Sector, NEW h \in OpenHeader, NEW n \in Nat
  PROVE  LET a == Allocate(d.block, d.used, h, n)
             w == Extend(d, s, h, a)
         IN IF a.ok THEN w.header = a.header /\ ~w.dead /\ Stores(d, s, a, w.disk)
            ELSE w.header = h /\ w.dead /\ w.disk = [d EXCEPT !.block = a.block]
<1> DEFINE a == Allocate(d.block, d.used, h, n)
           d1 == [d EXCEPT !.block = a.block]
           d2 == WriteHeader(d1, s, a.header)
           d3 == [d2 EXCEPT !.used = a.map]
           w == Extend(d, s, h, a)
<1>1. /\ a.map \in SUBSET Sector /\ d.used \subseteq a.map
      /\ a.block \in [Sector -> Seq(Sector)] /\ BlocksFit(a.block) /\ a.header \in OpenHeader
  <2>1. d.block \in [Sector -> Seq(Sector)] /\ BlocksFit(d.block) /\ d.used \in SUBSET Sector
    BY DiskParts
  <2>2. Granted(d.used, a)
    BY <2>1, AllocateFacts
  <2> QED BY <2>2 DEF Granted
<1>2. w = IF ~a.ok THEN [disk |-> d1, header |-> h, dead |-> TRUE]
          ELSE [disk |-> d3, header |-> a.header, dead |-> FALSE]
  BY DEF Extend
<1> HIDE DEF a
<1>3. d1 \in Disk /\ d1.used = d.used /\ d1.table = d.table /\ d1.block = a.block
      /\ d1.header = d.header /\ d1.lost = d.lost
  <2>1. d1.lost = d.lost
    BY DEF Disk
  <2> QED BY <1>1, <2>1, DiskBlock
<1> HIDE DEF d1
<1>4. d2 \in Disk /\ d2.table = d.table /\ d2.block = a.block
  BY <1>1, <1>3, WriteHeaderFacts
<1>5. d2.header = [d.header EXCEPT ![s] = [bytes |-> a.header.bytes, sectors |-> Kept(a.header)]]
      /\ d2.lost = d.lost \cup Range(Behind(a.header))
  <2>1. /\ d2.header = [d1.header EXCEPT ![s] = [bytes |-> a.header.bytes, sectors |-> Kept(a.header)]]
        /\ d2.lost = d1.lost \cup Range(Behind(a.header))
    BY <1>1, <1>3, WriteHeaderIs
  <2> QED BY <1>3, <2>1
<1> HIDE DEF d2
<1>6. /\ d3 \in Disk /\ d3.used = a.map /\ d3.table = d2.table /\ d3.block = d2.block
      /\ d3.header = d2.header /\ d3.lost = d2.lost
  <2>1. d3.lost = d2.lost
    BY <1>4 DEF Disk
  <2> QED BY <1>1, <1>4, <2>1, DiskUsed
<1> HIDE DEF d3
<1>7. Stores(d, s, a, d3)
  BY <1>4, <1>5, <1>6 DEF Stores
<1> HIDE DEF w
<1>8. IF a.ok THEN w.header = a.header /\ ~w.dead /\ Stores(d, s, a, w.disk)
      ELSE w.header = h /\ w.dead /\ w.disk = d1
  BY <1>2, <1>7
<1> QED BY <1>8 DEF a, w, d1

(* The first write to an empty directory.                                     *)
LEMMA GrowsNew ==
  ASSUME NEW d \in Disk, NEW s \in Sector, d.header[s] = NewHeader, NEW a,
         a = Allocate(d.block, d.used, NewHeader, 1), a.ok, NEW e, Stores(d, s, a, e)
  PROVE  /\ Extends(d, e, s) /\ DirShape(e, s)
         /\ e.header[s] = a.header /\ HoldsAt(d.used, e, s, FindClear(d.used))
<1> DEFINE c == FindClear(d.used)
           q == a.header.sectors
<1>1. /\ d.block \in [Sector -> Seq(Sector)] /\ BlocksFit(d.block) /\ d.used \in SUBSET Sector
      /\ d.header \in [Sector -> FileHeader] /\ NewHeader \in OpenHeader
  <2>1. NewHeader \in OpenHeader
    BY DiskParts
  <2> QED BY <2>1, DiskParts
<1>2. /\ Planted(d.block, d.used, 1, a) /\ a.header.bytes = 1
  <2>1. Roundup(1) = 1 /\ 1 \in Nat
    BY RoundupSmall
  <2> QED BY <1>1, <2>1, NewFile
<1>3. a.map \in SUBSET Sector /\ d.used \subseteq a.map /\ a.header \in OpenHeader
      /\ a.block \in [Sector -> Seq(Sector)]
  <2>1. Granted(d.used, a)
    BY <1>1, AllocateFacts
  <2> QED BY <2>1 DEF Granted
<1>4. /\ Alike(d.block, a.block, d.used) /\ a.map \ d.used = Tree(a.block, q)
      /\ q[1] = c /\ Whole(1, a.block, q)
  BY <1>2 DEF Planted
<1> DEFINE y == a.block[c][1]
<1>5. /\ Len(q) = 1 /\ c \notin Range(a.block[c])
      /\ Len(a.block[c]) = 1 /\ Len(a.block[y]) = 1
  <2>1. 1 <= MaxBlocksNum
    BY BlocksReachDisk
  <2>2. /\ Len(q) = 1 /\ q[1] \notin Range(a.block[q[1]])
        /\ Len(a.block[q[1]]) = 1 /\ Len(a.block[a.block[q[1]][1]]) = 1
    BY <1>4, <2>1 DEF Whole
  <2>3. q[1] = c
    BY <1>4
  <2> HIDE DEF q, c
  <2> QED BY <2>2, <2>3
<1>6. q \in Seq(Sector) /\ c \in Sector /\ q = <<c>>
  <2>1. q \in Seq(Sector)
    BY <1>3 DEF OpenHeader, FileHeader
  <2>2. q[1] \in Sector
    BY <1>5, <2>1
  <2> QED BY <1>4, <1>5, <2>1, <2>2
<1>7. y \in Sector /\ a.block[c] = <<y>> /\ y # c
  <2> DEFINE b == a.block[c]
  <2>1. b \in Seq(Sector) /\ Len(b) = 1
    BY <1>3, <1>5, <1>6
  <2> HIDE DEF b
  <2>2. b[1] \in Sector /\ b = <<b[1]>> /\ b[1] \in Range(b)
    <3>1. DOMAIN b = {1}
      BY <2>1
    <3>2. b[1] \in Range(b)
      BY <3>1 DEF Range
    <3>3. b[1] \in Sector
      <4>1. 1 \in 1 .. Len(b)
        BY <2>1
      <4> QED BY <2>1, <4>1, PartOfSeq
    <3> DEFINE v == b[1]
    <3>4. b = <<v>>
      <4>1. v \in Sector /\ b[1] = v
        BY <3>3
      <4> HIDE DEF v
      <4> QED BY <2>1, <4>1
    <3> QED BY <3>2, <3>3, <3>4
  <2> QED BY <1>5, <2>2 DEF b
<1>8. e.header[s] = a.header /\ \A u \in Sector \ {s} : e.header[u] = d.header[u]
  <2>1. e.header[s] = [bytes |-> a.header.bytes, sectors |-> Kept(a.header)]
        /\ \A u \in Sector \ {s} : e.header[u] = d.header[u]
    BY <1>1 DEF Stores
  <2>2. Kept(a.header) = q
    BY <1>3, <1>6, KeptOne
  <2>3. a.header = [bytes |-> a.header.bytes, sectors |-> a.header.sectors]
    BY <1>3 DEF OpenHeader, FileHeader
  <2> QED BY <2>1, <2>2, <2>3
<1>9. e.lost = d.lost /\ e.used = a.map /\ e.block = a.block
  <2>1. Range(Behind(a.header)) = {}
    BY <1>3, <1>6, KeptOne
  <2> QED BY <2>1 DEF Stores
<1> HIDE DEF c, y
<1>10. Rooted(e.block, e.header[s].sectors, c, y)
  BY <1>6, <1>7, <1>8, <1>9 DEF Rooted
<1>11. d.header[s].sectors = <<>> /\ d.header[s].bytes = 0
  BY DEF NewHeader
<1>12. Blocks(d, s) = {} /\ Holdings(d, s) = {}
  BY <1>11, EmptyTree DEF Blocks, Holdings
<1>13. Blocks(e, s) = {c, y} /\ Holdings(e, s) = a.map \ d.used /\ {c, y} \subseteq Holdings(e, s)
  <2>1. Blocks(e, s) = {c, y} /\ {c, y} \subseteq Holdings(e, s)
    BY <1>10, RootedTree DEF Blocks, Holdings
  <2>2. Holdings(e, s) = a.map \ d.used
    BY <1>4, <1>8, <1>9 DEF Holdings
  <2> QED BY <2>1, <2>2
<1>14. HoldsAt(d.used, e, s, c)
  <2>1. Range(e.header[s].sectors) = {c}
    BY <1>10, RootedTree
  <2> QED BY <2>1 DEF HoldsAt
<1>15. \A u, v : ~Rooted(d.block, d.header[s].sectors, u, v)
  <2>1. ASSUME NEW u, NEW v, Rooted(d.block, d.header[s].sectors, u, v) PROVE FALSE
    <3>1. Range(<<>>) = {u}
      BY <1>11, <2>1, RootedTree
    <3> QED BY <3>1, EmptyTree
  <2> QED BY <2>1
<1>16. Extends(d, e, s)
  <2>1. \A u \in d.used \ Blocks(d, s) : e.block[u] = d.block[u]
    BY <1>4, <1>9 DEF Alike
  <2>2. Blocks(e, s) \cap d.used \subseteq Blocks(d, s)
    BY <1>13
  <2>3. Holdings(d, s) \subseteq Holdings(e, s) /\ Holdings(e, s) \subseteq Holdings(d, s) \cup (Sector \ d.used)
        /\ e.used \subseteq d.used \cup Holdings(e, s) /\ d.used \subseteq e.used
        /\ Holdings(e, s) \subseteq e.used
    BY <1>3, <1>9, <1>12, <1>13
  <2>4. Range(d.header[s].sectors) \subseteq Range(e.header[s].sectors)
    BY <1>11, EmptyTree
  <2>5. d.header[s].bytes <= e.header[s].bytes
    BY <1>2, <1>8, <1>11
  <2>6. HoldsAt(d.used, e, s, FindClear(d.used))
    BY <1>14 DEF c
  <2> QED BY <1>8, <1>9, <1>15, <2>1, <2>2, <2>3, <2>4, <2>5, <2>6 DEF Extends
<1>17. Leafy(e.block, e.used, e.header[s], c, y)
  <2>1. Len(e.block[y]) = 1 /\ e.header[s].bytes = 1
    BY <1>2, <1>5, <1>8, <1>9
  <2>2. Room \in Nat /\ Room > 0
    <3>1. DirectoryFileSize \in Nat /\ DirectoryFileSize > 0
      <4>1. EntrySize \in Nat \ {0} /\ NumDirEntries \in Nat \ {0}
        BY DiskAssumption
      <4>2. \A i, j \in Nat \ {0} : i * j \in Nat /\ i * j > 0
        OBVIOUS
      <4> QED BY <4>1, <4>2 DEF DirectoryFileSize
    <3> QED BY <3>1, RoundupFacts, RoundupSmall DEF Room
  <2>3. c \in e.used /\ y \in e.used
    BY <1>9, <1>13
  <2> QED BY <1>10, <2>1, <2>2, <2>3, RoundupSmall DEF Leafy
<1>18. DirShape(e, s)
  BY <1>17 DEF DirShape
<1> QED BY <1>8, <1>14, <1>16, <1>18 DEF c

(* How large directories are.                                                 *)
LEMMA RoomFacts ==
  /\ DirectoryFileSize \in Nat /\ DirectoryFileSize > 0 /\ Room \in Nat /\ Room > 0
  /\ 4 * Room <= MaxBlocksNum /\ Roundup(2 * DirectoryFileSize) <= 2 * Room
  /\ 2 * Room + 7 <= NumSectors
<1>1. DirectoryFileSize \in Nat /\ DirectoryFileSize > 0
  <2>1. EntrySize \in Nat \ {0} /\ NumDirEntries \in Nat \ {0}
    BY DiskAssumption
  <2>2. \A i, j \in Nat \ {0} : i * j \in Nat /\ i * j > 0
    OBVIOUS
  <2> QED BY <2>1, <2>2 DEF DirectoryFileSize
<1>2. Room \in Nat /\ Room > 0
  BY <1>1, RoundupFacts, RoundupSmall DEF Room
<1>3. 4 * Room <= MaxBlocksNum /\ 2 * Room + 7 <= NumSectors
  BY DirectoryAssumption DEF Room
<1>4. Roundup(2 * DirectoryFileSize) <= 2 * Room
  <2> DEFINE z == DirectoryFileSize
  <2>1. z \in Nat /\ 2 * z = z + z
    BY <1>1
  <2>2. Roundup(z + z) <= Roundup(z) + Roundup(z)
    BY <2>1, RoundupSum
  <2> QED BY <1>2, <2>1, <2>2 DEF Room
<1> QED BY <1>1, <1>2, <1>3, <1>4

(* A directory grows by the length of its entries, at most twice. *)
LEMMA GrownFits ==
  ASSUME NEW l \in Nat, NEW bytes \in Nat, NEW size, size \in {DirectoryFileSize, 2 * DirectoryFileSize},
         0 < bytes, bytes <= size, Roundup(bytes) <= l,
         bytes <= 2 * DirectoryFileSize => l <= 2 * Room, bytes <= DirectoryFileSize => l <= Room
  PROVE  /\ size \in Nat /\ Roundup(size) \in Nat /\ Roundup(size) > 0
         /\ l + Roundup(size) <= 4 * Room /\ l + Roundup(size) <= MaxBlocksNum
         /\ Roundup(bytes + size) <= l + Roundup(size)
         /\ bytes + size <= 2 * DirectoryFileSize => l + Roundup(size) <= 2 * Room
         /\ ~(bytes + size <= DirectoryFileSize)
<1> DEFINE z == DirectoryFileSize
           n == Roundup(size)
<1>1. /\ z \in Nat /\ z > 0 /\ Room \in Nat /\ 4 * Room <= MaxBlocksNum /\ MaxBlocksNum \in Nat
      /\ Roundup(2 * z) <= 2 * Room /\ Roundup(z) = Room
  BY RoomFacts, BlocksReachDisk DEF Room
<1>2. size \in Nat /\ size > 0
  BY <1>1
<1>3. n \in Nat /\ n > 0 /\ Roundup(bytes + size) <= Roundup(bytes) + n /\ Roundup(bytes) \in Nat
      /\ Roundup(bytes + size) \in Nat
  <2>1. bytes + size \in Nat
    BY <1>2
  <2> QED BY <1>2, <2>1, RoundupFacts, RoundupSmall, RoundupSum
<1>4. (size = z => n = Room) /\ (size = 2 * z => n <= 2 * Room)
  BY <1>1
<1>5. size = z \/ size = 2 * z
  OBVIOUS
<1> HIDE DEF z, n
<1>6. Roundup(bytes + size) <= l + n
  BY <1>3
<1>7. bytes <= 2 * z => l <= 2 * Room
  BY DEF z
<1>8. bytes <= z => l <= Room
  BY DEF z
<1>9. l + n <= 4 * Room
  BY <1>1, <1>3, <1>4, <1>5, <1>7, <1>8
<1>10. bytes + size <= 2 * z => l + n <= 2 * Room
  BY <1>1, <1>3, <1>4, <1>5, <1>7, <1>8
<1>11. ~(bytes + size <= z)
  BY <1>1, <1>5
<1>12. l + n <= MaxBlocksNum
  BY <1>1, <1>3, <1>9
<1> QED BY <1>2, <1>3, <1>6, <1>9, <1>10, <1>11, <1>12 DEF z, n

(* Two lists of sectors one after the other.                                  *)
LEMMA RangeOfJoined ==
  ASSUME NEW S, NEW p \in Seq(S), NEW q \in Seq(S)
  PROVE  /\ p \o q \in Seq(S) /\ Len(p \o q) = Len(p) + Len(q)
         /\ Range(p \o q) = Range(p) \cup Range(q)
<1> DEFINE r == p \o q
<1>1. Len(p) \in Nat /\ Len(q) \in Nat /\ r \in Seq(S) /\ Len(r) = Len(p) + Len(q)
      /\ \A i \in 1 .. Len(p) + Len(q) : r[i] = IF i <= Len(p) THEN p[i] ELSE q[i - Len(p)]
  OBVIOUS
<1>2. Range(p) = {p[i] : i \in 1 .. Len(p)} /\ Range(q) = {q[i] : i \in 1 .. Len(q)}
  BY DEF Range
<1>3. Range(r) = {r[i] : i \in 1 .. Len(p) + Len(q)}
  <2>1. DOMAIN r = 1 .. Len(p) + Len(q)
    BY <1>1
  <2> HIDE DEF r
  <2> QED BY <2>1 DEF Range
<1> HIDE DEF r
<1>4. \A i \in 1 .. Len(p) : i \in 1 .. Len(p) + Len(q) /\ r[i] = p[i]
  BY <1>1
<1>5. ASSUME NEW i \in 1 .. Len(q)
      PROVE  Len(p) + i \in 1 .. Len(p) + Len(q) /\ r[Len(p) + i] = q[i]
  <2> DEFINE j == Len(p) + i
  <2>1. j \in 1 .. Len(p) + Len(q) /\ ~(j <= Len(p)) /\ j - Len(p) = i
    BY <1>1
  <2> HIDE DEF j
  <2>2. r[j] = q[j - Len(p)]
    BY <1>1, <2>1
  <2>3. r[j] = q[i]
    BY <2>1, <2>2
  <2> QED BY <2>1, <2>3 DEF j
<1>6. ASSUME NEW i \in 1 .. Len(p) + Len(q)
      PROVE  r[i] \in Range(p) \cup Range(q)
  <2>1. CASE i <= Len(p)
    <3>1. i \in 1 .. Len(p)
      BY <1>1, <2>1
    <3> QED BY <1>2, <1>4, <3>1
  <2>2. CASE ~(i <= Len(p))
    <3>1. i - Len(p) \in 1 .. Len(q) /\ r[i] = q[i - Len(p)]
      BY <1>1, <2>2
    <3> QED BY <1>2, <3>1
  <2> QED BY <2>1, <2>2
<1>7. Range(r) = Range(p) \cup Range(q)
  BY <1>2, <1>3, <1>4, <1>5, <1>6
<1> QED BY <1>1, <1>7 DEF r

(* A directory that has sectors takes more.                                   *)
LEMMA GrowsLeafy ==
  ASSUME NEW d \in Disk, NEW s \in Sector, NEW x, NEW y,
         Leafy(d.block, d.used, d.header[s], x, y),
         NEW size, size \in {DirectoryFileSize, 2 * DirectoryFileSize}, d.header[s].bytes <= size,
         NEW a, a = Allocate(d.block, d.used, d.header[s], size)
  PROVE  /\ ~a.ok => a.block = d.block
         /\ a.ok => \A e : Stores(d, s, a, e) =>
                      /\ Extends(d, e, s) /\ DirShape(e, s)
                      /\ e.header[s] = a.header /\ HoldsAt(d.used, e, s, FindClear(d.used))
<1> DEFINE h == d.header[s]
           n == Roundup(size)
           t == FirstClear(d.used, n)
           l == Len(d.block[y])
<1>1. /\ d.block \in [Sector -> Seq(Sector)] /\ BlocksFit(d.block) /\ d.used \in SUBSET Sector
      /\ d.header \in [Sector -> FileHeader] /\ h \in OpenHeader /\ h.bytes \in Nat
      /\ h.sectors \in Seq(Sector)
  BY DiskParts DEF OpenHeader, FileHeader
<1>2. /\ x \in d.used /\ y \in d.used /\ Rooted(d.block, h.sectors, x, y)
      /\ h.bytes > 0 /\ Roundup(h.bytes) <= l
      /\ h.bytes <= 2 * DirectoryFileSize => l <= 2 * Room
      /\ h.bytes <= DirectoryFileSize => l <= Room
  BY DEF Leafy
<1>3. l \in Nat /\ d.block[y] \in Seq(Sector) /\ y \in Sector /\ x \in Sector /\ x # y
      /\ h.sectors = <<x>> /\ d.block[x] = <<y>>
  BY <1>1, <1>2 DEF Rooted
<1>4. /\ size \in Nat /\ n \in Nat /\ n > 0
      /\ l + n <= 4 * Room /\ l + n <= MaxBlocksNum
      /\ Roundup(h.bytes + size) <= l + n
      /\ h.bytes + size <= 2 * DirectoryFileSize => l + n <= 2 * Room
      /\ ~(h.bytes + size <= DirectoryFileSize)
  <2> DEFINE b == h.bytes
  <2>1. /\ l \in Nat /\ b \in Nat /\ size \in {DirectoryFileSize, 2 * DirectoryFileSize}
        /\ 0 < b /\ b <= size /\ Roundup(b) <= l
        /\ b <= 2 * DirectoryFileSize => l <= 2 * Room
        /\ b <= DirectoryFileSize => l <= Room
    BY <1>1, <1>2, <1>3
  <2> HIDE DEF b, l
  <2> SUFFICES /\ size \in Nat /\ Roundup(size) \in Nat /\ Roundup(size) > 0
               /\ l + Roundup(size) <= 4 * Room /\ l + Roundup(size) <= MaxBlocksNum
               /\ Roundup(b + size) <= l + Roundup(size)
               /\ b + size <= 2 * DirectoryFileSize => l + Roundup(size) <= 2 * Room
               /\ ~(b + size <= DirectoryFileSize)
    BY DEF b
  <2> QED BY ONLY <2>1, GrownFits
<1> HIDE DEF l, h
<1>5. IF Cardinality(Clear(d.used)) < n THEN ~a.ok /\ ~a.dead /\ a.block = d.block
      ELSE /\ a.ok /\ a.map = d.used \cup Range(t)
           /\ a.block = [d.block EXCEPT ![y] = d.block[y] \o t]
           /\ a.header = [bytes |-> h.bytes + size, sectors |-> h.sectors]
  <2>1. Len(d.block[y]) + Roundup(size) <= MaxBlocksNum
    BY <1>4 DEF l
  <2>2. a = Allocate(d.block, d.used, h, size)
    BY DEF h
  <2>3. /\ d.block \in [Sector -> Seq(Sector)] /\ BlocksFit(d.block) /\ d.used \in SUBSET Sector
        /\ h \in OpenHeader /\ Rooted(d.block, h.sectors, x, y) /\ y \in d.used /\ size \in Nat
        /\ Roundup(size) > 0 /\ Len(d.block[y]) + Roundup(size) <= MaxBlocksNum
    BY <1>1, <1>2, <1>4, <2>1
  <2>4. Enlarged(d.block, d.used, h, y, size, Allocate(d.block, d.used, h, size))
    BY ONLY <2>3, GrowFile
  <2>5. Enlarged(d.block, d.used, h, y, size, a)
    BY ONLY <2>2, <2>4
  <2> QED BY <2>5 DEF Enlarged
<1>6. ~a.ok => a.block = d.block
  BY <1>5
<1>7. ASSUME a.ok, NEW e, Stores(d, s, a, e)
      PROVE  /\ Extends(d, e, s) /\ DirShape(e, s)
             /\ e.header[s] = a.header /\ HoldsAt(d.used, e, s, FindClear(d.used))
  <2>1. /\ a.map = d.used \cup Range(t) /\ n <= Cardinality(Clear(d.used))
        /\ a.block = [d.block EXCEPT ![y] = d.block[y] \o t]
        /\ a.header = [bytes |-> h.bytes + size, sectors |-> h.sectors]
    <3>1. Cardinality(Clear(d.used)) \in Nat
      BY ClearFinite
    <3> HIDE DEF n
    <3> QED BY <1>4, <1>5, <1>7, <3>1
  <2>2. t \in Seq(Sector) /\ Len(t) = n /\ Range(t) \subseteq Clear(d.used)
        /\ FindClear(d.used) \in Range(t)
    <3>1. t \in Seq(Sector) /\ Len(t) = n /\ Range(t) \subseteq Clear(d.used)
      BY <1>4, <2>1, FirstClearFacts
    <3>2. t[1] = FindClear(d.used)
      BY <1>4, <2>1, FirstTaken
    <3> HIDE DEF t, n
    <3>3. t[1] \in Range(t)
      <4>1. 1 \in DOMAIN t
        BY <1>4, <3>1
      <4> QED BY <4>1 DEF Range
    <3> QED BY <3>1, <3>2, <3>3
  <2> HIDE DEF t, n
  <2>3. /\ a.header \in OpenHeader /\ a.header.sectors = <<x>> /\ a.header.bytes = h.bytes + size
    <3>1. a.header.sectors = <<x>> /\ a.header.bytes = h.bytes + size
      BY <1>3, <2>1
    <3>2. h.bytes + size \in Nat
      BY <1>1, <1>4
    <3>3. a.header \in OpenHeader
      BY <1>1, <2>1, <3>2 DEF OpenHeader, FileHeader
    <3> QED BY <3>1, <3>3
  <2>4. Kept(a.header) = <<x>> /\ Range(Behind(a.header)) = {}
    BY <1>3, <2>3, KeptOne
  <2>5. e.header[s] = a.header /\ \A u \in Sector \ {s} : e.header[u] = d.header[u]
    <3>1. e.header[s] = [bytes |-> a.header.bytes, sectors |-> Kept(a.header)]
          /\ \A u \in Sector \ {s} : e.header[u] = d.header[u]
      BY <1>1, <1>7 DEF Stores
    <3> QED BY <1>3, <2>1, <2>3, <2>4, <3>1
  <2>6. e.lost = d.lost /\ e.used = d.used \cup Range(t) /\ e.block = a.block
    BY <1>7, <2>1, <2>4 DEF Stores
  <2>7. e.block[y] = d.block[y] \o t /\ \A u \in Sector \ {y} : e.block[u] = d.block[u]
    BY <1>1, <1>3, <2>1, <2>6
  <2>8. Rooted(e.block, e.header[s].sectors, x, y)
    BY <1>3, <2>3, <2>5, <2>7 DEF Rooted
  <2>9. Range(e.block[y]) = Range(d.block[y]) \cup Range(t) /\ Len(e.block[y]) = l + n
    <3> DEFINE p == d.block[y]
    <3>1. p \in Seq(Sector) /\ t \in Seq(Sector)
      BY <1>3, <2>2
    <3>2. e.block[y] = p \o t /\ Len(p) = l
      BY <2>7 DEF l
    <3> HIDE DEF p
    <3>3. Len(p \o t) = Len(p) + Len(t) /\ Range(p \o t) = Range(p) \cup Range(t)
      BY <3>1, RangeOfJoined
    <3> QED BY <2>2, <3>2, <3>3 DEF p
  <2>10. Blocks(d, s) = {x, y} /\ Holdings(d, s) = {x, y} \cup Range(d.block[y])
    BY <1>2, RootedTree DEF Blocks, Holdings, h
  <2>11. Blocks(e, s) = {x, y} /\ Holdings(e, s) = {x, y} \cup Range(e.block[y])
    BY <2>8, RootedTree DEF Blocks, Holdings
  <2>12. HoldsAt(d.used, e, s, FindClear(d.used))
    BY <1>2, <2>2, <2>8, <2>9 DEF HoldsAt
  <2>13. \A u, v \in d.used : Rooted(d.block, d.header[s].sectors, u, v) =>
           /\ Rooted(e.block, e.header[s].sectors, u, v)
           /\ Range(d.block[v]) \subseteq Range(e.block[v])
    <3>1. ASSUME NEW u, NEW v, Rooted(d.block, d.header[s].sectors, u, v) PROVE u = x /\ v = y
      <4>1. d.header[s].sectors = <<u>> /\ d.header[s].sectors = <<x>>
            /\ d.block[u] = <<v>>
        BY <1>3, <3>1 DEF Rooted, h
      <4>2. u = x
        BY <4>1
      <4> QED BY <1>3, <4>1, <4>2
    <3> QED BY <2>8, <2>9, <3>1
  <2>14. Extends(d, e, s)
    <3>1. \A u \in d.used \ Blocks(d, s) : e.block[u] = d.block[u]
      BY <1>1, <2>7, <2>10
    <3>2. Range(t) \cap d.used = {} /\ Range(t) \subseteq Sector
      BY <2>2 DEF Clear
    <3>3. /\ Blocks(e, s) \cap d.used \subseteq Blocks(d, s)
          /\ Holdings(d, s) \subseteq Holdings(e, s)
          /\ Holdings(e, s) \subseteq Holdings(d, s) \cup (Sector \ d.used)
          /\ e.used \subseteq d.used \cup Holdings(e, s) /\ d.used \subseteq e.used
          /\ Holdings(d, s) \subseteq d.used => Holdings(e, s) \subseteq e.used
      BY <2>6, <2>9, <2>10, <2>11, <3>2
    <3>4. Range(d.header[s].sectors) \subseteq Range(e.header[s].sectors)
      BY <1>3, <2>3, <2>5 DEF h
    <3>5. d.header[s].bytes <= e.header[s].bytes
      BY <1>1, <1>4, <2>3, <2>5 DEF h
    <3> QED BY <2>5, <2>6, <2>12, <2>13, <3>1, <3>3, <3>4, <3>5 DEF Extends
  <2>15. Leafy(e.block, e.used, e.header[s], x, y)
    <3>1. e.header[s].bytes = h.bytes + size /\ h.bytes + size > 0
      BY <1>1, <1>2, <1>4, <2>3, <2>5
    <3>2. x \in e.used /\ y \in e.used
      BY <1>2, <2>6
    <3> QED BY <1>4, <2>8, <2>9, <3>1, <3>2 DEF Leafy
  <2> QED BY <2>5, <2>12, <2>14, <2>15 DEF DirShape
<1> QED BY <1>6, <1>7

(* What a write changes of the disk.                                          *)
LEMMA WriteIs ==
  ASSUME NEW d \in Disk, NEW s \in Sector, NEW h \in OpenHeader, NEW position \in Nat, NEW n \in Nat
  PROVE  /\ Write(d, s, h, position, n) \in Writing
         /\ Write(d, s, h, position, n).disk = Begun(d, s, h, position, n).disk
         /\ Write(d, s, h, position, n).header = Begun(d, s, h, position, n).header
         /\ Begun(d, s, h, position, n).dead => Write(d, s, h, position, n).dead
<1> DEFINE w == IF position + n <= h.bytes THEN [disk |-> d, header |-> h, dead |-> FALSE]
                ELSE Extend(d, s, h, Allocate(d.block, d.used, h, n))
           stops == w.dead \/ ~Backed(w.disk, w.header, position + n)
           r == [w EXCEPT !.dead = stops]
<1>1. Write(d, s, h, position, n) = r
  BY Zenon DEF Write, WriteAt
<1>5. w = Begun(d, s, h, position, n)
  BY DEF Begun
<1>2. w \in Writing
  <2>1. CASE position + n <= h.bytes
    BY <2>1 DEF Writing
  <2>2. CASE ~(position + n <= h.bytes)
    BY <2>2, ExtendFacts
  <2> QED BY <2>1, <2>2
<1>3. stops \in BOOLEAN /\ (w.dead => stops)
  OBVIOUS
<1> HIDE DEF w, stops
<1>4. r \in Writing /\ r.disk = w.disk /\ r.header = w.header /\ (w.dead => r.dead)
  BY <1>2, <1>3 DEF Writing
<1> HIDE DEF r
<1> QED BY <1>1, <1>4, <1>5

(* A write to a directory, from its first byte or behind it.                  *)
LEMMA WriteDir ==
  ASSUME NEW d \in Disk, NEW s \in Sector, DirShape(d, s), NEW position \in Nat, NEW size \in Nat,
         \/ position = 0 /\ size = 1
         \/ /\ position = 1 /\ size \in {DirectoryFileSize, 2 * DirectoryFileSize}
            /\ d.header[s].bytes > 0
  PROVE  Wrote(d, s, Write(d, s, d.header[s], position, size))
<1> DEFINE h == d.header[s]
           a == Allocate(d.block, d.used, h, size)
           r == Write(d, s, h, position, size)
<1> SUFFICES Wrote(d, s, r)
  OBVIOUS
<1>1. h \in OpenHeader /\ h.bytes \in Nat /\ d.block \in [Sector -> Seq(Sector)] /\ BlocksFit(d.block)
      /\ d.used \in SUBSET Sector
  BY DiskParts DEF OpenHeader, FileHeader
<1>2. CASE position + size <= h.bytes
  <2>1. r \in Writing /\ r.disk = d /\ r.header = h
    <3>1. Begun(d, s, h, position, size) = [disk |-> d, header |-> h, dead |-> FALSE]
      BY <1>2 DEF Begun
    <3>2. /\ r \in Writing /\ r.disk = Begun(d, s, h, position, size).disk
          /\ r.header = Begun(d, s, h, position, size).header
      BY <1>1, WriteIs
    <3> QED BY <3>1, <3>2
  <2> HIDE DEF r, a
  <2>2. Alike(d.block, d.block, d.used)
    BY DEF Alike
  <2>3. Extends(d, d, s) /\ KeptAs(d, d, s)
    BY <2>2, StaysPut
  <2>4. h.bytes > 0
    BY <1>1, <1>2
  <2> QED BY <2>1, <2>3, <2>4 DEF Wrote, Firm
<1>3. CASE ~(position + size <= h.bytes)
  <2> DEFINE w == Extend(d, s, h, a)
  <2>1. r \in Writing /\ r.disk = w.disk /\ r.header = w.header /\ (w.dead => r.dead)
    <3>1. Begun(d, s, h, position, size) = w
      BY <1>3 DEF Begun
    <3>2. /\ r \in Writing /\ r.disk = Begun(d, s, h, position, size).disk
          /\ r.header = Begun(d, s, h, position, size).header
          /\ Begun(d, s, h, position, size).dead => r.dead
      BY <1>1, WriteIs
    <3> HIDE DEF w
    <3> QED BY <3>1, <3>2
  <2>2. IF a.ok THEN w.header = a.header /\ ~w.dead /\ Stores(d, s, a, w.disk)
        ELSE w.header = h /\ w.dead /\ w.disk = [d EXCEPT !.block = a.block]
    BY <1>1, ExtendIs
  <2>3. /\ a.header \in OpenHeader /\ a.block \in [Sector -> Seq(Sector)] /\ BlocksFit(a.block)
    <3>1. Granted(d.used, a)
      BY <1>1, AllocateFacts
    <3> QED BY <3>1 DEF Granted
  <2> HIDE DEF r, w
  <2>4. CASE h = NewHeader
    <3>1. position = 0 /\ size = 1
      BY <2>4 DEF NewHeader
    <3>2. a = Allocate(d.block, d.used, NewHeader, 1)
      BY <2>4, <3>1
    <3>3. Planted(d.block, d.used, 1, a) /\ (a.ok => a.header.bytes = 1)
      <4>1. Roundup(1) = 1 /\ 1 \in Nat
        BY RoundupSmall
      <4> QED BY <1>1, <3>2, <4>1, NewFile
    <3> HIDE DEF a
    <3>4. CASE a.ok
      <4>1. /\ Extends(d, w.disk, s) /\ DirShape(w.disk, s)
            /\ w.disk.header[s] = a.header /\ HoldsAt(d.used, w.disk, s, FindClear(d.used))
        BY <2>2, <2>4, <3>2, <3>4, GrowsNew
      <4>2. w.disk.table = d.table /\ w.header = a.header
        BY <2>2, <3>4 DEF Stores
      <4>3. w.disk.header[s].bytes > 0
        BY <3>3, <3>4, <4>1
      <4> QED BY <2>1, <4>1, <4>2, <4>3 DEF Wrote, Firm
    <3>5. CASE ~a.ok
      <4> DEFINE e == [d EXCEPT !.block = a.block]
      <4>1. e \in Disk /\ e.used = d.used /\ e.table = d.table /\ e.header = d.header /\ e.block = a.block
        BY <2>3, DiskBlock
      <4>2. e.lost = d.lost
        BY DEF Disk
      <4>3. r.disk = e /\ r.dead /\ r.header = h
        BY <2>1, <2>2, <3>5
      <4> HIDE DEF e
      <4>4. Alike(d.block, e.block, d.used)
        BY <3>3, <4>1 DEF Planted
      <4>5. Extends(d, e, s) /\ DirShape(e, s)
        BY <4>1, <4>2, <4>4, StaysPut
      <4> QED BY <2>1, <4>1, <4>3, <4>5 DEF Wrote, Firm
    <3> QED BY <3>4, <3>5
  <2>5. CASE \E x, y : Leafy(d.block, d.used, h, x, y)
    <3>1. PICK x, y : Leafy(d.block, d.used, h, x, y)
      BY <2>5
    <3>2. h.bytes > 0
      BY <3>1 DEF Leafy
    <3>3. size \in {DirectoryFileSize, 2 * DirectoryFileSize} /\ h.bytes <= size
      BY <1>1, <1>3, <3>2
    <3>4. /\ ~a.ok => a.block = d.block
          /\ a.ok => \A e : Stores(d, s, a, e) =>
                      /\ Extends(d, e, s) /\ DirShape(e, s)
                      /\ e.header[s] = a.header /\ HoldsAt(d.used, e, s, FindClear(d.used))
      BY <3>1, <3>3, GrowsLeafy
    <3> HIDE DEF a
    <3>5. CASE a.ok
      <4>1. /\ Extends(d, w.disk, s) /\ DirShape(w.disk, s)
            /\ w.disk.header[s] = a.header /\ HoldsAt(d.used, w.disk, s, FindClear(d.used))
        BY <2>2, <3>4, <3>5
      <4>2. w.disk.table = d.table /\ w.header = a.header
        BY <2>2, <3>5 DEF Stores
      <4>3. w.disk.header[s].bytes > 0
        <5>1. d.header[s].bytes <= w.disk.header[s].bytes
          BY <4>1 DEF Extends
        <5>2. a.header.bytes \in Nat
          BY <2>3 DEF OpenHeader, FileHeader
        <5> QED BY <1>1, <3>2, <4>1, <5>1, <5>2
      <4> QED BY <2>1, <4>1, <4>2, <4>3 DEF Wrote, Firm
    <3>6. CASE ~a.ok
      <4>1. [d EXCEPT !.block = a.block] = d
        BY <3>4, <3>6 DEF Disk
      <4>2. r.disk = d /\ r.dead /\ r.header = h
        BY <2>1, <2>2, <3>6, <4>1
      <4>3. Alike(d.block, d.block, d.used)
        BY DEF Alike
      <4>4. Extends(d, d, s)
        BY <4>3, StaysPut
      <4> QED BY <2>1, <4>2, <4>4 DEF Wrote, Firm
    <3> QED BY <3>5, <3>6
  <2> QED BY <2>4, <2>5 DEF DirShape
<1> QED BY <1>2, <1>3

(* Two writes, the first of which may have taken the first free sector.       *)
LEMMA FirmTwice ==
  ASSUME NEW d \in Disk, NEW m \in Disk, NEW e \in Disk, NEW s \in Sector,
         Extends(d, m, s), Extends(m, e, s), Firm(d, m, s), Firm(m, e, s)
  PROVE  Firm(d, e, s)
<1>1. d.used \subseteq m.used
  BY DEF Extends
<1>2. CASE HoldsAt(d.used, m, s, FindClear(d.used))
  BY <1>1, <1>2, HoldsOn DEF Firm
<1>3. CASE /\ KeptAs(d, m, s) /\ m.block = d.block
           /\ KeptAs(m, e, s) /\ e.block = m.block
  BY <1>3 DEF KeptAs, Alike, Firm
<1>4. CASE KeptAs(d, m, s) /\ HoldsAt(m.used, e, s, FindClear(m.used))
  BY <1>4 DEF KeptAs, Firm
<1> QED BY <1>2, <1>3, <1>4 DEF Firm

(* A change of tables is none of the sectors. *)
LEMMA TableAside ==
  ASSUME NEW d \in Disk, NEW e \in Disk, NEW s \in Sector, DirShape(d, s), e.header = d.header,
         e.lost = d.lost, e.used = d.used, e.block = d.block
  PROVE  Extends(d, e, s) /\ DirShape(e, s) /\ Firm(d, e, s)
<1>1. Alike(d.block, e.block, d.used)
  BY DEF Alike
<1> QED BY <1>1, StaysPut DEF Firm

(* The bytes of a directory of either size.                                   *)
LEMMA TableSize ==
  ASSUME NEW n \in {NumDirEntries, 2 * NumDirEntries}
  PROVE  n * EntrySize \in {DirectoryFileSize, 2 * DirectoryFileSize} /\ n * EntrySize \in Nat
<1>1. EntrySize \in Nat /\ NumDirEntries \in Nat
  BY DiskAssumption
<1>2. \A i, j \in Nat : i * j = j * i /\ (2 * i) * j = 2 * (j * i) /\ i * j \in Nat
  OBVIOUS
<1>3. CASE n = NumDirEntries
  BY <1>1, <1>2, <1>3 DEF DirectoryFileSize
<1>4. CASE n = 2 * NumDirEntries
  <2>1. n * EntrySize = 2 * (EntrySize * NumDirEntries)
    BY <1>1, <1>2, <1>4
  <2>2. n \in Nat
    BY <1>1, <1>4
  <2> QED BY <1>1, <1>2, <2>1, <2>2 DEF DirectoryFileSize
<1> QED BY <1>3, <1>4

(* The whole of Directory::WriteBack.                                         *)
LEMMA WriteTableDir ==
  ASSUME NEW d \in Disk, NEW s \in Sector, DirShape(d, s), NEW t \in Table,
         Len(t) \in {NumDirEntries, 2 * NumDirEntries}
  PROVE  TableWrote(d, s, t, WriteTable(d, s, t))
<1> DEFINE w1 == Write(d, s, d.header[s], 0, IntSize)
           longer == ExpandSize(w1.disk.table[s], Len(t))
           d2 == [w1.disk EXCEPT !.table[s] = longer]
           w2 == Write(d2, s, w1.header, IntSize, Len(t) * EntrySize)
           w == WriteEntries(w1, s, t)
           d3 == [w.disk EXCEPT !.table[s] = t]
           r == WriteTable(d, s, t)
<1> SUFFICES TableWrote(d, s, t, r)
  OBVIOUS
<1>1. Wrote(d, s, w1)
  <2>1. 0 \in Nat /\ 1 \in Nat /\ 0 = 0 /\ 1 = 1
    OBVIOUS
  <2> QED BY <2>1, WriteDir DEF IntSize
<1>2. w = IF w1.dead THEN w1 ELSE w2
  BY DEF WriteEntries
<1>3. r = IF w.dead THEN w ELSE [w EXCEPT !.disk = d3]
  BY Zenon DEF WriteTable, SetTable
<1>4. Stored(d, s, t, r)
  BY WriteTableFacts
<1> HIDE DEF r, w1, w
<1>5. /\ w1 \in Writing /\ w1.disk \in Disk /\ w1.header = w1.disk.header[s] /\ w1.disk.table = d.table
      /\ Extends(d, w1.disk, s) /\ DirShape(w1.disk, s)
      /\ ~w1.dead => w1.disk.header[s].bytes > 0 /\ Firm(d, w1.disk, s)
  BY <1>1 DEF Wrote, Writing
<1>6. longer \in Table
  <2>1. w1.disk.table[s] \in Table /\ Len(t) \in Nat
    BY <1>5, DiskParts, PartOfTable
  <2> QED BY <2>1, ExpandSizeFacts
<1> HIDE DEF longer
<1>7. /\ d2 \in Disk /\ d2.used = w1.disk.used /\ d2.header = w1.disk.header /\ d2.block = w1.disk.block
      /\ d2.lost = w1.disk.lost
  <2>1. d2.lost = w1.disk.lost
    BY <1>5 DEF Disk
  <2> QED BY <1>5, <1>6, <2>1, DiskTable
<1> HIDE DEF d2
<1>8. Extends(w1.disk, d2, s) /\ DirShape(d2, s) /\ Firm(w1.disk, d2, s)
  BY <1>5, <1>7, TableAside
<1>9. /\ w \in Writing /\ w.disk \in Disk /\ Extends(d, w.disk, s) /\ DirShape(w.disk, s)
      /\ ~w.dead => Firm(d, w.disk, s)
  <2>1. CASE w1.dead
    BY <1>2, <1>5, <2>1
  <2>2. CASE ~w1.dead
    <3> DEFINE n == Len(t) * EntrySize
    <3>1. n \in {DirectoryFileSize, 2 * DirectoryFileSize} /\ n \in Nat
      BY TableSize
    <3> HIDE DEF n
    <3>2. d2.header[s].bytes > 0 /\ IntSize = 1 /\ 1 \in Nat
      BY <1>5, <1>7, <2>2 DEF IntSize
    <3>3. Wrote(d2, s, Write(d2, s, d2.header[s], 1, n))
      BY <1>7, <1>8, <3>1, <3>2, WriteDir
    <3>4. w = Write(d2, s, d2.header[s], 1, n)
      BY <1>2, <1>5, <1>7, <2>2, <3>2 DEF n
    <3>5. /\ w \in Writing /\ w.disk \in Disk /\ Extends(d2, w.disk, s) /\ DirShape(w.disk, s)
          /\ ~w.dead => Firm(d2, w.disk, s)
      BY <3>3, <3>4 DEF Wrote, Writing
    <3>6. Extends(w1.disk, w.disk, s) /\ (~w.dead => Firm(w1.disk, w.disk, s))
      BY <1>5, <1>7, <1>8, <3>5, ExtendsTwice, FirmTwice
    <3>7. Extends(d, w.disk, s) /\ (~w.dead => Firm(d, w.disk, s))
      BY <1>5, <2>2, <3>5, <3>6, ExtendsTwice, FirmTwice
    <3> QED BY <3>5, <3>7
  <2> QED BY <2>1, <2>2
<1>10. CASE w.dead
  BY <1>3, <1>4, <1>9, <1>10 DEF TableWrote
<1>11. CASE ~w.dead
  <2>1. r.disk = d3
    BY <1>3, <1>9, <1>11 DEF Writing
  <2>2. /\ d3 \in Disk /\ d3.used = w.disk.used /\ d3.header = w.disk.header
        /\ d3.block = w.disk.block /\ d3.lost = w.disk.lost
    <3>1. d3.lost = w.disk.lost
      BY <1>9 DEF Disk
    <3> QED BY <1>9, <3>1, DiskTable
  <2> HIDE DEF d3
  <2>3. Extends(w.disk, d3, s) /\ DirShape(d3, s) /\ Firm(w.disk, d3, s)
    BY <1>9, <2>2, TableAside
  <2>4. Extends(d, d3, s) /\ Firm(d, d3, s)
    BY <1>9, <1>11, <2>2, <2>3, ExtendsTwice, FirmTwice
  <2> QED BY <1>4, <2>1, <2>3, <2>4 DEF TableWrote
<1> QED BY <1>10, <1>11

(* Bytes of a file. *)
LEMMA AtIs ==
  ASSUME NEW q \in Seq(Sector), NEW i \in Nat
  PROVE  /\ i < Len(q) => At(q, i) = q[i + 1] /\ At(q, i) \in Range(q) /\ At(q, i) # NoSector
         /\ At(q, i) # NoSector => i < Len(q)
<1>1. Len(q) \in Nat /\ DOMAIN q = 1 .. Len(q) /\ \A j \in 1 .. Len(q) : q[j] \in Sector
  BY PartOfSeq
<1>2. CASE i < Len(q)
  <2>1. At(q, i) = q[i + 1] /\ i + 1 \in 1 .. Len(q)
    BY <1>1, <1>2 DEF At
  <2>2. q[i + 1] \in Sector /\ q[i + 1] \in Range(q)
    BY <1>1, <2>1 DEF Range
  <2> QED BY <1>2, <2>1, <2>2, DiskFacts
<1>3. CASE ~(i < Len(q))
  BY <1>3 DEF At
<1> QED BY <1>2, <1>3

(* FileHeader::ByteToSector finds what is reached.                            *)
LEMMA Reached ==
  ASSUME NEW d \in Disk, NEW q \in Seq(Sector), Len(q) >= 1, NEW b, NEW k \in Nat,
         Reaches(d.block, d.block[q[1]], k)
  PROVE  ByteToSector(d, [bytes |-> b, sectors |-> q], k) # NoSector
<1> DEFINE m == MaxBlocksNum
           p == d.block[q[1]]
           i == k \div m
           j == k % m
<1>1. /\ d.block \in [Sector -> Seq(Sector)] /\ BlocksFit(d.block)
      /\ m \in Nat \ {0}
  BY DiskParts, BlocksReachDisk
<1>2. q[1] \in Sector
  <2>1. 1 \in 1 .. Len(q)
    <3>1. Len(q) \in Nat
      OBVIOUS
    <3> QED BY <3>1
  <2> QED BY <2>1, PartOfSeq
<1>3. p \in Seq(Sector) /\ Len(p) <= m /\ Len(p) \in Nat
  BY <1>1, <1>2 DEF BlocksFit
<1>4. i \in Int /\ j \in 0 .. m - 1 /\ k = m * i + j
  <2>1. k \in Int /\ m \in Nat \ {0}
    BY <1>1
  <2> HIDE DEF m
  <2> QED BY <2>1, Divided
<1>5. i < Len(p) /\ j < Len(d.block[p[i + 1]])
  BY DEF Reaches
<1>6. i \in Nat
  <2> HIDE DEF m
  <2>0. m \in Nat \ {0}
    BY <1>1
  <2>1. \A x \in Nat : x \div m \in Nat
    BY <2>0
  <2> QED BY <2>1
<1>7. k \div (m * m) = 0
  <2> HIDE DEF i, j, m
  <2>1. m * m \in Nat \ {0}
    BY <1>1
  <2>2. k < m * m
    <3> DEFINE mi == m * i
               mm == m * m
    <3>1. mi <= mm - m /\ mi \in Int /\ mm \in Int
      <4>1. i \in Int /\ m - 1 \in Int /\ i <= m - 1 /\ m \in Nat
        BY <1>1, <1>3, <1>5, <1>6
      <4>2. m * i <= m * (m - 1)
        BY <4>1, ProductOrder
      <4>3. m * (m - 1) = m * m - m
        BY <1>1
      <4>4. m * i \in Int /\ m * m \in Int
        BY <4>1
      <4> QED BY <4>2, <4>3, <4>4
    <3>2. k = mi + j
      BY <1>4
    <3> HIDE DEF mi, mm
    <3>3. k < mm
      BY <1>1, <1>4, <3>1, <3>2
    <3> QED BY <3>3 DEF mm
  <2> DEFINE mm == m * m
  <2> HIDE DEF mm
  <2>3. k \in 0 .. mm - 1 /\ mm \in Nat \ {0}
    BY <2>1, <2>2 DEF mm
  <2>4. k \div mm = 0
    BY ONLY <2>3, DividedSmall
  <2> QED BY <2>4 DEF mm
<1> DEFINE h == [bytes |-> b, sectors |-> q]
<1>8. h.sectors = q
  OBVIOUS
<1> HIDE DEF h, i, j, m
<1>9. At(h.sectors, k \div (m * m)) = q[1] /\ q[1] # NoSector
  <2>1. 0 < Len(q)
    OBVIOUS
  <2>2. At(q, 0) = q[0 + 1] /\ At(q, 0) # NoSector
    BY <2>1, AtIs
  <2>3. 0 + 1 = 1
    OBVIOUS
  <2> QED BY <1>7, <1>8, <2>2, <2>3
<1>10. At(p, i) = p[i + 1] /\ At(p, i) # NoSector /\ p[i + 1] \in Sector
  <2>1. At(p, i) = p[i + 1] /\ At(p, i) # NoSector
    BY <1>3, <1>5, <1>6, AtIs
  <2>2. i + 1 \in 1 .. Len(p)
    BY <1>3, <1>5, <1>6
  <2> QED BY <1>3, <2>1, <2>2, PartOfSeq
<1>11. At(d.block[p[i + 1]], j) # NoSector
  <2>1. d.block[p[i + 1]] \in Seq(Sector) /\ j \in Nat
    BY <1>1, <1>4, <1>10
  <2> QED BY <1>5, <2>1, AtIs
<1>12. At(d.block[q[1]], k \div m) = p[i + 1] /\ p[i + 1] # NoSector
  BY <1>10 DEF i
<1> QED BY <1>9, <1>11, <1>12 DEF ByteToSector, m, j, h

(* A file that reaches all its sectors has all its bytes.                     *)
LEMMA WholeBacked ==
  ASSUME NEW d \in Disk, NEW h \in FileHeader, NEW n \in Nat, Whole(Roundup(n), d.block, h.sectors)
  PROVE  Backed(d, h, n)
<1>1. h.sectors \in Seq(Sector) /\ h = [bytes |-> h.bytes, sectors |-> h.sectors]
      /\ Roundup(n) \in Nat
  BY RoundupFacts DEF FileHeader
<1>2. Len(h.sectors) >= 1 /\ \A k \in 0 .. Roundup(n) - 1 : Reaches(d.block, d.block[h.sectors[1]], k)
  BY DEF Whole
<1>3. ASSUME NEW k \in 0 .. Roundup(n) - 1 PROVE ByteToSector(d, h, k) # NoSector
  <2>1. k \in Nat /\ Reaches(d.block, d.block[h.sectors[1]], k)
    BY <1>2
  <2> QED BY <1>1, <1>2, <2>1, Reached
<1> QED BY <1>3 DEF Backed

(* A file without bytes has them all.                                         *)
LEMMA EmptyBacked ==
  ASSUME NEW d, NEW h
  PROVE  Backed(d, h, 0)
<1>1. Roundup(0) = 0
  BY RoundupSmall
<1>2. 0 .. Roundup(0) - 1 = {}
  BY <1>1
<1> QED BY <1>2 DEF Backed

(* A directory has all its bytes.                                             *)
LEMMA LeafyBacked ==
  ASSUME NEW d \in Disk, NEW h \in FileHeader, NEW x, NEW y, Leafy(d.block, d.used, h, x, y)
  PROVE  Backed(d, h, h.bytes)
<1> DEFINE q == h.sectors
           m == MaxBlocksNum
<1>1. /\ q = <<x>> /\ d.block[x] = <<y>> /\ x \in Sector /\ y \in Sector
      /\ Roundup(h.bytes) <= Len(d.block[y])
  BY DEF Leafy, Rooted
<1>2. /\ h.bytes \in Nat /\ q \in Seq(Sector) /\ Roundup(h.bytes) \in Nat
      /\ h = [bytes |-> h.bytes, sectors |-> q]
  BY RoundupFacts DEF FileHeader
<1>3. m \in Nat \ {0} /\ d.block[y] \in Seq(Sector) /\ Len(d.block[y]) <= m
      /\ Len(d.block[y]) \in Nat
  <2>1. m \in Nat \ {0}
    BY BlocksReachDisk
  <2> QED BY <1>1, <2>1, DiskParts DEF BlocksFit
<1>4. Len(q) >= 1 /\ d.block[q[1]] = <<y>>
  BY <1>1
<1> HIDE DEF q, m
<1>5. ASSUME NEW k \in 0 .. Roundup(h.bytes) - 1 PROVE ByteToSector(d, h, k) # NoSector
  <2>1. k \in 0 .. m - 1 /\ k < Len(d.block[y]) /\ k \in Nat
    BY <1>1, <1>2, <1>3
  <2>2. k \div m = 0 /\ k % m = k
    <3>1. (m * 0 + k) \div m = 0 /\ (m * 0 + k) % m = k
      <4>1. m \in Nat \ {0} /\ 0 \in Int /\ k \in 0 .. m - 1
        BY <1>3, <2>1
      <4> QED BY ONLY <4>1, DividedOnce
    <3>2. m * 0 + k = k
      BY <1>3, <2>1
    <3> QED BY <3>1, <3>2
  <2>3. Reaches(d.block, <<y>>, k)
    <3>1. 0 < Len(<<y>>) /\ <<y>>[0 + 1] = y
      OBVIOUS
    <3> QED BY <2>1, <2>2, <3>1 DEF Reaches, m
  <2>4. Reaches(d.block, d.block[q[1]], k)
    BY <1>4, <2>3
  <2>5. ByteToSector(d, [bytes |-> h.bytes, sectors |-> q], k) # NoSector
    BY <1>2, <1>4, <2>1, <2>4, Reached
  <2> QED BY <1>2, <2>5
<1> QED BY <1>5 DEF Backed

(* What the files at H own, one by one.                                       *)
LEMMA AllOwnedIs ==
  ASSUME NEW d, NEW H
  PROVE  \A x : x \in AllOwned(d, H) <=> \E u \in H : x \in OwnedAt(d, u)
BY DEF AllOwned

(* An untouched file owns the same sectors.                                   *)
LEMMA UntouchedSame ==
  ASSUME NEW d, NEW e, NEW s, Untouched(d, e, s)
  PROVE  Blocks(e, s) = Blocks(d, s) /\ Holdings(e, s) = Holdings(d, s) /\ OwnedAt(e, s) = OwnedAt(d, s)
<1> DEFINE q == d.header[s].sectors
<1>1. e.header[s].sectors = q /\ \A u \in Index(d.block, q) : e.block[u] = d.block[u]
  BY DEF Untouched, Blocks
<1> HIDE DEF q
<1>2. Twig(e.block, Range(q)) = Twig(d.block, Range(q))
  BY <1>1 DEF Twig, Index
<1>3. Index(e.block, q) = Index(d.block, q)
  BY <1>2 DEF Index
<1>4. Twig(e.block, Index(d.block, q)) = Twig(d.block, Index(d.block, q))
  BY <1>1 DEF Twig
<1>5. Tree(e.block, q) = Tree(d.block, q)
  BY <1>3, <1>4 DEF Tree
<1>6. Blocks(e, s) = Blocks(d, s) /\ Holdings(e, s) = Holdings(d, s)
  BY <1>1, <1>3, <1>5 DEF Blocks, Holdings, q
<1> QED BY <1>6 DEF OwnedAt

(* The bytes of an untouched file are where they were.                        *)
LEMMA UntouchedByte ==
  ASSUME NEW d \in Disk, NEW e \in Disk, NEW s \in Sector, Untouched(d, e, s), NEW k \in Nat
  PROVE  ByteToSector(e, e.header[s], k) = ByteToSector(d, d.header[s], k)
<1> DEFINE q == d.header[s].sectors
           m == MaxBlocksNum
           x == At(q, k \div (m * m))
           y == At(d.block[x], k \div m)
<1>1. q \in Seq(Sector) /\ d.block \in [Sector -> Seq(Sector)] /\ e.header[s] = d.header[s]
      /\ \A u \in Index(d.block, q) : e.block[u] = d.block[u]
  BY DiskParts DEF OpenHeader, FileHeader, Untouched, Blocks
<1>2. k \div (m * m) \in Nat /\ k \div m \in Nat
  <2>1. m \in Nat \ {0}
    BY BlocksReachDisk
  <2> HIDE DEF m
  <2> DEFINE mm == m * m
  <2>2. mm \in Nat \ {0}
    BY <2>1
  <2> HIDE DEF mm
  <2>3. k \div mm \in Nat
    BY <2>2
  <2>4. k \div m \in Nat
    BY <2>1
  <2> QED BY <2>3, <2>4 DEF mm
<1>3. x # NoSector => x \in Range(q)
  <2> DEFINE i == k \div (m * m)
  <2>1. i \in Nat
    BY <1>2
  <2> HIDE DEF i, q
  <2>2. At(q, i) # NoSector => At(q, i) \in Range(q)
    BY <1>1, <2>1, AtIs
  <2> QED BY <2>2 DEF i
<1> HIDE DEF q
<1>4. x # NoSector => x \in Index(d.block, q) /\ x \in Sector
  <2>1. Range(q) \subseteq Sector
    BY <1>1, PartOfSeq
  <2> QED BY <1>3, <2>1 DEF Index
<1> HIDE DEF x
<1>5. x # NoSector /\ y # NoSector => y \in Index(d.block, q)
  <2> DEFINE i == k \div m
  <2>1. i \in Nat
    BY <1>2
  <2> HIDE DEF i
  <2> SUFFICES ASSUME x # NoSector, At(d.block[x], i) # NoSector
               PROVE  At(d.block[x], i) \in Index(d.block, q)
    BY DEF i
  <2> DEFINE b == d.block[x]
  <2>2. b \in Seq(Sector)
    BY <1>1, <1>4
  <2> HIDE DEF b
  <2>3. At(b, i) \in Range(b)
    <3>1. At(b, i) # NoSector
      BY DEF b
    <3> QED BY <2>1, <2>2, <3>1, AtIs
  <2> QED BY <1>3, <2>3 DEF Index, Twig, b
<1>6. x # NoSector => e.block[x] = d.block[x]
  BY <1>1, <1>4
<1>7. x # NoSector /\ y # NoSector => e.block[y] = d.block[y]
  BY <1>1, <1>5
<1> HIDE DEF y
<1> DEFINE z == IF x = NoSector THEN NoSector ELSE y
<1>8. ByteToSector(d, d.header[s], k) = IF z = NoSector THEN NoSector ELSE At(d.block[z], k % m)
  BY DEF ByteToSector, x, y, q
<1>9. ByteToSector(e, e.header[s], k) = IF z = NoSector THEN NoSector ELSE At(e.block[z], k % m)
  <2>1. x = At(e.header[s].sectors, k \div (m * m))
    BY <1>1 DEF x, q
  <2>2. x # NoSector => y = At(e.block[x], k \div m)
    BY <1>6 DEF y
  <2> QED BY <2>1, <2>2 DEF ByteToSector
<1> QED BY <1>7, <1>8, <1>9

(* None of the bytes of an untouched file is lost.                            *)
LEMMA UntouchedBacked ==
  ASSUME NEW d \in Disk, NEW e \in Disk, NEW s \in Sector, Untouched(d, e, s), NEW n \in Nat,
         Backed(d, d.header[s], n)
  PROVE  Backed(e, e.header[s], n)
<1>1. Roundup(n) \in Nat
  BY RoundupFacts
<1>2. ASSUME NEW k \in 0 .. Roundup(n) - 1 PROVE ByteToSector(e, e.header[s], k) # NoSector
  <2>1. k \in Nat /\ ByteToSector(d, d.header[s], k) # NoSector
    BY <1>1 DEF Backed
  <2> QED BY <2>1, UntouchedByte
<1> QED BY <1>2 DEF Backed

(* An untouched file is as good as before.                                    *)
LEMMA GoodUntouched ==
  ASSUME NEW d \in Disk, NEW e \in Disk, NEW s \in Sector, Untouched(d, e, s), NEW D,
         Blocks(d, s) \subseteq e.used, GoodAt(d, s, D)
  PROVE  GoodAt(e, s, D)
<1>1. e.header[s] = d.header[s] /\ \A u \in Blocks(d, s) : e.block[u] = d.block[u]
  BY DEF Untouched
<1>2. CASE s \in D
  <2>1. DirShape(d, s)
    BY <1>2 DEF GoodAt
  <2>2. ASSUME NEW x, NEW y, Leafy(d.block, d.used, d.header[s], x, y)
        PROVE  Leafy(e.block, e.used, e.header[s], x, y)
    <3>1. Rooted(d.block, d.header[s].sectors, x, y)
      BY <2>2 DEF Leafy
    <3>2. Blocks(d, s) = {x, y}
      BY <3>1, RootedTree DEF Blocks
    <3>3. e.block[x] = d.block[x] /\ e.block[y] = d.block[y] /\ x \in e.used /\ y \in e.used
      BY <1>1, <3>2
    <3>4. Rooted(e.block, e.header[s].sectors, x, y)
      BY <1>1, <3>1, <3>3 DEF Rooted
    <3> QED BY <1>1, <2>2, <3>3, <3>4 DEF Leafy
  <2>3. DirShape(e, s)
    BY <1>1, <2>1, <2>2 DEF DirShape
  <2> QED BY <1>2, <2>3 DEF GoodAt
<1>3. CASE s \notin D
  <2>1. CASE Backed(d, d.header[s], d.header[s].bytes)
    <3>1. d.header[s].bytes \in Nat
      BY DiskParts DEF FileHeader
    <3>2. Backed(e, e.header[s], e.header[s].bytes)
      BY <1>1, <2>1, <3>1, UntouchedBacked
    <3> QED BY <1>3, <3>2 DEF GoodAt
  <2>2. CASE s # FreeMapSector /\ \E u \in Blocks(d, s) : d.block[u] = <<>>
    <3>1. \E u \in Blocks(e, s) : e.block[u] = <<>>
      BY <1>1, <2>2, UntouchedSame
    <3> QED BY <1>3, <2>2, <3>1 DEF GoodAt
  <2> QED BY <1>3, <2>1, <2>2 DEF GoodAt
<1> QED BY <1>2, <1>3

(* Files that a call does not touch. *)
LEMMA LeftAlone ==
  ASSUME NEW d \in Disk, NEW e \in Disk, NEW H, NEW D, Fit(d, H, D), NEW G \in SUBSET H,
         \A s \in G : Untouched(d, e, s) /\ OwnedAt(d, s) \subseteq e.used
  PROVE  /\ SoundAt(e, G) /\ \A s \in G : OwnedAt(e, s) = OwnedAt(d, s) /\ GoodAt(e, s, D)
<1>1. \A s \in G : Blocks(e, s) = Blocks(d, s) /\ Holdings(e, s) = Holdings(d, s) /\ OwnedAt(e, s) = OwnedAt(d, s)
  BY UntouchedSame
<1>2. SoundAt(e, G)
  BY <1>1 DEF Fit, SoundAt
<1>3. ASSUME NEW s \in G PROVE GoodAt(e, s, D)
  <2>1. s \in Sector /\ GoodAt(d, s, D) /\ Untouched(d, e, s)
    BY DEF Fit
  <2>2. Blocks(d, s) \subseteq e.used
    BY DEF OwnedAt, Holdings, Blocks, Tree
  <2> QED BY <2>1, <2>2, GoodUntouched
<1> QED BY <1>1, <1>2, <1>3

(* Writing the directory at s leaves the other files alone. *)
LEMMA DirWritten ==
  ASSUME NEW d \in Disk, NEW e \in Disk, NEW H, NEW D, Fit(d, H, D), NEW s \in D,
         Extends(d, e, s), DirShape(e, s)
  PROVE  Fit(e, H, D)
<1>1. H \subseteq Sector /\ D \subseteq H /\ s \in H
  BY DEF Fit
<1>2. ASSUME NEW u \in H \ {s}
      PROVE  Untouched(d, e, u) /\ OwnedAt(d, u) \subseteq e.used
  <2>1. OwnedAt(d, u) \subseteq d.used /\ OwnedAt(d, u) \cap OwnedAt(d, s) = {}
    BY <1>1 DEF Fit, SoundAt
  <2>2. Blocks(d, u) \subseteq OwnedAt(d, u) /\ Blocks(d, s) \subseteq OwnedAt(d, s)
    BY DEF OwnedAt, Holdings, Blocks, Tree
  <2>3. \A x \in Blocks(d, u) : e.block[x] = d.block[x]
    BY <2>1, <2>2 DEF Extends
  <2> QED BY <1>1, <2>1, <2>3 DEF Extends, Untouched
<1>3. /\ SoundAt(e, H \ {s})
      /\ \A u \in H \ {s} : OwnedAt(e, u) = OwnedAt(d, u) /\ GoodAt(e, u, D)
  <2>1. H \ {s} \in SUBSET H
    OBVIOUS
  <2> QED BY <1>2, <2>1, LeftAlone
<1>4. /\ Holdings(d, s) \subseteq Holdings(e, s) /\ Holdings(e, s) \subseteq e.used
      /\ Holdings(e, s) \subseteq Holdings(d, s) \cup (Sector \ d.used)
      /\ e.used \subseteq d.used \cup Holdings(e, s) /\ d.used \subseteq e.used /\ e.lost = d.lost
  BY <1>1 DEF Extends, Fit, SoundAt, OwnedAt
<1>5. s \in d.used /\ s \notin Holdings(d, s)
  BY <1>1 DEF Fit, SoundAt, OwnedAt
<1>6. SoundAt(e, H)
  <2>1. \A u \in H \ {s} : OwnedAt(e, u) \cap OwnedAt(e, s) = {}
    <3>1. \A u \in H \ {s} : OwnedAt(d, u) \subseteq d.used /\ OwnedAt(d, u) \cap OwnedAt(d, s) = {}
      BY <1>1 DEF Fit, SoundAt
    <3> QED BY <1>3, <1>4, <3>1 DEF OwnedAt
  <2>2. OwnedAt(e, s) \subseteq e.used /\ s \notin Holdings(e, s)
    BY <1>4, <1>5 DEF OwnedAt
  <2> QED BY <1>3, <2>1, <2>2 DEF SoundAt
<1>7. CoveredBy(e, H)
  <2>1. d.used \subseteq AllOwned(d, H) \cup d.lost
    BY DEF Fit, CoveredBy
  <2>2. \A u \in H : OwnedAt(d, u) \subseteq OwnedAt(e, u)
    BY <1>3, <1>4 DEF OwnedAt
  <2>3. AllOwned(d, H) \subseteq AllOwned(e, H)
    BY <2>2, AllOwnedIs
  <2>4. Holdings(e, s) \subseteq AllOwned(e, H)
    BY <1>1, AllOwnedIs DEF OwnedAt
  <2> QED BY <1>4, <2>1, <2>3, <2>4 DEF CoveredBy
<1>8. GoodAt(e, s, D)
  BY DEF GoodAt
<1> QED BY <1>1, <1>3, <1>6, <1>7, <1>8 DEF Fit

(* What FileHeader::Deallocate and the cleared blocks leave.                  *)
LEMMA DeallocateIs ==
  ASSUME NEW d \in Disk, NEW s \in Sector
  PROVE  LET freed == OwnedAt(d, s)
             e == Deallocate(d, s)
         IN /\ e \in Disk /\ e.used = d.used \ freed /\ e.lost = d.lost
            /\ e.block = [u \in Sector |-> IF u \in freed THEN <<>> ELSE d.block[u]]
            /\ e.header = [d.header EXCEPT ![s] = NewHeader]
<1> DEFINE freed == Sectors(d, d.header[s]) \cup {s}
           block2 == [u \in Sector |-> IF u \in freed THEN <<>> ELSE d.block[u]]
           header2 == [d.header EXCEPT ![s] = NewHeader]
           table2 == [d.table EXCEPT ![s] = NewTable]
           used2 == d.used \ freed
           r == [d EXCEPT !.used = used2, !.block = block2, !.header = header2, !.table = table2]
<1>1. Deallocate(d, s) = r
  BY Zenon DEF Deallocate
<1>2. freed = OwnedAt(d, s)
  BY SectorsAreTree DEF OwnedAt
<1>3. /\ used2 \in SUBSET Sector /\ block2 \in [Sector -> Seq(Sector)] /\ BlocksFit(block2)
      /\ header2 \in [Sector -> FileHeader] /\ table2 \in [Sector -> Table]
      /\ \A u \in Sector : Len(header2[u].sectors) < NumDirect
  <2>1. <<>> \in Seq(Sector) /\ Len(<<>>) = 0 /\ 0 <= MaxBlocksNum /\ 0 < NumDirect
    BY BlocksReachDisk
  <2>2. NewHeader \in FileHeader /\ NewHeader.sectors = <<>>
    BY DEF NewHeader, FileHeader
  <2>3. NewTable \in Table
    BY NewTableFacts
  <2> HIDE DEF freed
  <2>4. block2 \in [Sector -> Seq(Sector)] /\ BlocksFit(block2)
    BY <2>1, DiskParts DEF BlocksFit
  <2>5. \A u \in Sector : Len(d.header[u].sectors) < NumDirect
    BY DiskIs
  <2> QED BY <2>1, <2>2, <2>3, <2>4, <2>5, DiskParts
<1> HIDE DEF block2, header2, table2, used2
<1>4. r \in Disk /\ r.used = used2 /\ r.block = block2 /\ r.header = header2 /\ r.lost = d.lost
  <2>1. r \in [used : SUBSET Sector, header : [Sector -> FileHeader],
                     block : [Sector -> Seq(Sector)],
                     table : [Sector -> Table], lost : SUBSET Sector]
        /\ r.used = used2 /\ r.block = block2 /\ r.header = header2 /\ r.lost = d.lost
    BY <1>3 DEF Disk, Table
  <2> QED BY <1>3, <2>1, DiskIs
<1> QED BY <1>1, <1>2, <1>4 DEF used2, block2, header2

(* A file is taken from the disk. *)
LEMMA Deallocated ==
  ASSUME NEW d \in Disk, NEW H, NEW D, Fit(d, H, D), NEW s \in H \ D
  PROVE  Deallocate(d, s) \in Disk /\ Fit(Deallocate(d, s), H \ {s}, D) /\ s \notin Deallocate(d, s).used
<1> DEFINE e == Deallocate(d, s)
           freed == OwnedAt(d, s)
<1>1. /\ H \subseteq Sector /\ D \subseteq H /\ SoundAt(d, H) /\ s \in H /\ s \in Sector
  BY DEF Fit
<1>2. /\ e \in Disk /\ e.used = d.used \ freed /\ e.lost = d.lost
      /\ e.block = [u \in Sector |-> IF u \in freed THEN <<>> ELSE d.block[u]]
      /\ e.header = [d.header EXCEPT ![s] = NewHeader]
  BY <1>1, DeallocateIs
<1> HIDE DEF e, freed
<1>3. ASSUME NEW u \in H \ {s}
      PROVE  Untouched(d, e, u) /\ OwnedAt(d, u) \subseteq e.used
  <2>1. OwnedAt(d, u) \cap freed = {} /\ OwnedAt(d, u) \subseteq d.used
    BY <1>1 DEF SoundAt, freed
  <2>2. Blocks(d, u) \subseteq OwnedAt(d, u)
    BY DEF OwnedAt, Holdings, Blocks, Tree
  <2>3. d.used \subseteq Sector /\ d.header \in [Sector -> FileHeader]
    BY DiskParts
  <2>4. \A x \in Blocks(d, u) : e.block[x] = d.block[x]
    BY <1>2, <2>1, <2>2, <2>3
  <2>5. e.header[u] = d.header[u]
    BY <1>1, <1>2, <2>3
  <2> QED BY <1>2, <2>1, <2>4, <2>5 DEF Untouched
<1>4. /\ SoundAt(e, H \ {s})
      /\ \A u \in H \ {s} : OwnedAt(e, u) = OwnedAt(d, u) /\ GoodAt(e, u, D)
  <2>1. H \ {s} \in SUBSET H
    OBVIOUS
  <2> QED BY <1>2, <1>3, <2>1, LeftAlone
<1>5. CoveredBy(e, H \ {s})
  <2>1. d.used \subseteq AllOwned(d, H) \cup d.lost
    BY DEF Fit, CoveredBy
  <2>2. \A x \in AllOwned(d, H) : x \in OwnedAt(d, s) \/ \E u \in H \ {s} : x \in OwnedAt(d, u)
    BY AllOwnedIs
  <2>3. \A x \in AllOwned(d, H) : x \in OwnedAt(d, s) \/ x \in AllOwned(e, H \ {s})
    BY <1>4, <2>2, AllOwnedIs
  <2>4. e.used \subseteq AllOwned(e, H \ {s}) \cup e.lost
    BY <1>2, <2>1, <2>3 DEF freed
  <2> QED BY <2>4 DEF CoveredBy
<1>6. s \notin e.used
  BY <1>2 DEF freed, OwnedAt
<1>7. H \ {s} \subseteq Sector /\ D \subseteq H \ {s}
  BY <1>1
<1>8. Fit(e, H \ {s}, D)
  BY <1>4, <1>5, <1>7 DEF Fit
<1> QED BY <1>2, <1>6, <1>8 DEF e

(* Writing the header of a new file.                                          *)
LEMMA WrittenIs ==
  ASSUME NEW d \in Disk, NEW c \in Sector, NEW map, NEW a, Granted(map, a)
  PROVE  WrittenAs(d, c, a, Written(d, c, a))
<1> DEFINE d1 == [d EXCEPT !.block = a.block]
           d2 == WriteHeader(d1, c, a.header)
           d3 == [d2 EXCEPT !.table[c] = NewTable]
<1>1. a.block \in [Sector -> Seq(Sector)] /\ BlocksFit(a.block) /\ a.header \in OpenHeader
  BY DEF Granted
<1>2. d1 \in Disk /\ d1.used = d.used /\ d1.table = d.table /\ d1.block = a.block
      /\ d1.header = d.header /\ d1.lost = d.lost
  <2>1. d1.lost = d.lost
    BY DEF Disk
  <2> QED BY <1>1, <2>1, DiskBlock
<1>3. Written(d, c, a) = d3
  BY DEF Written
<1> HIDE DEF d1
<1>4. /\ d2 \in Disk /\ d2.used = d1.used /\ d2.table = d1.table /\ d2.block = d1.block
      /\ d2.header = [d1.header EXCEPT ![c] = [bytes |-> a.header.bytes, sectors |-> Kept(a.header)]]
      /\ d2.lost = d1.lost \cup Range(Behind(a.header))
  <2>1. /\ d2.header = [d1.header EXCEPT ![c] = [bytes |-> a.header.bytes, sectors |-> Kept(a.header)]]
        /\ d2.lost = d1.lost \cup Range(Behind(a.header))
    BY <1>1, <1>2, WriteHeaderIs
  <2> QED BY <1>1, <1>2, <2>1, WriteHeaderFacts
<1> HIDE DEF d2
<1>5. /\ d3 \in Disk /\ d3.used = d2.used /\ d3.table = [d2.table EXCEPT ![c] = NewTable]
      /\ d3.header = d2.header /\ d3.block = d2.block /\ d3.lost = d2.lost
  <2>1. d3.lost = d2.lost
    BY <1>4 DEF Disk
  <2> QED BY <1>4, <2>1, DiskTable, NewTableFacts
<1> HIDE DEF d3
<1> QED BY <1>2, <1>3, <1>4, <1>5 DEF Fresh, WrittenAs

(* Cutting off empty blocks leaves the rest of the tree.                      *)
LEMMA TreeKept ==
  ASSUME NEW h \in OpenHeader, NEW block, \A x \in Range(Behind(h)) : Range(block[x]) = {}
  PROVE  /\ Tree(block, h.sectors) \subseteq Tree(block, Kept(h)) \cup Range(Behind(h))
         /\ Tree(block, Kept(h)) \subseteq Tree(block, h.sectors)
<1> DEFINE K == Range(Kept(h))
           B == Range(Behind(h))
<1>1. Range(h.sectors) = K \cup B
  BY KeptFacts
<1>2. Index(block, h.sectors) = Index(block, Kept(h)) \cup B
  <2>1. Twig(block, K \cup B) = Twig(block, K)
    BY DEF Twig
  <2> QED BY <1>1, <2>1 DEF Index
<1>3. Twig(block, Index(block, h.sectors)) = Twig(block, Index(block, Kept(h)))
  <2> DEFINE I == Index(block, Kept(h))
  <2>1. Twig(block, I \cup B) = Twig(block, I)
    BY DEF Twig
  <2> QED BY <1>2, <2>1
<1> QED BY <1>2, <1>3 DEF Tree

(* An empty list holds nothing.                                               *)
LEMMA EmptyRange ==
  ASSUME NEW q, q = <<>>
  PROVE  Range(q) = {}
BY EmptyTree

(* A new header with its blocks, as it is on the disk.                        *)
LEMMA NewHeaderGood ==
  ASSUME NEW d \in Disk, NEW c \in Sector \ d.used, NEW size \in Nat, NEW a,
         a = Allocate(d.block, d.used \cup {c}, NewHeader, size), a.ok, NEW e \in Disk,
         e.header[c] = [bytes |-> a.header.bytes, sectors |-> Kept(a.header)], e.block = a.block
  PROVE  Planned(d, c, size, a, e)
<1> DEFINE map == d.used \cup {c}
           h == a.header
           n == Roundup(size)
<1>1. /\ d.block \in [Sector -> Seq(Sector)] /\ BlocksFit(d.block) /\ map \in SUBSET Sector
      /\ n \in Nat
  BY DiskParts, RoundupFacts
<1>2. Planted(d.block, map, n, a) /\ h.bytes = size
  BY <1>1, NewFile
<1>3. Granted(map, a)
  <2>1. NewHeader \in OpenHeader
    <3>1. NewHeader \in FileHeader /\ Len(NewHeader.sectors) = 0 /\ 0 <= NumDirect
      BY BlocksReachDisk DEF NewHeader, FileHeader
    <3> QED BY <3>1 DEF OpenHeader
  <2> QED BY <1>1, <2>1, AllocateFacts
<1>4. /\ map \subseteq a.map /\ h \in OpenHeader /\ a.block \in [Sector -> Seq(Sector)]
      /\ h.sectors \in Seq(Sector)
  BY <1>3 DEF Granted, OpenHeader, FileHeader
<1>5. /\ a.map \ map = Tree(a.block, h.sectors)
      /\ n = 0 => h.sectors = <<>> /\ a.map = map /\ a.block = d.block
      /\ n > 0 => \/ Whole(n, a.block, h.sectors)
                  \/ n > 1 /\ Gap(a.block, h.sectors)
  BY <1>2 DEF Planted
<1>6. e.header[c].bytes = size /\ e.header[c].sectors = Kept(h)
  BY <1>2
<1>7. Holdings(e, c) = Tree(a.block, Kept(h)) /\ Blocks(e, c) = Index(a.block, Kept(h))
  BY <1>6 DEF Holdings, Blocks
<1> HIDE DEF h, map, n
<1>8. \A x \in Range(Behind(h)) : Range(a.block[x]) = {}
  <2>1. /\ Len(h.sectors) >= 1 => Len(Kept(h)) >= 1
        /\ \A x \in Range(Behind(h)) : \E j \in 1 .. Len(h.sectors) : j > Len(Kept(h)) /\ x = h.sectors[j]
        /\ Len(Kept(h)) \in Nat
    BY <1>4, KeptFacts
  <2>2. ASSUME NEW x \in Range(Behind(h)) PROVE a.block[x] = <<>>
    <3>1. PICK j \in 1 .. Len(h.sectors) : j > Len(Kept(h)) /\ x = h.sectors[j]
      BY <2>1
    <3>2. Len(h.sectors) \in Nat
      BY <1>4
    <3>3. j > 1 /\ Len(h.sectors) > 1
      BY <2>1, <3>1, <3>2
    <3>4. n > 0
      <4>1. CASE n = 0
        BY <1>5, <3>3, <4>1
      <4> QED BY <1>1, <4>1 DEF n
    <3>5. Gap(a.block, h.sectors)
      <4>1. ASSUME Whole(n, a.block, h.sectors) PROVE Len(h.sectors) = 1
        BY <4>1 DEF Whole
      <4>2. ~(Len(h.sectors) = 1)
        <5>1. \A z \in Nat : z > 1 => ~(z = 1)
          OBVIOUS
        <5> QED BY <3>2, <3>3, <5>1, Zenon
      <4> QED BY ONLY <1>5, <3>4, <4>1, <4>2
    <3>6. \A i \in 2 .. Len(h.sectors) : a.block[h.sectors[i]] = <<>>
      BY <3>5 DEF Gap
    <3>7. j \in 2 .. Len(h.sectors)
      BY <3>1, <3>2, <3>3
    <3> QED BY <3>1, <3>6, <3>7
  <2> QED BY <2>2, EmptyRange
<1>9. /\ Tree(a.block, h.sectors) \subseteq Tree(a.block, Kept(h)) \cup Range(Behind(h))
      /\ Tree(a.block, Kept(h)) \subseteq Tree(a.block, h.sectors)
  BY <1>4, <1>8, TreeKept
<1>10. a.map \subseteq d.used \cup OwnedAt(e, c) \cup Range(Behind(h))
  BY <1>5, <1>7, <1>9 DEF OwnedAt, map
<1>11. Holdings(e, c) \subseteq a.map \ (d.used \cup {c})
  BY <1>5, <1>7, <1>9 DEF map
<1>12. Provided(e, c, size)
  <2>1. CASE n = 0
    <3>1. 0 .. Roundup(size) - 1 = {}
      BY <2>1 DEF n
    <3>2. Backed(e, e.header[c], size)
      BY <3>1 DEF Backed
    <3> QED BY <3>2 DEF Provided
  <2>2. CASE Whole(n, a.block, h.sectors)
    <3>1. Len(h.sectors) = 1
      BY <2>2 DEF Whole
    <3>2. Kept(h) = h.sectors
      <4>1. h.sectors[1] \in Sector
        BY <1>4, <3>1
      <4>2. h.sectors = <<h.sectors[1]>>
        <5> DEFINE v == h.sectors[1]
        <5>1. v \in Sector /\ h.sectors[1] = v
          BY <4>1
        <5> HIDE DEF v
        <5>2. h.sectors = <<v>>
          BY <1>4, <3>1, <5>1
        <5> QED BY <5>2 DEF v
      <4> QED BY <1>4, <4>1, <4>2, KeptOne
    <3>3. e.header[c] \in FileHeader
      BY DiskParts
    <3>4. Whole(Roundup(size), e.block, e.header[c].sectors)
      BY <1>6, <2>2, <3>2 DEF n
    <3> QED BY <3>3, <3>4, WholeBacked DEF Provided
  <2>3. CASE Gap(a.block, h.sectors)
    <3>1. /\ Len(h.sectors) >= 1
          /\ \E s \in {h.sectors[1]} \cup Range(a.block[h.sectors[1]]) : a.block[s] = <<>>
      BY <2>3 DEF Gap
    <3>2. h.sectors[1] \in Range(Kept(h))
      <4>1. /\ Kept(h) \in Seq(Sector) /\ Len(Kept(h)) \in Nat /\ Len(Kept(h)) >= 1
            /\ \A i \in 1 .. Len(Kept(h)) : Kept(h)[i] = h.sectors[i]
        BY <1>4, <3>1, KeptFacts
      <4>2. 1 \in 1 .. Len(Kept(h))
        BY <4>1
      <4>3. Kept(h)[1] = h.sectors[1] /\ 1 \in DOMAIN Kept(h)
        BY <4>1, <4>2
      <4> QED BY <4>3 DEF Range
    <3>3. {h.sectors[1]} \cup Range(a.block[h.sectors[1]]) \subseteq Index(a.block, Kept(h))
      BY <3>2 DEF Index, Twig
    <3>4. \E u \in Blocks(e, c) : e.block[u] = <<>>
      BY <1>7, <3>1, <3>3
    <3> QED BY <3>4 DEF Provided
  <2> QED BY <1>1, <1>5, <2>1, <2>2, <2>3 DEF n
<1>13. size = 0 => e.header[c] = NewHeader /\ a.map = d.used \cup {c}
  <2> SUFFICES ASSUME size = 0 PROVE e.header[c] = NewHeader /\ a.map = d.used \cup {c}
    OBVIOUS
  <2>1. n = 0
    BY RoundupSmall DEF n
  <2>2. h.sectors = <<>> /\ a.map = map
    BY <1>5, <2>1
  <2>3. Len(Kept(h)) = 0 /\ Kept(h) \in Seq(Sector)
    <3>1. Len(h.sectors) = 0
      BY <2>2
    <3> QED BY <1>4, <3>1, KeptFacts
  <2>4. Kept(h) = <<>>
    BY <2>3
  <2> QED BY <1>2, <2>2, <2>4 DEF NewHeader, map, h
<1>14. Alike(d.block, e.block, d.used)
  BY <1>2 DEF Planted, Alike, map
<1> QED BY <1>4, <1>14, <1>6, <1>10, <1>11, <1>12, <1>13 DEF h, map, Planned

(* A header that also lies below another file.                                *)
LEMMA HeldApart ==
  ASSUME NEW e, NEW U, NEW s, NEW c, HoldsAt(U, e, s, c), s # c, NEW H, s \in H, c \in H
  PROVE  ~SoundAt(e, H)
<1>1. c \in Holdings(e, s)
  <2>1. CASE c \in Range(e.header[s].sectors)
    BY <2>1 DEF Holdings, Tree, Index
  <2>2. CASE \E x, y \in U : Rooted(e.block, e.header[s].sectors, x, y) /\ c \in Range(e.block[y])
    <3>1. PICK x, y : Rooted(e.block, e.header[s].sectors, x, y) /\ c \in Range(e.block[y])
      BY <2>2
    <3>2. Tree(e.block, e.header[s].sectors) = {x, y} \cup Range(e.block[y])
      BY <3>1, RootedTree
    <3> QED BY <3>1, <3>2 DEF Holdings
  <2> QED BY <2>1, <2>2 DEF HoldsAt
<1>2. c \in OwnedAt(e, s) \cap OwnedAt(e, c)
  BY <1>1 DEF OwnedAt
<1> QED BY <1>2 DEF SoundAt

(* The headers are in use.                                                    *)
LEMMA HeadersUsed ==
  ASSUME NEW d, NEW H, NEW D, Fit(d, H, D)
  PROVE  H \subseteq d.used /\ D \subseteq H /\ H \subseteq Sector /\ SoundAt(d, H)
BY DEF Fit, SoundAt, OwnedAt

(* The file at c joins the others. *)
LEMMA FileJoins ==
  ASSUME NEW d \in Disk, NEW H, NEW D, Fit(d, H, D), NEW c \in Sector \ d.used, FreeMapSector \in H,
         NEW e \in Disk, \A s \in H : Untouched(d, e, s), d.used \subseteq e.used,
         c \in e.used, Holdings(e, c) \subseteq e.used \ (d.used \cup {c}),
         d.lost \subseteq e.lost, e.used \subseteq d.used \cup OwnedAt(e, c) \cup e.lost,
         Provided(e, c, e.header[c].bytes)
  PROVE  /\ Fit(e, H \cup {c}, D)
         /\ e.header[c] = NewHeader => Fit(e, H \cup {c}, D \cup {c})
<1>1. H \subseteq d.used /\ D \subseteq H /\ H \subseteq Sector /\ SoundAt(d, H) /\ c \notin H /\ c \notin D
  BY HeadersUsed
<1>2. SoundAt(e, H) /\ \A s \in H : OwnedAt(e, s) = OwnedAt(d, s) /\ GoodAt(e, s, D)
  <2>1. \A s \in H : OwnedAt(d, s) \subseteq e.used
    BY <1>1 DEF SoundAt
  <2> QED BY <2>1, LeftAlone
<1>3. SoundAt(e, H \cup {c})
  <2>1. \A s \in H : OwnedAt(e, s) \subseteq d.used
    BY <1>1, <1>2 DEF SoundAt
  <2>2. OwnedAt(e, c) \cap d.used = {} /\ OwnedAt(e, c) \subseteq e.used /\ c \notin Holdings(e, c)
    BY DEF OwnedAt
  <2> QED BY <1>2, <2>1, <2>2 DEF SoundAt
<1>4. CoveredBy(e, H \cup {c})
  <2>1. d.used \subseteq AllOwned(d, H) \cup d.lost
    BY DEF Fit, CoveredBy
  <2>2. AllOwned(d, H) \subseteq AllOwned(e, H \cup {c})
    BY <1>2, AllOwnedIs
  <2>3. OwnedAt(e, c) \subseteq AllOwned(e, H \cup {c})
    BY AllOwnedIs
  <2> QED BY <2>1, <2>2, <2>3 DEF CoveredBy
<1>5. GoodAt(e, c, D)
  <2>1. c # FreeMapSector
    BY <1>1
  <2> QED BY <1>1, <2>1 DEF GoodAt, Provided
<1>6. H \cup {c} \subseteq Sector /\ D \subseteq H \cup {c} /\ D \cup {c} \subseteq H \cup {c}
  BY <1>1
<1>7. Fit(e, H \cup {c}, D)
  BY <1>2, <1>3, <1>4, <1>5, <1>6 DEF Fit
<1>8. ASSUME e.header[c] = NewHeader PROVE Fit(e, H \cup {c}, D \cup {c})
  <2>1. \A s \in H : GoodAt(e, s, D \cup {c})
    BY <1>1, <1>2 DEF GoodAt
  <2>2. GoodAt(e, c, D \cup {c})
    BY <1>8 DEF GoodAt, DirShape
  <2> QED BY <1>3, <1>4, <1>6, <2>1, <2>2 DEF Fit
<1> QED BY <1>7, <1>8

(* A new file and its directory are written. *)
LEMMA EntryWritten ==
  ASSUME NEW d \in Disk, NEW H, NEW D, Fit(d, H, D), FreeMapSector \in H, NEW dir \in D,
         NEW c \in Sector \ d.used, c = FindClear(d.used), NEW size \in Nat, NEW a,
         a = Allocate(d.block, d.used \cup {c}, NewHeader, size), a.ok,
         NEW t \in Table, Len(t) \in {NumDirEntries, 2 * NumDirEntries},
         NEW w, w = WriteTable(Written(d, c, a), dir, t)
  PROVE  w \in Writing /\ Fit(w.disk, H, D) /\ Joins(d, H, D, dir, c, size, a, w)
<1> DEFINE m == Written(d, c, a)
<1>1. H \subseteq d.used /\ D \subseteq H /\ H \subseteq Sector /\ SoundAt(d, H) /\ c \notin H
      /\ d.header \in [Sector -> FileHeader] /\ dir \in Sector
  BY HeadersUsed, DiskParts
<1>2. Granted(d.used \cup {c}, a)
  <2>1. NewHeader \in FileHeader /\ Len(NewHeader.sectors) = 0 /\ 0 <= NumDirect
    BY BlocksReachDisk DEF NewHeader, FileHeader
  <2>2. NewHeader \in OpenHeader
    BY <2>1 DEF OpenHeader
  <2>3. d.block \in [Sector -> Seq(Sector)] /\ BlocksFit(d.block) /\ d.used \cup {c} \in SUBSET Sector
    BY DiskParts
  <2> QED BY <2>2, <2>3, AllocateFacts
<1>3. /\ m \in Disk /\ m.used = d.used /\ m.block = a.block
      /\ m.header = [d.header EXCEPT ![c] = [bytes |-> a.header.bytes, sectors |-> Kept(a.header)]]
      /\ m.lost = d.lost \cup Range(Behind(a.header))
  <2>1. c \in Sector
    OBVIOUS
  <2>2. WrittenAs(d, c, a, m)
    BY <1>2, <2>1, WrittenIs
  <2> HIDE DEF m
  <2> QED BY <2>2 DEF WrittenAs
<1> HIDE DEF m
<1>4. m.header[c] = [bytes |-> a.header.bytes, sectors |-> Kept(a.header)]
      /\ \A u \in Sector \ {c} : m.header[u] = d.header[u]
  BY <1>1, <1>3
<1>5. Alike(d.block, m.block, d.used) /\ (size = 0 => m.header[c] = NewHeader)
  <2>1. Planned(d, c, size, a, m)
    BY <1>3, <1>4, NewHeaderGood
  <2> QED BY <2>1 DEF Planned
<1>6. ASSUME NEW s \in H PROVE Untouched(d, m, s)
  <2>1. Blocks(d, s) \subseteq d.used
    BY <1>1 DEF SoundAt, OwnedAt, Holdings, Blocks, Tree
  <2> QED BY <1>1, <1>4, <1>5, <2>1 DEF Alike, Untouched
<1>7. Fit(m, H, D)
  <2>1. \A s \in H : OwnedAt(d, s) \subseteq m.used
    BY <1>1, <1>3 DEF SoundAt
  <2>2. SoundAt(m, H) /\ \A s \in H : OwnedAt(m, s) = OwnedAt(d, s) /\ GoodAt(m, s, D)
    BY <1>3, <1>6, <2>1, LeftAlone
  <2>3. AllOwned(m, H) = AllOwned(d, H)
    <3>1. \A x : x \in AllOwned(m, H) <=> x \in AllOwned(d, H)
      BY <2>2, AllOwnedIs
    <3> QED BY <3>1
  <2>4. CoveredBy(m, H)
    BY <1>3, <2>3 DEF Fit, CoveredBy
  <2> QED BY <1>1, <2>2, <2>4 DEF Fit
<1>8. DirShape(m, dir)
  BY <1>1, <1>7 DEF Fit, GoodAt
<1>9. TableWrote(m, dir, t, w)
  BY <1>1, <1>3, <1>8, WriteTableDir DEF m
<1>10. /\ w \in Writing /\ w.disk \in Disk /\ Extends(m, w.disk, dir) /\ DirShape(w.disk, dir)
       /\ ~w.dead => Firm(m, w.disk, dir)
  BY <1>9 DEF TableWrote, Stored, Writing
<1>11. Fit(w.disk, H, D)
  BY <1>3, <1>7, <1>10, DirWritten
<1>12. ASSUME ~w.dead, NEW e \in Disk, e.used = a.map, e.header = w.disk.header, e.block = w.disk.block,
              e.lost = w.disk.lost
       PROVE  \/ HoldsAt(d.used, e, dir, c)
              \/ /\ Fit(e, H \cup {c}, D)
                 /\ size = 0 => Fit(e, H \cup {c}, D \cup {c}) /\ e.header[c] = NewHeader
  <2>1. CASE HoldsAt(d.used, w.disk, dir, c)
    BY <1>12, <2>1 DEF HoldsAt
  <2>2. CASE KeptAs(m, w.disk, dir) /\ w.disk.block = m.block
    <3>1. e.block = m.block /\ \A u \in Sector : e.header[u] = m.header[u]
      <4>1. w.disk.header[dir] = m.header[dir]
        BY <2>2 DEF KeptAs
      <4>2. \A u \in Sector \ {dir} : w.disk.header[u] = m.header[u]
        BY <1>10 DEF Extends
      <4> QED BY <1>12, <2>2, <4>1, <4>2
    <3>2. e.lost = m.lost
      BY <1>10, <1>12 DEF Extends
    <3>3. e.header[c] = [bytes |-> a.header.bytes, sectors |-> Kept(a.header)] /\ e.block = a.block
      BY <1>3, <1>4, <3>1
    <3>4. /\ c \in a.map /\ d.used \subseteq a.map
          /\ a.map \subseteq d.used \cup OwnedAt(e, c) \cup Range(Behind(a.header))
          /\ Holdings(e, c) \subseteq a.map \ (d.used \cup {c})
          /\ e.header[c].bytes = size
          /\ Provided(e, c, size)
          /\ size = 0 => e.header[c] = NewHeader
      <4>1. Planned(d, c, size, a, e)
        BY <3>3, NewHeaderGood
      <4> QED BY <4>1 DEF Planned
    <3>5. \A s \in H : Untouched(d, e, s)
      BY <1>1, <1>6, <3>1 DEF Untouched
    <3>6. /\ Fit(e, H \cup {c}, D)
          /\ e.header[c] = NewHeader => Fit(e, H \cup {c}, D \cup {c})
      <4>1. /\ d.used \subseteq e.used /\ c \in e.used /\ d.lost \subseteq e.lost
            /\ Holdings(e, c) \subseteq e.used \ (d.used \cup {c})
            /\ e.used \subseteq d.used \cup OwnedAt(e, c) \cup e.lost
            /\ Provided(e, c, e.header[c].bytes)
        BY <1>3, <1>12, <3>2, <3>4
      <4> QED BY <3>5, <4>1, FileJoins
    <3> QED BY <3>4, <3>6
  <2> QED BY <1>3, <1>10, <1>12, <2>1, <2>2 DEF Firm
<1>13. c # dir /\ c \in Sector \ {dir}
  BY <1>1
<1>14. w.disk.header[c] = m.header[c]
  BY <1>10, <1>13 DEF Extends
<1> HIDE DEF m
<1>15. \A e \in Disk : e.header = w.disk.header /\ size = 0 => e.header[c] = NewHeader
  BY <1>5, <1>14
<1>16. Joins(d, H, D, dir, c, size, a, w)
  BY <1>12, <1>15 DEF Joins
<1> QED BY <1>10, <1>11, <1>16

(* All of a table of either size is read back.                                *)
LEMMA ShapedTable ==
  ASSUME NEW t \in Table, Len(t) \in {NumDirEntries, 2 * NumDirEntries}
  PROVE  Visible(t) = t /\ Len(t) <= 2 * NumDirEntries /\ Len(t) >= 1
<1>1. NumDirEntries \in Nat /\ NumDirEntries > 1
  BY DiskAssumption
<1> DEFINE n == Len(t)
<1>2. n \in {NumDirEntries, 2 * NumDirEntries}
  OBVIOUS
<1> HIDE DEF n
<1>3. ~(n > 2 * NumDirEntries) /\ n <= 2 * NumDirEntries /\ n >= 1
  BY <1>1, <1>2
<1> QED BY <1>3 DEF Visible, n

(* There are finitely many names.                                             *)
LEMMA NamesFinite ==
  IsFiniteSet(EveryName)
<1>1. IsFiniteSet(Name) /\ IsFiniteSet({SwapName}) /\ IsFiniteSet({"."}) /\ IsFiniteSet({".."})
  BY NameAssumption, FS_Singleton
<1>2. EveryName = (Name \cup {SwapName}) \cup ({"."} \cup {".."})
  BY DEF EveryName, Dots
<1> QED BY <1>1, <1>2, FS_Union

(* A table of the larger size has a free entry for a name it does not hold:   *)
(* this is where FewNames is needed.                                          *)
LEMMA FreePlace ==
  ASSUME FewNames, NEW t \in Table, OneEach(t), Len(t) = 2 * NumDirEntries,
         NEW x \in EveryName, Entries(t, x) = {}
  PROVE  \E k \in 1 .. Len(t) : ~t[k].inUse
<1> SUFFICES ASSUME \A k \in 1 .. Len(t) : t[k].inUse PROVE FALSE
  OBVIOUS
<1> DEFINE n == Len(t)
           others == EveryName \ {x}
           f == [k \in 1 .. n |-> t[k].name]
<1>1. n \in Nat /\ NumDirEntries \in Nat /\ n = 2 * NumDirEntries
  BY PartOfTable, DiskAssumption
<1>2. ASSUME NEW k \in 1 .. n PROVE t[k] \in Entry /\ t[k].name \in others
  <2>1. t[k] \in Entry \cup {FreeEntry} /\ t[k].inUse
    BY <1>2 DEF Table
  <2>2. t[k] \in Entry
    BY <2>1, EntryFacts
  <2>3. t[k].name \in EveryName
    BY <2>2, EntryFacts DEF EveryName
  <2>4. t[k].name # x
    BY <1>2, <2>1, EntriesFacts
  <2> QED BY <2>2, <2>3, <2>4
<1>3. \A j, k \in 1 .. n : t[j].name = t[k].name => j = k
  BY DEF OneEach
<1>4. IsFiniteSet(EveryName) /\ Cardinality(EveryName) <= n
  BY NamesFinite DEF FewNames, EveryName
<1> HIDE DEF n, others
<1>5. f \in Injection(1 .. n, others)
  <2>1. f \in [1 .. n -> others]
    BY <1>2
  <2>2. IsInjective(f)
    BY <1>3 DEF IsInjective
  <2> HIDE DEF f
  <2> QED BY <2>1, <2>2 DEF Injection
<1>6. IsFiniteSet(others) /\ Cardinality(others) = Cardinality(EveryName) - 1
  BY <1>4, FS_RemoveElement DEF others
<1> HIDE DEF f
<1>7. Cardinality(1 .. n) <= Cardinality(others)
  BY <1>5, <1>6, FS_Injection
<1>8. Cardinality(1 .. n) = n
  BY <1>1, FS_Interval
<1>9. Cardinality(EveryName) \in Nat
  BY <1>4, FS_CardinalityType
<1> QED BY <1>1, <1>4, <1>6, <1>7, <1>8, <1>9

(* A name that is added is found.                                             *)
LEMMA TableAdds ==
  ASSUME FewNames, NEW t \in Table, OneEach(t), Len(t) \in {NumDirEntries, 2 * NumDirEntries},
         NEW e \in Entry, Entries(t, e.name) = {}
  PROVE  /\ AddEntry(t, e) \in Table
         /\ Len(AddEntry(t, e)) \in {NumDirEntries, 2 * NumDirEntries}
         /\ Entries(AddEntry(t, e), e.name) = {e}
<1> DEFINE r == AddEntry(t, e)
<1>1. /\ r \in Table /\ Len(r) = IF \E k \in 1 .. Len(t) : ~t[k].inUse THEN Len(t) ELSE 2 * Len(t)
      /\ \E i : /\ \A j \in 1 .. Len(r) : r[j] = IF j = i THEN e
                                                ELSE IF j <= Len(t) THEN t[j] ELSE FreeEntry
                /\ Len(t) >= 1 => i \in 1 .. Len(r)
  BY AddEntryPlace
<1>2. Len(t) >= 1 /\ Len(t) <= 2 * NumDirEntries
  BY ShapedTable
<1>3. e.name \in EveryName /\ e.inUse
  BY EntryFacts DEF EveryName
<1>4. Len(t) = 2 * NumDirEntries => \E k \in 1 .. Len(t) : ~t[k].inUse
  BY <1>3, FreePlace
<1> HIDE DEF r
<1>5. Len(r) \in {NumDirEntries, 2 * NumDirEntries}
  BY <1>1, <1>4
<1>6. e \in Entries(r, e.name)
  <2>1. PICK i \in 1 .. Len(r) : r[i] = e
    BY <1>1, <1>2
  <2> QED BY <1>1, <1>3, <2>1, EntriesFacts
<1>7. Entries(r, e.name) \subseteq {e}
  <2>1. Entries(Visible(r), e.name) \subseteq {e}
    BY <1>2, AddEntryFacts DEF r
  <2>2. Visible(r) = r
    BY <1>1, <1>5, ShapedTable
  <2> QED BY <2>1, <2>2
<1>8. Entries(r, e.name) = {e}
  BY <1>6, <1>7
<1> QED BY <1>1, <1>5, <1>8 DEF r

(* An empty table has the smaller size.                                       *)
LEMMA NewTableShape == Len(NewTable) = NumDirEntries
<1>1. NumDirEntries \in Nat
  BY DiskAssumption
<1> QED BY <1>1 DEF NewTable

(* So has a table with "." and "..", or the larger one.                       *)
LEMMA DotTableShape ==
  ASSUME FewNames, NEW s \in Sector, NEW parent \in Sector
  PROVE  Len(DotTable(s, parent)) \in {NumDirEntries, 2 * NumDirEntries}
<1> DEFINE here == DotEntry(".", s)
           above == DotEntry("..", parent)
           t == AddEntry(NewTable, here)
<1>1. /\ here \in Entry /\ here.name = "." /\ above \in Entry /\ above.name = ".."
      /\ "." # ".."
  BY DEF DotEntry, Entry, Dots
<1> HIDE DEF here, above
<1>2. NewTable \in Table /\ OneEach(NewTable) /\ \A x : Entries(NewTable, x) = {}
      /\ Len(NewTable) <= 2 * NumDirEntries /\ Len(NewTable) \in {NumDirEntries, 2 * NumDirEntries}
  BY NewTableFacts, NewTableShape
<1>3. t \in Table /\ Len(t) \in {NumDirEntries, 2 * NumDirEntries}
  BY <1>1, <1>2, TableAdds
<1>4. OneEach(t) /\ Entries(Visible(t), "..") = {}
  BY <1>1, <1>2, AddEntryFacts
<1>5. Visible(t) = t
  BY <1>3, ShapedTable
<1> HIDE DEF t
<1>6. Len(AddEntry(t, above)) \in {NumDirEntries, 2 * NumDirEntries}
  BY <1>1, <1>3, <1>4, <1>5, TableAdds
<1> QED BY <1>6 DEF DotTable, t, here, above

(* What is read of a directory is its table.                                  *)
LEMMA ShapedFetch ==
  ASSUME NEW d \in Disk, TableShape(d), UniqueNames(d), NEW s \in Sector
  PROVE  /\ Fetch(d, s) = d.table[s] /\ Fetch(d, s) \in Table /\ OneEach(Fetch(d, s))
         /\ Len(Fetch(d, s)) \in {NumDirEntries, 2 * NumDirEntries}
         /\ Len(Fetch(d, s)) <= 2 * NumDirEntries
<1>1. d.table[s] \in Table /\ Len(d.table[s]) \in {NumDirEntries, 2 * NumDirEntries}
  BY DiskParts DEF TableShape
<1>2. Fetch(d, s) = d.table[s]
  BY <1>1, FetchIsVisible, ShapedTable
<1> QED BY <1>1, <1>2, ShapedTable DEF UniqueNames

(* A table that was written or grown in the writing has the shape again.      *)
LEMMA StoredShape ==
  ASSUME NEW d \in Disk, TableShape(d), NEW s \in Sector, NEW t \in Table,
         Len(t) \in {NumDirEntries, 2 * NumDirEntries}, NEW w, Stored(d, s, t, w)
  PROVE  TableShape(w.disk)
<1> SUFFICES ASSUME NEW u \in Sector
             PROVE  Len(w.disk.table[u]) \in {NumDirEntries, 2 * NumDirEntries}
  BY DEF TableShape
<1>1. d.table \in [Sector -> Table] /\ Len(d.table[u]) \in {NumDirEntries, 2 * NumDirEntries}
      /\ Len(d.table[s]) \in {NumDirEntries, 2 * NumDirEntries}
  BY DiskParts DEF TableShape
<1> DEFINE longer == ExpandSize(d.table[s], Len(t))
<1>2. Len(longer) \in {NumDirEntries, 2 * NumDirEntries}
  <2> DEFINE n == Len(t)
             m == Len(d.table[s])
  <2>1. n \in Nat /\ m \in Nat /\ NumDirEntries \in Nat /\ d.table[s] \in Table
    BY <1>1, PartOfTable, DiskAssumption
  <2>2. Len(longer) = IF n > m THEN n ELSE m
    <3> HIDE DEF n
    <3> QED BY <2>1, ExpandSizeFacts DEF n
  <2> HIDE DEF longer
  <2> QED BY <1>1, <2>2
<1>3. w.disk.table = d.table \/ w.disk.table = [d.table EXCEPT ![s] = t]
      \/ w.disk.table = [d.table EXCEPT ![s] = longer]
  BY DEF Stored
<1> HIDE DEF longer
<1> QED BY <1>1, <1>2, <1>3

(* A table that is cleared has the shape.                                     *)
LEMMA FreshShape ==
  ASSUME NEW d \in Disk, TableShape(d), NEW s \in Sector, NEW e, e.table = Fresh(d, s)
  PROVE  TableShape(e)
<1> SUFFICES ASSUME NEW u \in Sector
             PROVE  Len(e.table[u]) \in {NumDirEntries, 2 * NumDirEntries}
  BY DEF TableShape
<1>1. d.table \in [Sector -> Table] /\ Len(d.table[u]) \in {NumDirEntries, 2 * NumDirEntries}
  BY DiskParts DEF TableShape
<1>2. e.table[u] = NewTable \/ e.table[u] = d.table[u]
  BY <1>1 DEF Fresh
<1> QED BY <1>1, <1>2, NewTableShape

(* The paths, and the swap file among them.                                   *)
LEMMA AnyFileFacts ==
  /\ Swap \in AnyFile /\ Last(Swap) = SwapName /\ Len(Swap) = 1 /\ Swap \notin Path
  /\ \A q \in AnyFile : q \in AnyPath /\ q \in Path \cup {Swap} /\ Last(q) \in AnyName
  /\ \A q \in Path : Last(q) \in Name /\ q # Swap /\ Last(q) # SwapName
<1>1. \A q \in Path : q \in AnyPath /\ Last(q) \in Name
  BY PathFacts, FrontFacts
<1>2. SwapName \notin Name
  BY NameAssumption
<1> QED BY <1>1, <1>2, PathFacts, FileNames DEF AnyFile, AnyName, Swap

(* The swap file is in the root directory.                                    *)
LEMMA SwapPlace ==
  ASSUME NEW d \in Disk
  PROVE  ParsePath(d, Swap) = {DirectorySector}
BY AnyFileFacts, ParsePathFacts

(* What a path stands for is in its directory.                                *)
LEMMA FoundThere ==
  ASSUME NEW d \in Disk, NEW q \in AnyFile, NEW s, ParsePath(d, q) = {s}
  PROVE  Find(d, q) = Entries(Fetch(d, s), Last(q))
<1>1. \A x : x \in Find(d, q) <=> x \in Entries(Fetch(d, s), Last(q))
  BY AnyFileFacts, FindFacts
<1> QED BY <1>1

(* A path has one directory at most.                                          *)
LEMMA PlaceIs ==
  ASSUME NEW d \in Disk, UniqueNames(d), NEW q \in AnyFile, NEW s \in ParsePath(d, q)
  PROVE  ParsePath(d, q) = {s}
BY AnyFileFacts, ParsePathUnique

(* A directory that gains an entry gains one path.                            *)
LEMMA GainsFinds ==
  ASSUME NEW d \in Disk, UniqueNames(d), NEW e \in Disk, NEW p \in AnyFile, PlacedIn(d),
         ApartFrom(d, p), NEW dir \in ParsePath(d, p), NEW entry, entry.name = Last(p),
         Find(d, p) = {}, Gains(d, e, dir, entry)
  PROVE  FindsKept(d, e, p) /\ Find(e, p) = Entries(Fetch(e, dir), Last(p))
<1>1. SameFinds(d, e, p)
  BY GainsNames
<1>2. ParsePath(e, p) = ParsePath(d, p)
  BY <1>1, AnyFileFacts, SwapPlace DEF SameFinds, AnyFile
<1>3. Find(e, p) = Entries(Fetch(e, dir), Last(p))
  BY <1>2, PlaceIs, FoundThere
<1>4. ASSUME Swap # p PROVE Find(e, Swap) = Find(d, Swap)
  <2>1. p \in Path /\ Last(p) # SwapName /\ SwapName \in AnyName
    BY <1>4, AnyFileFacts DEF AnyFile, AnyName
  <2>2. DirectorySector \in d.used
    BY AnyFileFacts, SwapPlace DEF PlacedIn
  <2>3. Entries(Fetch(e, DirectorySector), SwapName) = Entries(Fetch(d, DirectorySector), SwapName)
    BY <2>1, <2>2 DEF Gains
  <2> QED BY <2>3, AnyFileFacts, SwapPlace, FoundThere
<1>5. FindsKept(d, e, p)
  BY <1>1, <1>4, AnyFileFacts DEF FindsKept, SameFinds, AnyFile
<1> QED BY <1>3, <1>5

(* A directory that loses an entry loses it alone.                            *)
LEMMA RemovedEntries ==
  ASSUME NEW d \in Disk, UniqueNames(d), TableShape(d), NEW dir \in Sector, NEW entry \in Entry,
         entry.sector # dir, NEW r, Removed(d, dir, entry, r)
  PROVE  /\ TableShape(r.disk)
         /\ r.dead => \A x : Entries(Fetch(r.disk, dir), x) = Entries(Fetch(d, dir), x)
         /\ ~r.dead => \A x : Entries(Fetch(r.disk, dir), x) = Entries(Fetch(d, dir), x) \ {entry}
<1> DEFINE x == entry.sector
           d1 == Deallocate(d, x)
           f == Fetch(d, dir)
           t == Without(f, entry)
<1>1. x \in Sector
  BY EntryFacts
<1>2. d.table \in [Sector -> Table] /\ d1 \in Disk /\ d1.table = Fresh(d, x)
  BY <1>1, DeallocateFacts, DiskParts
<1>3. f \in Table /\ Len(f) <= 2 * NumDirEntries /\ OneEach(f) /\ f = d.table[dir]
      /\ Len(f) \in {NumDirEntries, 2 * NumDirEntries}
  BY ShapedFetch
<1> HIDE DEF f
<1>4. /\ t \in Table /\ \A y : Entries(Visible(t), y) = Entries(f, y) \ {entry}
      /\ Len(t) = Len(f)
  BY <1>3, WithoutFacts
<1>5. PICK w : Stored(d1, dir, t, w) /\ r.disk = w.disk /\ r.dead = w.dead
  BY DEF Removed, f
<1> HIDE DEF d1, t
<1>6. TableShape(d1)
  BY <1>1, <1>2, FreshShape
<1>7. TableShape(r.disk)
  BY <1>2, <1>3, <1>4, <1>5, <1>6, StoredShape
<1>8. d1.table[dir] = f
  BY <1>1, <1>2, <1>3 DEF Fresh
<1>9. d1.table \in [Sector -> Table]
  BY <1>2, DiskParts
<1>10. CASE r.dead
  <2>1. r.disk.table[dir] = f \/ r.disk.table[dir] = ExpandSize(f, Len(t))
    BY <1>5, <1>8, <1>9, <1>10 DEF Stored
  <2>2. Visible(f) = f /\ Len(t) \in Nat
    BY <1>3, <1>4, ShapedTable, PartOfTable
  <2>3. \A y : Entries(Visible(ExpandSize(f, Len(t))), y) = Entries(f, y)
    BY <1>3, <2>2, ExpandedSame
  <2>4. \A y : Entries(Visible(r.disk.table[dir]), y) = Entries(f, y)
    BY <2>1, <2>2, <2>3
  <2> QED BY <1>7, <1>10, <2>4, FetchIsVisible DEF f
<1>11. CASE ~r.dead
  <2>1. r.disk.table[dir] = t
    BY <1>5, <1>9, <1>11 DEF Stored
  <2>2. \A y : Entries(Visible(r.disk.table[dir]), y) = Entries(f, y) \ {entry}
    BY <1>4, <2>1
  <2> QED BY <1>7, <1>11, <2>2, FetchIsVisible DEF f
<1> QED BY <1>10, <1>11

(* What Remove leaves of the names.                                           *)
LEMMA RemoveFinds ==
  ASSUME NEW d \in Disk, UniqueNames(d), TableShape(d), NEW p \in AnyFile, PlacedIn(d),
         ApartFrom(d, p), FreedApart(d, p), RemoveName(d, p) # Failed(d)
  PROVE  NamesRemoved(d, p, RemoveName(d, p))
<1> DEFINE r == RemoveName(d, p)
           e == r.disk
<1>1. p \in AnyPath /\ r \in Result /\ e \in Disk
  BY AnyFileFacts, RemoveFacts, ResultParts
<1>2. PICK entry \in Find(d, p), dir \in ParsePath(d, p) :
        ~entry.isDirectory /\ Removed(d, dir, entry, r)
  BY <1>1, RemoveFacts
<1> DEFINE x == entry.sector
<1>3. entry \in Entry /\ dir \in Sector /\ x \in Sector
  BY <1>1, FindFacts, ParsePathFacts, EntryFacts
<1>4. \A q \in AnyFile : x \notin ParsePath(d, q)
  BY <1>2 DEF FreedApart, Freed
<1>5. x # dir
  BY <1>4
<1> HIDE DEF r
<1>6. /\ TableShape(r.disk)
      /\ r.dead => \A y : Entries(Fetch(r.disk, dir), y) = Entries(Fetch(d, dir), y)
      /\ ~r.dead => \A y : Entries(Fetch(r.disk, dir), y) = Entries(Fetch(d, dir), y) \ {entry}
  BY <1>2, <1>3, <1>5, RemovedEntries
<1>7. \A y : Entries(Fetch(e, dir), y) =
               IF r.dead THEN Entries(Fetch(d, dir), y) ELSE Entries(Fetch(d, dir), y) \ {entry}
  BY <1>6
<1>8. \A s \in Sector \ {x, dir} : Fetch(e, s) = Fetch(d, s)
  BY <1>2, <1>3, <1>5, RemovedTables
<1>9. Disappears(d, e, p)
  BY RemoveNames DEF r
<1> HIDE DEF e, x
<1>10. Find(d, p) = {entry} /\ ParsePath(d, p) = {dir}
  BY <1>1, <1>2, FindUnique, PlaceIs
<1>11. Find(d, p) = Entries(Fetch(d, dir), Last(p)) /\ entry.name = Last(p)
  <2>1. Find(d, p) = Entries(Fetch(d, dir), Last(p))
    BY <1>10, FoundThere
  <2> QED BY <1>10, <2>1 DEF Entries
<1>12. Find(e, p) = IF r.dead THEN Find(d, p) ELSE {}
  <2>1. ParsePath(e, p) = {dir}
    <3>1. CASE p = Swap
      BY <1>1, <1>10, <3>1, SwapPlace DEF e
    <3>2. CASE p # Swap
      <4> DEFINE n == Len(p)
      <4>1. n \in Nat \ {0} /\ p \in Path
        BY <1>1, <3>2, AnyFileFacts, FrontFacts DEF AnyPath
      <4>2. n = 1 \/ n > 1
        <5> HIDE DEF n
        <5> QED BY <4>1
      <4>3. CASE n = 1
        BY <1>1, <1>10, <4>3, ParsePathFacts DEF e
      <4>4. CASE n > 1
        <5>1. Front(p) \in Path /\ Front(p) # p
          <6>1. Len(Front(p)) # n
            BY <4>1, <4>4, FrontOfPath
          <6> QED BY <4>1, <4>4, <6>1, FrontOfPath
        <5>2. Find(e, Front(p)) = Find(d, Front(p))
          BY <1>9, <5>1 DEF Disappears
        <5>3. ParsePath(e, p) = ParsePath(d, p)
          BY <1>1, <5>2, ParsePathSame DEF e
        <5> QED BY <1>10, <5>3
      <4> QED BY <4>2, <4>3, <4>4
    <3> QED BY <3>1, <3>2
  <2>2. Find(e, p) = Entries(Fetch(e, dir), Last(p))
    BY <1>1, <2>1, FoundThere DEF e
  <2>3. Find(d, p) \ {entry} = {}
    BY <1>10
  <2> QED BY <1>7, <1>11, <2>2, <2>3
<1>13. ASSUME Swap # p PROVE Find(e, Swap) = Find(d, Swap)
  <2>1. Last(p) # SwapName
    BY <1>13, AnyFileFacts
  <2>2. DirectorySector \in Sector \ {x}
    <3>1. DirectorySector \in ParsePath(d, Swap)
      BY SwapPlace
    <3> QED BY <1>4, <3>1, AnyFileFacts, DiskFacts DEF x
  <2>3. Entries(Fetch(e, DirectorySector), SwapName) = Entries(Fetch(d, DirectorySector), SwapName)
    <3>1. CASE DirectorySector = dir
      <4>1. entry \notin Entries(Fetch(d, dir), SwapName)
        BY <1>11, <2>1 DEF Entries
      <4> QED BY <1>7, <3>1, <4>1
    <3>2. CASE DirectorySector # dir
      BY <1>8, <2>2, <3>2
    <3> QED BY <3>1, <3>2
  <2> QED BY <1>1, <2>3, AnyFileFacts, SwapPlace, FoundThere DEF e
<1>14. FindsKept(d, e, p)
  BY <1>9, <1>13, AnyFileFacts DEF FindsKept, Disappears, AnyFile
<1>15. TableShape(e)
  BY <1>6 DEF e
<1> QED BY <1>12, <1>14, <1>15 DEF NamesRemoved, e, r

(* The headers are the two fixed ones and those that an entry points to.      *)
LEMMA HeadersAre ==
  ASSUME NEW d \in Disk, UniqueNames(d)
  PROVE  /\ \A s : s \in Headers(d) <=>
                     \/ s \in {FreeMapSector, DirectorySector}
                     \/ \E q \in AnyFile : \E x \in Find(d, q) : x.sector = s
         /\ \A s : s \in Dirs(d) <=>
                     \/ s = DirectorySector
                     \/ \E q \in Path : \E x \in Find(d, q) : x.isDirectory /\ x.sector = s
<1>1. /\ <<"map">> \in Files(d) /\ HeaderSector(d, <<"map">>) = FreeMapSector
      /\ <<"root">> \in Files(d) /\ HeaderSector(d, <<"root">>) = DirectorySector
      /\ <<"root">> \in Directories(d)
  BY FileNames DEF Files, File, HasHeader, HeaderSector, Directories
<1>2. ASSUME NEW q \in AnyFile, NEW x \in Find(d, q)
      PROVE  q \in Files(d) /\ HeaderSector(d, q) = x.sector
  BY <1>2, AnyFileFacts, FoundIsFile
<1>3. ASSUME NEW f \in Files(d)
      PROVE  \/ f \in {<<"map">>, <<"root">>}
             \/ f \in AnyFile /\ \E x \in Find(d, f) : x.sector = HeaderSector(d, f)
  <2>1. CASE f \in {<<"map">>, <<"root">>}
    BY <2>1
  <2>2. CASE f \notin {<<"map">>, <<"root">>}
    <3>1. f \in AnyFile /\ Find(d, f) # {}
      BY <2>2 DEF Files, File, HasHeader, AnyFile, Swap
    <3>2. PICK x : x \in Find(d, f)
      BY <3>1
    <3> QED BY <1>2, <3>1, <3>2
  <2> QED BY <2>1, <2>2
<1>4. ASSUME NEW f \in Directories(d)
      PROVE  f = <<"root">> \/ (f \in Path /\ \E x \in Find(d, f) : x.isDirectory)
  BY <1>4 DEF Directories
<1>5. ASSUME NEW f \in Path, NEW x \in Find(d, f), x.isDirectory PROVE f \in Directories(d)
  BY <1>5 DEF Directories
<1>6. ASSUME NEW s
      PROVE  s \in Headers(d) <=>
                     \/ s \in {FreeMapSector, DirectorySector}
                     \/ \E q \in AnyFile : \E x \in Find(d, q) : x.sector = s
  BY <1>1, <1>2, <1>3 DEF Headers
<1>7. ASSUME NEW s
      PROVE  s \in Dirs(d) <=>
                     \/ s = DirectorySector
                     \/ \E q \in Path : \E x \in Find(d, q) : x.isDirectory /\ x.sector = s
  BY <1>1, <1>2, <1>4, <1>5 DEF Dirs, AnyFile
<1> QED BY <1>6, <1>7

(* All headers are sectors, and those of the directories are among them.      *)
LEMMA HeadersPlaced ==
  ASSUME NEW d \in Disk, UniqueNames(d)
  PROVE  Headers(d) \subseteq Sector /\ Dirs(d) \subseteq Headers(d) /\ FreeMapSector \in Headers(d)
         /\ DirectorySector \in Dirs(d)
<1>1. ASSUME NEW q \in AnyFile, NEW x \in Find(d, q) PROVE x.sector \in Sector
  BY <1>1, AnyFileFacts, FindFacts, EntryFacts
<1> QED BY <1>1, HeadersAre, DiskFacts DEF AnyFile

(* On a disk where no sector is owned twice, one pointer leads to it.         *)
LEMMA HolderOnce ==
  ASSUME NEW d \in Disk, UniqueNames(d), OwnedOnce(d), NEW x, NEW a, NEW b, NEW i, NEW j,
         Pointer(a, i, x) \in AllPointers(d), Pointer(b, j, x) \in AllPointers(d)
  PROVE  a = b
<1> DEFINE p == Pointer(a, i, x)
           q == Pointer(b, j, x)
<1>1. p[3] = x /\ q[3] = x /\ p[1] = <<"sector", a>> /\ q[1] = <<"sector", b>>
  BY DEF Pointer
<1>2. p \in AllPointers(d) /\ q \in AllPointers(d)
  OBVIOUS
<1> HIDE DEF p, q
<1>3. p = q
  BY <1>1, <1>2, PointersApart
<1> QED BY <1>1, <1>3

(* A sector of a file is behind a pointer of it.                              *)
LEMMA HolderOf ==
  ASSUME NEW d \in Disk, UniqueNames(d), NEW f \in Files(d), NEW x
  PROVE  /\ x \in Range(Header(d, f).sectors) =>
              \E i : Pointer(HeaderSector(d, f), i, x) \in AllPointers(d)
         /\ \A T \in SUBSET IndexBlocks(d, Header(d, f)) : x \in Below(d, T) =>
              \E y \in T : \E i : Pointer(y, i, x) \in AllPointers(d)
<1> DEFINE h == Header(d, f)
<1>1. ASSUME NEW s, NEW q, x \in Range(q)
      PROVE  \E i : Pointer(s, i, x) \in Pointers(s, q)
  <2>1. PICK i \in DOMAIN q : q[i] = x
    BY <1>1 DEF Range
  <2>2. <<<<"sector", s>>, i, q[i]>> \in Pointers(s, q)
    BY DEF Pointers
  <2> QED BY <2>1, <2>2 DEF Pointer
<1>2. /\ \A p \in Pointers(HeaderSector(d, f), h.sectors) : p \in AllPointers(d)
      /\ \A y \in IndexBlocks(d, h) : \A p \in Pointers(y, d.block[y]) : p \in AllPointers(d)
  <2>1. \A p \in PointersOf(d, f) : p \in AllPointers(d)
    BY DEF AllPointers
  <2> QED BY <2>1 DEF PointersOf
<1> HIDE DEF h
<1>3. ASSUME x \in Range(h.sectors)
      PROVE  \E i : Pointer(HeaderSector(d, f), i, x) \in AllPointers(d)
  BY <1>1, <1>2, <1>3
<1>4. ASSUME NEW T \in SUBSET IndexBlocks(d, h), x \in Below(d, T)
      PROVE  \E y \in T : \E i : Pointer(y, i, x) \in AllPointers(d)
  <2>1. PICK y \in T : x \in Range(d.block[y])
    BY <1>4 DEF Below
  <2> QED BY <1>1, <1>2, <2>1
<1> QED BY <1>3, <1>4 DEF h

(* On an intact disk two files share no sector.                               *)
LEMMA SharedNothing ==
  ASSUME NEW d \in Disk, UniqueNames(d), Intact(d), NEW f \in Files(d), NEW g \in Files(d), f # g
  PROVE  Sectors(d, Header(d, f)) \cap Sectors(d, Header(d, g)) = {}
<1> DEFINE rf == Range(Header(d, f).sectors)
           rg == Range(Header(d, g).sectors)
           xf == IndexBlocks(d, Header(d, f))
           xg == IndexBlocks(d, Header(d, g))
           sf == Sectors(d, Header(d, f))
           sg == Sectors(d, Header(d, g))
           hf == HeaderSector(d, f)
           hg == HeaderSector(d, g)
           Points(y, x) == \E i : Pointer(y, i, x) \in AllPointers(d)
<1>1. \A x, y, z : Points(y, x) /\ Points(z, x) => y = z
  BY HolderOnce DEF Intact
<1>2. hf # hg /\ hf \notin sg /\ hg \notin sf
  BY HeadersApart
<1>3. /\ \A x \in rf : Points(hf, x)
      /\ \A x \in rg : Points(hg, x)
  BY HolderOf
<1>4. /\ \A T \in SUBSET xf : \A x \in Below(d, T) : \E y \in T : Points(y, x)
      /\ \A T \in SUBSET xg : \A x \in Below(d, T) : \E y \in T : Points(y, x)
  BY HolderOf
<1>5. xf = rf \cup Below(d, rf) /\ xg = rg \cup Below(d, rg)
      /\ sf = xf \cup Below(d, xf) /\ sg = xg \cup Below(d, xg)
  BY DEF IndexBlocks, Sectors
<1> HIDE DEF rf, rg, xf, xg, sf, sg, hf, hg, Points
<1>6. rf \cap rg = {}
  BY <1>1, <1>2, <1>3
<1>7. ASSUME NEW x \in xf, x \in xg PROVE FALSE
  <2>1. \E y \in {hf} \cup rf : Points(y, x)
    BY <1>3, <1>4, <1>5, <1>7
  <2>2. \E y \in {hg} \cup rg : Points(y, x)
    BY <1>3, <1>4, <1>5, <1>7
  <2>3. PICK y \in ({hf} \cup rf) \cap ({hg} \cup rg) : TRUE
    BY <1>1, <2>1, <2>2
  <2> QED BY <1>2, <1>5, <1>6, <2>3
<1>8. ASSUME NEW x \in sf, x \in sg PROVE FALSE
  <2>1. \E y \in {hf} \cup xf : Points(y, x)
    BY <1>3, <1>4, <1>5, <1>8
  <2>2. \E y \in {hg} \cup xg : Points(y, x)
    BY <1>3, <1>4, <1>5, <1>8
  <2>3. PICK y \in ({hf} \cup xf) \cap ({hg} \cup xg) : TRUE
    BY <1>1, <2>1, <2>2
  <2> QED BY <1>2, <1>5, <1>7, <2>3
<1>9. sf \cap sg = {}
  BY <1>8
<1> QED BY <1>9 DEF sf, sg

(* An intact disk is sound.                                                   *)
LEMMA IntactSound ==
  ASSUME NEW d \in Disk, UniqueNames(d), Intact(d)
  PROVE  SoundAt(d, Headers(d))
<1>1. ASSUME NEW f \in Files(d)
      PROVE  OwnedAt(d, HeaderSector(d, f)) = Owned(d, f)
             /\ Holdings(d, HeaderSector(d, f)) = Sectors(d, Header(d, f))
  BY SectorsAreTree DEF OwnedAt, Owned, Header
<1>2. ASSUME NEW s \in Headers(d) PROVE OwnedAt(d, s) \subseteq d.used /\ s \notin Holdings(d, s)
  <2>1. PICK f \in Files(d) : s = HeaderSector(d, f)
    BY <1>2 DEF Headers
  <2> QED BY <1>1, <2>1, HeadersApart DEF Intact, InUse
<1>3. ASSUME NEW s \in Headers(d), NEW u \in Headers(d), s # u
      PROVE  OwnedAt(d, s) \cap OwnedAt(d, u) = {}
  <2>1. PICK f \in Files(d) : s = HeaderSector(d, f)
    BY <1>3 DEF Headers
  <2>2. PICK g \in Files(d) : u = HeaderSector(d, g)
    BY <1>3 DEF Headers
  <2>3. f # g
    BY <1>3, <2>1, <2>2
  <2>4. Holdings(d, s) \cap Holdings(d, u) = {}
    BY <1>1, <2>1, <2>2, <2>3, SharedNothing
  <2>5. s \notin Holdings(d, u) /\ u \notin Holdings(d, s)
    BY <1>1, <2>1, <2>2, HeadersApart
  <2> QED BY <1>3, <2>4, <2>5 DEF OwnedAt
<1> QED BY <1>2, <1>3 DEF SoundAt

(* How the headers of all files change with what one path stands for.          *)
LEMMA HeadersSame ==
  ASSUME NEW d \in Disk, UniqueNames(d), NEW e \in Disk, UniqueNames(e), NEW p \in AnyFile,
         FindsKept(d, e, p), Find(e, p) = Find(d, p)
  PROVE  Headers(e) = Headers(d) /\ Dirs(e) = Dirs(d)
<1>1. \A q \in AnyFile : Find(e, q) = Find(d, q)
  BY DEF FindsKept
<1>2. \A s : s \in Headers(e) <=> s \in Headers(d)
  BY <1>1, HeadersAre
<1>3. \A q \in Path : q \in AnyFile
  BY DEF AnyFile
<1>4. \A s : s \in Dirs(e) <=> s \in Dirs(d)
  BY <1>1, <1>3, HeadersAre
<1> QED BY <1>2, <1>4

(* A new file has a header more.                                              *)
LEMMA HeadersGain ==
  ASSUME NEW d \in Disk, UniqueNames(d), NEW e \in Disk, UniqueNames(e), NEW p \in AnyFile,
         FindsKept(d, e, p), Find(d, p) = {}, NEW x, Find(e, p) = {x}
  PROVE  /\ Headers(e) = Headers(d) \cup {x.sector}
         /\ x.isDirectory /\ p \in Path => Dirs(e) = Dirs(d) \cup {x.sector}
         /\ ~x.isDirectory => Dirs(e) = Dirs(d)
<1>1. \A q \in AnyFile : q # p => Find(e, q) = Find(d, q)
  BY DEF FindsKept
<1>2. \A s : s \in Headers(e) <=> s \in Headers(d) \/ s = x.sector
  <2>1. ASSUME NEW s, s \in Headers(e) PROVE s \in Headers(d) \/ s = x.sector
    <3>1. CASE s \in {FreeMapSector, DirectorySector}
      BY <3>1, HeadersAre
    <3>2. ASSUME NEW q \in AnyFile, NEW z \in Find(e, q), z.sector = s
          PROVE  s \in Headers(d) \/ s = x.sector
      BY <1>1, <3>2, HeadersAre
    <3> QED BY <2>1, <3>1, <3>2, HeadersAre
  <2>2. ASSUME NEW s, s \in Headers(d) PROVE s \in Headers(e)
    <3>1. CASE s \in {FreeMapSector, DirectorySector}
      BY <3>1, HeadersAre
    <3>2. ASSUME NEW q \in AnyFile, NEW z \in Find(d, q), z.sector = s
          PROVE  s \in Headers(e)
      BY <1>1, <3>2, HeadersAre
    <3> QED BY <2>2, <3>1, <3>2, HeadersAre
  <2>3. x.sector \in Headers(e)
    BY HeadersAre
  <2> QED BY <2>1, <2>2, <2>3
<1>3. \A q \in Path : q \in AnyFile
  BY DEF AnyFile
<1>4. \A s : s \in Dirs(d) => s \in Dirs(e)
  <2> SUFFICES ASSUME NEW s, s \in Dirs(d) PROVE s \in Dirs(e)
    OBVIOUS
  <2>1. CASE s = DirectorySector
    BY <2>1, HeadersAre
  <2>2. ASSUME NEW q \in Path, NEW z \in Find(d, q), z.isDirectory, z.sector = s
        PROVE  s \in Dirs(e)
    BY <1>1, <1>3, <2>2, HeadersAre
  <2> QED BY <2>1, <2>2, HeadersAre
<1>5. \A s : s \in Dirs(e) => s \in Dirs(d) \/ (x.isDirectory /\ s = x.sector)
  <2> SUFFICES ASSUME NEW s, s \in Dirs(e) PROVE s \in Dirs(d) \/ (x.isDirectory /\ s = x.sector)
    OBVIOUS
  <2>1. CASE s = DirectorySector
    BY <2>1, HeadersAre
  <2>2. ASSUME NEW q \in Path, NEW z \in Find(e, q), z.isDirectory, z.sector = s
        PROVE  s \in Dirs(d) \/ (x.isDirectory /\ s = x.sector)
    BY <1>1, <1>3, <2>2, HeadersAre
  <2> QED BY <2>1, <2>2, HeadersAre
<1>6. ASSUME x.isDirectory, p \in Path PROVE x.sector \in Dirs(e)
  BY <1>6, HeadersAre
<1>7. Headers(e) = Headers(d) \cup {x.sector}
  BY <1>2
<1>8. ASSUME x.isDirectory, p \in Path PROVE Dirs(e) = Dirs(d) \cup {x.sector}
  BY <1>4, <1>5, <1>6, <1>8
<1>9. ASSUME ~x.isDirectory PROVE Dirs(e) = Dirs(d)
  BY <1>4, <1>5, <1>9
<1> QED BY <1>7, <1>8, <1>9

(* A removed file has one less, and it was no directory.                      *)
LEMMA HeadersLoss ==
  ASSUME NEW d \in Disk, UniqueNames(d), Intact(d), NEW e \in Disk, UniqueNames(e),
         NEW p \in AnyFile, FindsKept(d, e, p), NEW x \in Find(d, p), ~x.isDirectory
  PROVE  /\ x.sector \in Headers(d) \ Dirs(d)
         /\ Find(e, p) = {} => Headers(e) = Headers(d) \ {x.sector} /\ Dirs(e) = Dirs(d)
<1>1. \A q \in AnyFile : q # p => Find(e, q) = Find(d, q)
  BY DEF FindsKept
<1>2. Find(d, p) = {x}
  BY AnyFileFacts, FindUnique
<1>3. x.sector \notin {FreeMapSector, DirectorySector}
  <2>1. p \in Files(d) /\ HeaderSector(d, p) = x.sector
    BY AnyFileFacts, FoundIsFile
  <2>2. /\ <<"map">> \in Files(d) /\ HeaderSector(d, <<"map">>) = FreeMapSector
        /\ <<"root">> \in Files(d) /\ HeaderSector(d, <<"root">>) = DirectorySector
    BY FileNames DEF Files, File, HasHeader, HeaderSector
  <2>3. p # <<"map">> /\ p # <<"root">>
    BY AnyFileFacts, FileNames
  <2> QED BY <2>1, <2>2, <2>3, HeadersApart
<1>4. ASSUME NEW q \in AnyFile, q # p, NEW z \in Find(d, q) PROVE z.sector # x.sector
  <2>1. p \in Files(d) /\ HeaderSector(d, p) = x.sector
    BY AnyFileFacts, FoundIsFile
  <2>2. q \in Files(d) /\ HeaderSector(d, q) = z.sector
    BY <1>4, AnyFileFacts, FoundIsFile
  <2> QED BY <1>4, <2>1, <2>2, HeadersApart
<1>5. \A q \in Path : q \in AnyFile
  BY DEF AnyFile
<1>6. x.sector \in Headers(d)
  BY HeadersAre
<1>7. x.sector \notin Dirs(d)
  <2> SUFFICES ASSUME x.sector \in Dirs(d) PROVE FALSE
    OBVIOUS
  <2>1. PICK q \in Path : \E z \in Find(d, q) : z.isDirectory /\ z.sector = x.sector
    BY <1>3, HeadersAre
  <2> QED BY <1>2, <1>4, <1>5, <2>1
<1>8. ASSUME Find(e, p) = {} PROVE Headers(e) = Headers(d) \ {x.sector}
  <2>1. ASSUME NEW s, s \in Headers(e) PROVE s \in Headers(d) /\ s # x.sector
    <3>1. CASE s \in {FreeMapSector, DirectorySector}
      BY <1>3, <3>1, HeadersAre
    <3>2. ASSUME NEW q \in AnyFile, NEW z \in Find(e, q), z.sector = s
          PROVE  s \in Headers(d) /\ s # x.sector
      <4>1. q # p /\ z \in Find(d, q)
        BY <1>1, <1>8, <3>2
      <4>2. s # x.sector
        BY <1>4, <3>2, <4>1
      <4> QED BY <3>2, <4>1, <4>2, HeadersAre
    <3> QED BY <2>1, <3>1, <3>2, HeadersAre
  <2>2. ASSUME NEW s, s \in Headers(d), s # x.sector PROVE s \in Headers(e)
    <3>1. CASE s \in {FreeMapSector, DirectorySector}
      BY <3>1, HeadersAre
    <3>2. ASSUME NEW q \in AnyFile, NEW z \in Find(d, q), z.sector = s
          PROVE  s \in Headers(e)
      <4>1. q # p
        BY <1>2, <2>2, <3>2
      <4> QED BY <1>1, <3>2, <4>1, HeadersAre
    <3> QED BY <2>2, <3>1, <3>2, HeadersAre
  <2> QED BY <2>1, <2>2
<1>9. ASSUME Find(e, p) = {} PROVE Dirs(e) = Dirs(d)
  <2>1. ASSUME NEW s, s \in Dirs(e) PROVE s \in Dirs(d)
    <3>1. CASE s = DirectorySector
      BY <3>1, HeadersAre
    <3>2. ASSUME NEW q \in Path, NEW z \in Find(e, q), z.isDirectory, z.sector = s
          PROVE  s \in Dirs(d)
      BY <1>1, <1>5, <1>9, <3>2, HeadersAre
    <3> QED BY <2>1, <3>1, <3>2, HeadersAre
  <2>2. ASSUME NEW s, s \in Dirs(d) PROVE s \in Dirs(e)
    <3>1. CASE s = DirectorySector
      BY <3>1, HeadersAre
    <3>2. ASSUME NEW q \in Path, NEW z \in Find(d, q), z.isDirectory, z.sector = s
          PROVE  s \in Dirs(e)
      <4>1. q # p
        BY <1>2, <3>2
      <4> QED BY <1>1, <1>5, <3>2, <4>1, HeadersAre
    <3> QED BY <2>2, <3>1, <3>2, HeadersAre
  <2> QED BY <2>1, <2>2
<1> QED BY <1>6, <1>7, <1>8, <1>9

(* A path lies in a directory.                                                *)
LEMMA PlaceIsDir ==
  ASSUME NEW d \in Disk, UniqueNames(d), NEW p \in AnyFile, NEW s \in ParsePath(d, p)
  PROVE  s \in Dirs(d)
<1>1. /\ HeaderSector(d, DirectoryFile(p)) = s
      /\ Len(p) > 1 => /\ Front(p) \in Path
                       /\ \E e \in Find(d, Front(p)) : e.isDirectory /\ e.sector = s
  BY AnyFileFacts, DirectoryOfPath
<1> DEFINE n == Len(p)
<1>2. n \in Nat \ {0} /\ p \in AnyPath
  BY AnyFileFacts, FrontFacts DEF AnyPath
<1>3. n = 1 \/ n > 1
  <2> HIDE DEF n
  <2> QED BY <1>2
<1>4. CASE n = 1
  <2>1. s = DirectorySector
    BY <1>2, <1>4, ParsePathFacts
  <2> QED BY <2>1, HeadersPlaced
<1>5. CASE n > 1
  BY <1>1, <1>5, HeadersAre
<1> QED BY <1>3, <1>4, <1>5

(* A call that changes nothing, or the whole of it.                           *)
LEMMA EnterSplit ==
  ASSUME NEW d \in Disk, NEW p \in AnyFile, NEW size \in Nat, NEW b \in BOOLEAN, NEW r,
         r = Enter(d, p, size, b)
  PROVE  \/ ~r.ok /\ r.disk = d
         \/ \E a, dir, w : Entering(d, p, size, b, r, a, dir, w)
<1> DEFINE x == FindClear(d.used)
           entry == NewEntry(d, p, b)
           dir == The(ParsePath(d, p))
           map == d.used \cup {x}
           a == Allocate(d.block, map, NewHeader, size)
           m == Written(d, x, a)
           w == WriteTable(m, dir, TableWith(d, p, b, dir))
<1>1. Enter(d, p, size, b) =
        IF ParsePath(d, p) = {} \/ Find(d, p) # {} \/ x = NoSector THEN Failed(d)
        ELSE StoreEntry(d, dir, entry, a)
  BY DEF Enter, NewEntry
<1>2. CASE ParsePath(d, p) = {} \/ Find(d, p) # {} \/ x = NoSector
  BY <1>1, <1>2, FailedFacts
<1>3. CASE ~(ParsePath(d, p) = {} \/ Find(d, p) # {} \/ x = NoSector)
  <2>1. x \in Sector \ d.used
    BY <1>3, FindClearFacts
  <2>2. entry \in Entry /\ entry.sector = x
    <3>1. Last(p) \in Name \cup Dots \cup {SwapName}
      BY AnyFileFacts DEF AnyName
    <3> HIDE DEF x
    <3>2. entry = [inUse |-> TRUE, name |-> Last(p), sector |-> x, isDirectory |-> b]
      BY DEF NewEntry, x
    <3> HIDE DEF entry
    <3> QED BY <2>1, <3>1, <3>2 DEF Entry
  <2>3. dir \in ParsePath(d, p) /\ dir \in Sector
    <3>1. dir \in ParsePath(d, p)
      BY <1>3 DEF The
    <3> QED BY <3>1, AnyFileFacts, ParsePathFacts
  <2>4. map \in SUBSET Sector /\ d.block \in [Sector -> Seq(Sector)] /\ BlocksFit(d.block)
    BY <2>1, DiskParts
  <2>5. NewHeader \in OpenHeader
    BY DiskFacts DEF NewHeader, OpenHeader, FileHeader
  <2> HIDE DEF map
  <2>6. Granted(map, a)
    BY <2>4, <2>5, AllocateFacts
  <2> HIDE DEF a, dir
  <2>7. StoreEntry(d, dir, entry, a) =
          IF a.ok THEN SaveMap(Ended(w), a.map) ELSE [Failed(d) EXCEPT !.dead = a.dead]
    <3>1. StoreEntry(d, dir, entry, a) =
            IF a.ok THEN SaveMap(Ended(WriteTable(Written(d, entry.sector, a), dir,
                                                  AddEntry(Fetch(d, dir), entry))), a.map)
            ELSE [Failed(d) EXCEPT !.dead = a.dead]
      BY Zenon DEF StoreEntry, Written
    <3> QED BY <2>2, <3>1 DEF TableWith
  <2>8. CASE ~a.ok
    <3>1. a.dead \in BOOLEAN
      BY <2>6 DEF Granted
    <3> QED BY <1>1, <1>3, <2>7, <2>8, <3>1, FailedFacts
  <2>9. CASE a.ok
    <3>1. WrittenAs(d, x, a, m)
      BY <2>1, <2>6, WrittenIs
    <3>2. m \in Disk
      BY <3>1 DEF WrittenAs
    <3>3. TableWith(d, p, b, dir) \in Table
      BY <2>2, <2>3, FetchFacts, AddEntryPlace DEF TableWith
    <3> HIDE DEF m
    <3>4. w \in Writing
      BY <2>3, <3>2, <3>3, WriteTableFacts DEF Stored
    <3> HIDE DEF w
    <3>5. r = SaveMap(Ended(w), a.map)
      BY <1>1, <1>3, <2>7, <2>9
    <3>6. a.map \in SUBSET Sector
      BY <2>6 DEF Granted
    <3> DEFINE z == Ended(w)
    <3>7. z \in Result /\ z.disk = w.disk /\ z.dead = w.dead /\ z.ok = ~w.dead
      BY <3>4, EndedFacts
    <3> HIDE DEF z
    <3>8. r \in Result /\ r.ok = ~w.dead /\ r.dead = w.dead
      BY <3>5, <3>6, <3>7, SaveMapFacts DEF z
    <3>9. r.disk = IF w.dead THEN w.disk ELSE [w.disk EXCEPT !.used = a.map]
      <4> DEFINE d2 == [z.disk EXCEPT !.used = a.map]
                 r2 == [z EXCEPT !.disk = d2]
      <4>1. r = IF z.ok THEN r2 ELSE z
        BY <3>5, Zenon DEF SaveMap, z
      <4> HIDE DEF d2
      <4>2. r2.disk = d2
        BY <3>7 DEF Result
      <4> HIDE DEF r2
      <4>3. CASE w.dead
        BY <3>7, <4>1, <4>3
      <4>4. CASE ~w.dead
        BY <3>7, <4>1, <4>2, <4>4 DEF d2
      <4> QED BY <4>3, <4>4
    <3>10. a = Allocate(d.block, d.used \cup {x}, NewHeader, size) /\ Granted(d.used \cup {x}, a)
      BY <2>6 DEF a, map
    <3>11. w = WriteTable(Written(d, x, a), dir, TableWith(d, p, b, dir))
      BY DEF w, m
    <3> HIDE DEF x, entry
    <3>12. Entering(d, p, size, b, r, a, dir, w)
      BY <1>3, <2>1, <2>2, <2>3, <2>9, <3>4, <3>8, <3>9, <3>10, <3>11 DEF Entering, x, entry
    <3> QED BY <3>12
  <2> QED BY <2>8, <2>9
<1> QED BY <1>2, <1>3

(* The names that Create and Make_Dir leave.                                  *)
LEMMA EnterNames ==
  ASSUME FewNames, NEW d \in Disk, UniqueNames(d), TableShape(d), NEW p \in AnyFile, PlacedIn(d),
         ApartFrom(d, p), NEW size \in Nat, NEW b \in BOOLEAN, NEW r, r = Enter(d, p, size, b),
         NEW a, NEW dir, NEW w, Entering(d, p, size, b, r, a, dir, w)
  PROVE  NamesEntered(d, p, b, dir, r)
<1> DEFINE c == FindClear(d.used)
           entry == NewEntry(d, p, b)
           t == TableWith(d, p, b, dir)
           m == Written(d, c, a)
           f == Fetch(d, dir)
           e == r.disk
<1>1. /\ Find(d, p) = {} /\ entry \in Entry /\ c \in Sector \ d.used /\ dir \in ParsePath(d, p)
      /\ Granted(d.used \cup {c}, a) /\ w = WriteTable(m, dir, t) /\ w \in Writing
      /\ r \in Result /\ r.ok = ~w.dead /\ r.dead = w.dead /\ a.ok
      /\ e = IF w.dead THEN w.disk ELSE [w.disk EXCEPT !.used = a.map]
  BY DEF Entering
<1>2. entry.name = Last(p) /\ entry.sector = c /\ entry.isDirectory = b
  BY DEF NewEntry
<1>3. dir \in Sector /\ dir \in d.used /\ p \in AnyPath /\ c # dir
  BY <1>1, AnyFileFacts, ParsePathFacts DEF PlacedIn
<1>4. ParsePath(d, p) = {dir} /\ Entries(f, Last(p)) = {}
  <2>1. ParsePath(d, p) = {dir}
    BY <1>1, PlaceIs
  <2> QED BY <1>1, <2>1, FoundThere
<1>5. /\ f = d.table[dir] /\ f \in Table /\ OneEach(f) /\ Len(f) \in {NumDirEntries, 2 * NumDirEntries}
      /\ Len(f) <= 2 * NumDirEntries
  BY <1>3, ShapedFetch
<1>6. /\ t \in Table /\ Len(t) \in {NumDirEntries, 2 * NumDirEntries}
      /\ Entries(t, Last(p)) = {entry}
  <2> HIDE DEF entry, f
  <2>1. t = AddEntry(f, entry)
    BY DEF TableWith, f, entry
  <2> HIDE DEF t
  <2>2. Entries(f, entry.name) = {}
    BY <1>2, <1>4
  <2>3. /\ AddEntry(f, entry) \in Table
        /\ Len(AddEntry(f, entry)) \in {NumDirEntries, 2 * NumDirEntries}
        /\ Entries(AddEntry(f, entry), entry.name) = {entry}
    BY <1>1, <1>5, <2>2, TableAdds
  <2> QED BY <1>2, <2>1, <2>3
<1>7. m \in Disk /\ m.table = Fresh(d, c)
  <2>1. WrittenAs(d, c, a, m)
    BY <1>1, WrittenIs
  <2> QED BY <2>1 DEF WrittenAs
<1> HIDE DEF m, t
<1>8. Stored(m, dir, t, w)
  BY <1>1, <1>3, <1>6, <1>7, WriteTableFacts
<1>9. e \in Disk /\ e.table = w.disk.table /\ UniqueNames(e)
  <2>1. e \in Disk /\ UniqueNames(e)
    BY <1>1, <1>3, EnterResult, ResultParts
  <2>2. w.disk \in Disk /\ a.map \in SUBSET Sector
    BY <1>1 DEF Writing, Granted
  <2> HIDE DEF e
  <2>3. e.table = w.disk.table
    BY <1>1, <2>2, DiskUsed
  <2> QED BY <2>1, <2>3 DEF e
<1> HIDE DEF e
<1>10. TableShape(e)
  <2>1. TableShape(m)
    BY <1>1, <1>7, FreshShape
  <2>2. TableShape(w.disk)
    BY <1>3, <1>6, <1>7, <1>8, <2>1, StoredShape
  <2> QED BY <1>9, <2>2 DEF TableShape
<1>11. m.table[dir] = f /\ m.table \in [Sector -> Table]
  <2>1. m.table \in [Sector -> Table] /\ d.table \in [Sector -> Table]
    BY <1>7, DiskParts
  <2> QED BY <1>3, <1>5, <1>7, <2>1 DEF Fresh
<1>12. Entries(Fetch(e, dir), Last(p)) = IF r.ok THEN {entry} ELSE {}
  <2>1. Fetch(e, dir) = e.table[dir]
    BY <1>3, <1>9, <1>10, ShapedFetch
  <2>2. CASE w.dead
    <3>1. e.table[dir] = f \/ e.table[dir] = ExpandSize(f, Len(t))
      BY <1>3, <1>8, <1>9, <1>11, <2>2 DEF Stored
    <3>2. Visible(f) = f /\ Len(t) \in Nat
      BY <1>5, <1>6, ShapedTable, PartOfTable
    <3> HIDE DEF f
    <3>3. Entries(Visible(ExpandSize(f, Len(t))), Last(p)) = Entries(Visible(f), Last(p))
      BY <1>5, <3>2, ExpandedSame
    <3>4. Entries(Visible(e.table[dir]), Last(p)) = {}
      BY <1>4, <3>1, <3>2, <3>3
    <3> QED BY <1>1, <2>2, <3>4, FetchIsVisible
  <2>3. CASE ~w.dead
    <3>1. e.table[dir] = t
      BY <1>3, <1>8, <1>9, <1>11, <2>3 DEF Stored
    <3> QED BY <1>1, <1>6, <2>1, <2>3, <3>1
  <2> QED BY <2>2, <2>3
<1>13. e = d \/ Gains(d, e, dir, entry)
  <2>1. r # Failed(d) \/ e = d
    BY FailedFacts DEF e
  <2>2. CASE r # Failed(d)
    <3>1. /\ The(ParsePath(d, p)) \in ParsePath(d, p)
          /\ e = d \/ Gains(d, e, The(ParsePath(d, p)), entry)
      BY <2>2, EnterGains DEF e
    <3> QED BY <1>4, <3>1
  <2> QED BY <2>1, <2>2
<1>14. FindsKept(d, e, p) /\ Find(e, p) = IF r.ok THEN {entry} ELSE {}
  <2>1. CASE e = d
    <3>1. Find(e, p) = Entries(Fetch(e, dir), Last(p))
      BY <1>4, <2>1, FoundThere
    <3>2. FindsKept(d, e, p)
      BY <2>1 DEF FindsKept
    <3> QED BY <1>12, <3>1, <3>2
  <2>2. CASE Gains(d, e, dir, entry)
    <3> HIDE DEF entry
    <3>1. FindsKept(d, e, p) /\ Find(e, p) = Entries(Fetch(e, dir), Last(p))
      BY <1>1, <1>2, <1>9, <2>2, GainsFinds
    <3> QED BY <1>12, <3>1 DEF entry
  <2> QED BY <1>13, <2>1, <2>2
<1> QED BY <1>6, <1>9, <1>10, <1>14 DEF NamesEntered, e, t

(* The sectors that Create and Make_Dir leave: the new file has its own, or   *)
(* the directory took them first and no file does.                            *)
LEMMA EnterFits ==
  ASSUME FewNames, NEW d \in Disk, Healthy(d), NEW p \in AnyFile, PlacedIn(d),
         ApartFrom(d, p), NEW size \in Nat, NEW b \in BOOLEAN, b => size = 0 /\ p \in Path,
         NEW r, r = Enter(d, p, size, b),
         NEW a, NEW dir, NEW w, Entering(d, p, size, b, r, a, dir, w)
  PROVE  /\ dir \in Dirs(d) /\ dir \in Sector /\ r.disk \in Disk /\ TableShape(r.disk)
         /\ d.used \subseteq r.disk.used
         /\ ~r.ok => Fit(r.disk, Headers(r.disk), Dirs(r.disk))
         /\ r.ok => /\ Headers(r.disk) = Headers(d) \cup {FindClear(d.used)}
                    /\ FindClear(d.used) \in r.disk.used
                    /\ b => r.disk.header[FindClear(d.used)] = NewHeader
                            /\ Dirs(r.disk) = Dirs(d) \cup {FindClear(d.used)}
                    /\ \/ HoldsAt(d.used, r.disk, dir, FindClear(d.used))
                       \/ Fit(r.disk, Headers(r.disk), Dirs(r.disk))
<1> DEFINE c == FindClear(d.used)
           entry == NewEntry(d, p, b)
           t == TableWith(d, p, b, dir)
           e == r.disk
           H == Headers(d)
           D == Dirs(d)
<1>1. UniqueNames(d) /\ TableShape(d) /\ Fit(d, H, D)
  BY DEF Healthy
<1>2. /\ Find(d, p) = {} /\ c \in Sector \ d.used /\ dir \in ParsePath(d, p)
      /\ a = Allocate(d.block, d.used \cup {c}, NewHeader, size) /\ a.ok
      /\ Granted(d.used \cup {c}, a)
      /\ w = WriteTable(Written(d, c, a), dir, t) /\ w \in Writing
      /\ r \in Result /\ r.ok = ~w.dead /\ r.dead = w.dead
      /\ e = IF w.dead THEN w.disk ELSE [w.disk EXCEPT !.used = a.map]
  BY DEF Entering
<1>3. /\ t \in Table /\ Len(t) \in {NumDirEntries, 2 * NumDirEntries}
      /\ e \in Disk /\ UniqueNames(e) /\ TableShape(e) /\ FindsKept(d, e, p)
      /\ r.ok => Find(e, p) = {entry}
      /\ ~r.ok => Find(e, p) = {}
  <2>1. /\ FewNames /\ d \in Disk /\ UniqueNames(d) /\ TableShape(d) /\ p \in AnyFile /\ PlacedIn(d)
        /\ ApartFrom(d, p) /\ size \in Nat /\ b \in BOOLEAN /\ r = Enter(d, p, size, b)
        /\ Entering(d, p, size, b, r, a, dir, w)
    BY <1>1
  <2>2. NamesEntered(d, p, b, dir, r)
    BY ONLY <2>1, EnterNames
  <2> QED BY <2>2 DEF NamesEntered
<1>4. dir \in D /\ FreeMapSector \in H /\ dir \in Sector
  BY <1>1, <1>2, PlaceIsDir, HeadersPlaced
<1>5. d.used \subseteq e.used
  BY <1>1, AnyFileFacts, EnterResult
<1>6. entry.sector = c /\ entry.isDirectory = b
  BY DEF NewEntry
<1>7. w.disk \in Disk /\ a.map \in SUBSET Sector /\ c \in a.map
  BY <1>2 DEF Writing, Granted
<1> HIDE DEF c, t, H, D, e, entry
<1>8. /\ Fit(w.disk, H, D)
      /\ ~w.dead => (e.used = a.map /\ e.header = w.disk.header /\ e.block = w.disk.block
                     /\ e.lost = w.disk.lost =>
                       /\ size = 0 => e.header[c] = NewHeader
                       /\ \/ HoldsAt(d.used, e, dir, c)
                          \/ /\ Fit(e, H \cup {c}, D)
                             /\ size = 0 => Fit(e, H \cup {c}, D \cup {c}))
  <2>1. c = FindClear(d.used)
    BY DEF c
  <2>2. Fit(w.disk, H, D) /\ Joins(d, H, D, dir, c, size, a, w)
    <3>1. /\ d \in Disk /\ Fit(d, H, D) /\ FreeMapSector \in H /\ dir \in D /\ c \in Sector \ d.used
          /\ c = FindClear(d.used) /\ size \in Nat /\ a = Allocate(d.block, d.used \cup {c}, NewHeader, size)
          /\ a.ok /\ t \in Table /\ Len(t) \in {NumDirEntries, 2 * NumDirEntries}
          /\ w = WriteTable(Written(d, c, a), dir, t)
      BY <1>1, <1>2, <1>3, <1>4, <2>1
    <3> QED BY ONLY <3>1, EntryWritten
  <2> QED BY <1>3, <2>2 DEF Joins
<1>9. CASE w.dead
  <2>1. e = w.disk /\ Find(e, p) = Find(d, p)
    BY <1>2, <1>3, <1>9
  <2>2. Headers(e) = H /\ Dirs(e) = D
    BY <1>1, <1>3, <2>1, HeadersSame DEF H, D
  <2> QED BY <1>2, <1>3, <1>4, <1>5, <1>8, <1>9, <2>1, <2>2 DEF e, D
<1>10. CASE ~w.dead
  <2>1. e = [w.disk EXCEPT !.used = a.map]
    BY <1>2, <1>10
  <2>2. e.used = a.map /\ e.header = w.disk.header /\ e.block = w.disk.block /\ e.lost = w.disk.lost
    BY <1>7, <2>1 DEF Disk
  <2>3. r.ok /\ Find(e, p) = {entry} /\ c \in e.used
    BY <1>2, <1>3, <1>7, <1>10, <2>2
  <2>4. /\ Headers(e) = H \cup {c}
        /\ b => Dirs(e) = D \cup {c}
        /\ ~b => Dirs(e) = D
    <3>1. /\ Headers(e) = H \cup {entry.sector}
          /\ entry.isDirectory /\ p \in Path => Dirs(e) = D \cup {entry.sector}
          /\ ~entry.isDirectory => Dirs(e) = D
      <4>1. /\ d \in Disk /\ e \in Disk /\ p \in AnyFile /\ UniqueNames(d) /\ UniqueNames(e)
            /\ FindsKept(d, e, p) /\ Find(d, p) = {} /\ Find(e, p) = {entry}
        BY <1>1, <1>2, <1>3, <2>3
      <4>2. /\ Headers(e) = Headers(d) \cup {entry.sector}
            /\ entry.isDirectory /\ p \in Path => Dirs(e) = Dirs(d) \cup {entry.sector}
            /\ ~entry.isDirectory => Dirs(e) = Dirs(d)
        BY ONLY <4>1, HeadersGain
      <4> QED BY <4>2 DEF H, D
    <3> QED BY <1>2, <1>6, <3>1
  <2>5. /\ size = 0 => e.header[c] = NewHeader
        /\ \/ HoldsAt(d.used, e, dir, c)
           \/ /\ Fit(e, H \cup {c}, D)
              /\ size = 0 => Fit(e, H \cup {c}, D \cup {c})
    BY <1>8, <1>10, <2>2
  <2>6. HoldsAt(d.used, e, dir, c) \/ Fit(e, Headers(e), Dirs(e))
    BY <2>4, <2>5
  <2> QED BY <1>3, <1>4, <1>5, <2>3, <2>4, <2>5, <2>6 DEF e, c, H, D
<1> QED BY <1>9, <1>10

(* FileSystem::Create.                                                        *)
LEMMA CreateWell ==
  ASSUME FewNames, NEW d \in Disk, Healthy(d), NEW p \in AnyFile, PlacedIn(d),
         ApartFrom(d, p), NEW size \in Nat
  PROVE  Well(Create(d, p, size).disk)
<1> DEFINE r == Enter(d, p, size, FALSE)
           c == FindClear(d.used)
<1>1. r = Create(d, p, size)
  BY DEF Create
<1>2. CASE ~r.ok /\ r.disk = d
  BY <1>1, <1>2 DEF Healthy, Well
<1>3. ASSUME NEW a, NEW dir, NEW w, Entering(d, p, size, FALSE, r, a, dir, w)
      PROVE  Well(r.disk)
  <2>1. FALSE \in BOOLEAN /\ c \in Sector \ d.used
    BY <1>3 DEF Entering
  <2> HIDE DEF r
  <2>2. /\ dir \in Dirs(d) /\ TableShape(r.disk)
        /\ ~r.ok => Fit(r.disk, Headers(r.disk), Dirs(r.disk))
        /\ r.ok => /\ Headers(r.disk) = Headers(d) \cup {c}
                   /\ \/ HoldsAt(d.used, r.disk, dir, c)
                      \/ Fit(r.disk, Headers(r.disk), Dirs(r.disk))
    BY <1>3, <2>1, EnterFits DEF r
  <2>3. Dirs(d) \subseteq Headers(d) /\ Headers(d) \subseteq d.used
    BY HeadersUsed DEF Healthy
  <2> HIDE DEF c
  <2>4. r.ok /\ HoldsAt(d.used, r.disk, dir, c) => ~SoundAt(r.disk, Headers(r.disk))
    BY <2>1, <2>2, <2>3, HeldApart
  <2> QED BY <2>2, <2>4 DEF Well
<1>4. \/ ~r.ok /\ r.disk = d
      \/ \E a, dir, w : Entering(d, p, size, FALSE, r, a, dir, w)
  BY EnterSplit
<1> HIDE DEF r
<1> QED BY <1>1, <1>2, <1>3, <1>4

(* Writing the sectors of an empty file leaves what other files hold.          *)
LEMMA HeldStill ==
  ASSUME NEW e \in Disk, NEW g \in Disk, NEW U \in SUBSET e.used, NEW s \in Sector,
         NEW c \in Sector \ {s}, e.header[c] = NewHeader, Extends(e, g, c), HoldsAt(U, e, s, c)
  PROVE  HoldsAt(U, g, s, c)
<1>1. Blocks(e, c) = {}
  BY EmptyTree DEF Blocks, NewHeader
<1>2. g.header[s] = e.header[s] /\ \A u \in U : g.block[u] = e.block[u]
  BY <1>1 DEF Extends
<1>3. CASE c \in Range(e.header[s].sectors)
  BY <1>2, <1>3 DEF HoldsAt
<1>4. CASE \E x, y \in U : Rooted(e.block, e.header[s].sectors, x, y) /\ c \in Range(e.block[y])
  <2>1. PICK x \in U, y \in U : Rooted(e.block, e.header[s].sectors, x, y) /\ c \in Range(e.block[y])
    BY <1>4
  <2>2. Rooted(g.block, g.header[s].sectors, x, y) /\ c \in Range(g.block[y])
    BY <1>2, <2>1 DEF Rooted
  <2> QED BY <2>2 DEF HoldsAt
<1> QED BY <1>3, <1>4 DEF HoldsAt

(* Make_Dir, when "." and ".." are written.                                   *)
LEMMA DotsWell ==
  ASSUME FewNames, NEW d \in Disk, Healthy(d), NEW p \in Path, PlacedIn(d),
         ApartFrom(d, p), NEW size, size = 0, NEW b, b = TRUE,
         NEW r, r = Enter(d, p, size, b),
         NEW a, NEW dir, NEW w, Entering(d, p, size, b, r, a, dir, w), r.ok,
         NEW t, t = DotTable(FindClear(d.used), dir),
         NEW g, g = WriteTable(r.disk, FindClear(d.used), t).disk
  PROVE  Well(g)
<1> DEFINE c == FindClear(d.used)
           e == r.disk
           entry == NewEntry(d, p, b)
           v == WriteTable(e, c, t)
<1>1. /\ UniqueNames(d) /\ TableShape(d) /\ p \in AnyFile /\ p \in AnyPath /\ size \in Nat /\ b \in BOOLEAN
      /\ b => size = 0 /\ p \in Path
  BY AnyFileFacts DEF Healthy, AnyFile
<1>2. /\ dir \in Dirs(d) /\ dir \in Sector /\ e \in Disk /\ TableShape(e)
      /\ d.used \subseteq e.used
      /\ Headers(e) = Headers(d) \cup {c} /\ c \in e.used
      /\ e.header[c] = NewHeader /\ Dirs(e) = Dirs(d) \cup {c}
      /\ HoldsAt(d.used, e, dir, c) \/ Fit(e, Headers(e), Dirs(e))
  BY <1>1, EnterFits
<1>3. c \in Sector \ d.used /\ dir \in ParsePath(d, p) /\ Find(d, p) = {}
  BY DEF Entering
<1>4. UniqueNames(e)
  BY <1>1, EnterResult
<1>5. Dirs(d) \subseteq Headers(d) /\ Headers(d) \subseteq d.used
  BY HeadersUsed DEF Healthy
<1>6. dir \in d.used /\ c # dir /\ c \in Sector
  BY <1>2, <1>3, <1>5
<1>7. /\ t \in Table /\ Len(t) \in {NumDirEntries, 2 * NumDirEntries} /\ OneEach(t)
      /\ \A y \in AnyName : Entries(Visible(t), y) = {}
  <2> HIDE DEF c
  <2>1. t = DotTable(c, dir)
    BY DEF c
  <2> QED BY <1>2, <1>6, <2>1, DotTableFacts, DotTableShape DEF AnyName
<1>8. TableWrote(e, c, t, v)
  <2>1. DirShape(e, c)
    BY <1>2 DEF DirShape
  <2> QED BY <1>2, <1>6, <1>7, <2>1, WriteTableDir
<1>9. entry.name = Last(p) /\ entry.sector = c
  BY DEF NewEntry
<1>10. Gains(d, e, dir, entry)
  <2>1. r # Failed(d)
    BY FailedFacts
  <2>2. The(ParsePath(d, p)) = dir
    <3>1. The(ParsePath(d, p)) \in ParsePath(d, p)
      BY <1>1, <2>1, EnterGains
    <3> QED BY <1>1, <1>3, <3>1, PlaceIs
  <2>3. e = d \/ Gains(d, e, dir, entry)
    BY <1>1, <2>1, <2>2, EnterGains
  <2> QED BY <1>2, <1>3, <2>3
<1>11. g = v.disk /\ g \in Disk
  BY <1>8 DEF TableWrote, Stored, Writing
<1> HIDE DEF v, e, entry, c
<1>12. Stored(e, c, t, v) /\ Extends(e, g, c) /\ DirShape(g, c)
  BY <1>8, <1>11 DEF TableWrote
<1>13. UniqueNames(g) /\ TableShape(g)
  BY <1>2, <1>4, <1>6, <1>7, <1>11, <1>12, StoredUnique, StoredShape
<1>14. Gains(d, g, dir, entry) /\ Fetch(g, dir) = Fetch(e, dir)
  <2>1. /\ d \in Disk /\ e \in Disk /\ dir \in d.used /\ c \in Sector \ d.used /\ entry.sector = c
        /\ Gains(d, e, dir, entry) /\ t \in Table /\ Stored(e, c, t, v)
        /\ \A y \in AnyName : Entries(Visible(t), y) = {}
    BY <1>2, <1>3, <1>6, <1>7, <1>9, <1>10, <1>12
  <2>2. Gains(d, v.disk, dir, entry) /\ Fetch(v.disk, dir) = Fetch(e, dir)
    BY ONLY <2>1, DotsGain
  <2> QED BY <1>11, <2>2
<1>15. /\ FindsKept(d, g, p) /\ Find(g, p) = Entries(Fetch(g, dir), Last(p))
       /\ FindsKept(d, e, p) /\ Find(e, p) = Entries(Fetch(e, dir), Last(p))
  <2>1. /\ d \in Disk /\ e \in Disk /\ g \in Disk /\ UniqueNames(d) /\ p \in AnyFile /\ PlacedIn(d)
        /\ ApartFrom(d, p) /\ dir \in ParsePath(d, p) /\ entry.name = Last(p) /\ Find(d, p) = {}
        /\ Gains(d, e, dir, entry) /\ Gains(d, g, dir, entry)
    BY <1>1, <1>2, <1>3, <1>9, <1>10, <1>11, <1>14
  <2>2. FindsKept(d, g, p) /\ Find(g, p) = Entries(Fetch(g, dir), Last(p))
    BY ONLY <2>1, GainsFinds
  <2>3. FindsKept(d, e, p) /\ Find(e, p) = Entries(Fetch(e, dir), Last(p))
    BY ONLY <2>1, GainsFinds
  <2> QED BY <2>2, <2>3
<1>16. FindsKept(e, g, p) /\ Find(g, p) = Find(e, p)
  BY <1>14, <1>15 DEF FindsKept
<1>17. Headers(g) = Headers(e) /\ Dirs(g) = Dirs(e)
  BY <1>1, <1>2, <1>4, <1>11, <1>13, <1>16, HeadersSame
<1>18. CASE Fit(e, Headers(e), Dirs(e))
  <2>1. c \in Dirs(e)
    BY <1>2
  <2>2. Fit(g, Headers(e), Dirs(e))
    BY <1>2, <1>11, <1>12, <1>18, <2>1, DirWritten
  <2> QED BY <1>13, <1>17, <2>2 DEF Well
<1>19. CASE HoldsAt(d.used, e, dir, c)
  <2>1. HoldsAt(d.used, g, dir, c)
    BY <1>2, <1>3, <1>6, <1>11, <1>12, <1>19, HeldStill
  <2>2. dir \in Headers(g) /\ c \in Headers(g)
    BY <1>2, <1>5, <1>17
  <2>3. ~SoundAt(g, Headers(g))
    BY <1>6, <2>1, <2>2, HeldApart
  <2> QED BY <1>13, <2>3 DEF Well
<1> QED BY <1>2, <1>18, <1>19

(* FileSystem::Make_Dir.                                                      *)
LEMMA MakeDirWell ==
  ASSUME FewNames, NEW d \in Disk, Healthy(d), NEW p \in Path, PlacedIn(d), ApartFrom(d, p)
  PROVE  Well(MakeDir(d, p).disk)
<1> DEFINE size == 0
           b == TRUE
           r == Enter(d, p, size, b)
           c == FindClear(d.used)
           m == MakeDir(d, p)
<1>1. m = IF r.ok THEN Ended(WriteTable(r.disk, c, DotTable(c, The(ParsePath(d, p))))) ELSE r
  BY AddDotsIs DEF MakeDir
<1>2. /\ UniqueNames(d) /\ TableShape(d) /\ p \in AnyFile /\ p \in AnyPath /\ size \in Nat /\ b \in BOOLEAN
      /\ b => size = 0 /\ p \in Path
  BY AnyFileFacts DEF Healthy, AnyFile
<1>3. size = 0 /\ b = TRUE
  OBVIOUS
<1> SUFFICES Well(m.disk)
  OBVIOUS
<1> HIDE DEF size, b, m
<1>4. CASE ~r.ok /\ r.disk = d
  <2> HIDE DEF r
  <2>1. m.disk = d
    BY <1>1, <1>4
  <2> QED BY <2>1 DEF Healthy, Well
<1>5. ASSUME NEW a, NEW dir, NEW w, Entering(d, p, size, b, r, a, dir, w) PROVE Well(m.disk)
  <2> HIDE DEF r
  <2>0. r = Enter(d, p, size, b)
    BY DEF r
  <2>1. CASE ~r.ok
    <3>1. TableShape(r.disk) /\ Fit(r.disk, Headers(r.disk), Dirs(r.disk))
      BY <1>2, <1>5, <2>0, <2>1, EnterFits
    <3> QED BY <1>1, <2>1, <3>1 DEF Well
  <2>2. CASE r.ok
    <3> DEFINE t == DotTable(c, dir)
               v == WriteTable(r.disk, c, t)
    <3>1. The(ParsePath(d, p)) = dir
      <4>1. dir \in ParsePath(d, p)
        BY <1>5 DEF Entering
      <4>2. The(ParsePath(d, p)) \in ParsePath(d, p)
        BY <4>1 DEF The
      <4> QED BY <1>2, <4>1, <4>2, PlaceIs
    <3>2. m = Ended(v)
      BY <1>1, <2>2, <3>1
    <3>3. Well(v.disk)
      <4> DEFINE g == v.disk
      <4> HIDE DEF t
      <4>1. t = DotTable(FindClear(d.used), dir) /\ g = WriteTable(r.disk, FindClear(d.used), t).disk
        BY DEF t
      <4> HIDE DEF g
      <4>2. Well(g)
        BY <1>3, <1>5, <2>0, <2>2, <4>1, DotsWell
      <4> QED BY <4>2 DEF g
    <3>4. Ended(v).disk = v.disk
      <4> HIDE DEF v
      <4> QED BY DEF Ended
    <3> HIDE DEF v
    <3> QED BY <3>2, <3>3, <3>4
  <2> QED BY <2>1, <2>2
<1>6. \/ ~r.ok /\ r.disk = d
      \/ \E a, dir, w : Entering(d, p, size, b, r, a, dir, w)
  BY <1>2, EnterSplit
<1>7. Well(m.disk)
  BY <1>4, <1>5, <1>6
<1> QED BY <1>7 DEF m

(* Remove fails, or removes a file that is no directory.                      *)
LEMMA RemoveSplit ==
  ASSUME NEW d \in Disk, NEW p \in AnyFile, NEW r, r = RemoveName(d, p), r # Failed(d)
  PROVE  \E entry \in Find(d, p), dir \in ParsePath(d, p) :
           ~entry.isDirectory /\ r = Ended(Removing(d, entry, dir))
<1> DEFINE dir == The(ParsePath(d, p))
           entry == The(Find(d, p))
<1>1. r = IF Find(d, p) = {} \/ entry.isDirectory THEN Failed(d) ELSE Ended(Removing(d, entry, dir))
  BY DEF RemoveName, Removing
<1>2. Find(d, p) # {} /\ ~entry.isDirectory /\ r = Ended(Removing(d, entry, dir))
  BY <1>1
<1>3. entry \in Find(d, p)
  BY <1>2 DEF The
<1>4. dir \in ParsePath(d, p)
  BY <1>3, AnyFileFacts, FindFacts DEF The
<1> HIDE DEF dir, entry
<1> QED BY <1>2, <1>3, <1>4

(* FileSystem::Remove.                                                        *)
LEMMA RemoveWell ==
  ASSUME FewNames, NEW d \in Disk, Healthy(d), Intact(d), NEW p \in AnyFile,
         NEW r, r = RemoveName(d, p)
  PROVE  Well(r.disk) /\ (~r.dead => Healthy(r.disk))
<1>1. UniqueNames(d) /\ TableShape(d) /\ Fit(d, Headers(d), Dirs(d))
  BY DEF Healthy
<1>2. PlacedIn(d) /\ ApartFrom(d, p) /\ FreedApart(d, p)
  BY <1>1, DirectoriesPlaced
<1>3. CASE r = Failed(d)
  <2>1. r.disk = d
    BY <1>3, FailedFacts
  <2> QED BY <2>1 DEF Healthy, Well
<1>4. CASE r # Failed(d)
  <2>1. PICK entry \in Find(d, p), dir \in ParsePath(d, p) :
          ~entry.isDirectory /\ r = Ended(Removing(d, entry, dir))
    BY <1>4, RemoveSplit
  <2> DEFINE x == entry.sector
             d1 == Deallocate(d, x)
             t == Without(Fetch(d, dir), entry)
             w == WriteTable(d1, dir, t)
             e == w.disk
             H == Headers(d)
             D == Dirs(d)
  <2>2. r.disk \in Disk /\ UniqueNames(r.disk)
    BY <1>1, AnyFileFacts, RemoveFacts, ResultParts
  <2>3. NamesRemoved(d, p, r)
    BY <1>1, <1>2, <1>4, RemoveFinds
  <2>4. FindsKept(d, r.disk, p)
    BY <2>3 DEF NamesRemoved
  <2>5. x \in H \ D /\ dir \in D /\ dir \in Sector /\ D \subseteq H /\ H \subseteq Sector
    BY <1>1, <2>1, <2>2, <2>4, HeadersLoss, PlaceIsDir, HeadersPlaced
  <2> HIDE DEF H, D, t
  <2>6. d1 \in Disk /\ Fit(d1, H \ {x}, D) /\ x \notin d1.used
    BY <1>1, <2>5, Deallocated DEF H, D
  <2>7. t \in Table /\ Len(t) \in {NumDirEntries, 2 * NumDirEntries}
    <3>1. /\ Fetch(d, dir) \in Table /\ Len(Fetch(d, dir)) <= 2 * NumDirEntries /\ OneEach(Fetch(d, dir))
          /\ Len(Fetch(d, dir)) \in {NumDirEntries, 2 * NumDirEntries}
      BY <1>1, <2>5, ShapedFetch
    <3> QED BY <3>1, WithoutFacts DEF t
  <2> HIDE DEF d1, x, w
  <2>8. Stored(d1, dir, t, w) /\ Extends(d1, e, dir) /\ DirShape(e, dir)
    <3>1. DirShape(d1, dir)
      BY <2>5, <2>6 DEF Fit, GoodAt
    <3>2. TableWrote(d1, dir, t, w)
      BY <2>5, <2>6, <2>7, <3>1, WriteTableDir DEF w
    <3> QED BY <3>2 DEF TableWrote
  <2>9. w \in Writing /\ e \in Disk
    BY <2>8 DEF Stored, Writing
  <2>10. r.disk = e /\ r.dead = w.dead
    <3>1. r = Ended(w)
      BY <2>1 DEF Removing, w, t, d1, x
    <3> QED BY <3>1, <2>9, EndedFacts
  <2>11. Fit(e, H \ {x}, D)
    BY <2>5, <2>6, <2>8, <2>9, DirWritten
  <2>12. TableShape(e)
    BY <2>3, <2>10 DEF NamesRemoved
  <2>13. CASE ~r.dead
    <3>1. Find(e, p) = {}
      BY <2>3, <2>10, <2>13 DEF NamesRemoved
    <3>2. Headers(e) = H \ {x} /\ Dirs(e) = D
      BY <1>1, <2>1, <2>2, <2>4, <2>10, <3>1, HeadersLoss DEF H, D, x
    <3>3. Healthy(e)
      BY <2>2, <2>10, <2>11, <2>12, <3>2 DEF Healthy
    <3> QED BY <2>10, <3>3 DEF Healthy, Well
  <2>14. CASE r.dead
    <3>1. Find(e, p) = Find(d, p)
      BY <2>3, <2>10, <2>14 DEF NamesRemoved
    <3>2. Headers(e) = H
      BY <1>1, <2>2, <2>4, <2>10, <3>1, HeadersSame DEF H
    <3>3. e.used \subseteq d1.used \cup OwnedAt(e, dir)
      <4>1. dir \in H \ {x}
        BY <2>5
      <4>2. Holdings(d1, dir) \subseteq d1.used
        BY <2>6, <4>1 DEF Fit, SoundAt, OwnedAt
      <4> QED BY <2>8, <4>2 DEF Extends, OwnedAt
    <3>4. ~SoundAt(e, H)
      <4> SUFFICES ASSUME SoundAt(e, H) PROVE FALSE
        OBVIOUS
      <4>1. x \in e.used /\ x # dir /\ x \in OwnedAt(e, x)
        BY <2>5 DEF SoundAt, OwnedAt
      <4>2. x \in OwnedAt(e, dir)
        BY <2>6, <3>3, <4>1
      <4> QED BY <2>5, <4>1, <4>2 DEF SoundAt
    <3> QED BY <2>10, <2>12, <2>14, <3>2, <3>4 DEF Well
  <2> QED BY <2>13, <2>14
<1> QED BY <1>3, <1>4

(* A swap file that is not there is not removed.                              *)
LEMMA RemoveNothing ==
  ASSUME NEW d, Find(d, Swap) = {}
  PROVE  RemoveName(d, Swap) = Failed(d)
BY DEF RemoveName

(* The swap file that a boot makes.                                           *)
LEMMA MakeSwapFileWell ==
  ASSUME FewNames, NEW d \in Disk, Healthy(d), PlacedIn(d), FreedApart(d, Swap),
         Intact(d) \/ Find(d, Swap) = {}
  PROVE  Well(MakeSwapFile(d).disk)
<1> DEFINE r == RemoveName(d, Swap)
           e == r.disk
<1>1. Swap \in AnyFile /\ SwapSize \in Nat /\ Swap \in AnyPath /\ UniqueNames(d)
  BY AnyFileFacts, DiskAssumption DEF Healthy
<1>2. Well(e) /\ (~r.dead => Healthy(e))
  <2>1. CASE Intact(d)
    BY <1>1, <2>1, RemoveWell
  <2>2. CASE Find(d, Swap) = {}
    <3>1. e = d
      BY <2>2, RemoveNothing, FailedFacts
    <3> HIDE DEF e
    <3> QED BY <3>1 DEF Healthy, Well
  <2> QED BY <2>1, <2>2
<1>3. e \in Disk /\ PlacedIn(e)
  BY <1>1, RemoveFacts, ResultParts, PlacedAfterRemoval
<1>4. \/ MakeSwapFile(d) = Create(d, Swap, SwapSize)
      \/ MakeSwapFile(d) = r
      \/ ~r.dead /\ MakeSwapFile(d) = Create(e, Swap, SwapSize)
  BY <1>1, MakeSwapFileIs
<1> HIDE DEF r
<1>5. CASE MakeSwapFile(d) = Create(d, Swap, SwapSize)
  BY <1>1, <1>5, SwapApart, CreateWell
<1>6. CASE MakeSwapFile(d) = r
  BY <1>2, <1>6
<1>7. CASE ~r.dead /\ MakeSwapFile(d) = Create(e, Swap, SwapSize)
  <2>1. Healthy(e)
    BY <1>2, <1>7
  <2> QED BY <1>1, <1>3, <1>7, <2>1, SwapApart, CreateWell
<1> QED BY <1>4, <1>5, <1>6, <1>7

(* A taken sector is one at most.                                             *)
LEMMA ClearDrops ==
  ASSUME NEW map, NEW c
  PROVE  Cardinality(Clear(map \cup {c})) >= Cardinality(Clear(map)) - 1
<1>1. Cardinality(Clear(map)) \in Nat
  BY ClearFinite
<1>2. CASE c \in Clear(map)
  BY <1>1, <1>2, ClearShrinks
<1>3. CASE c \notin Clear(map)
  <2>1. Clear(map \cup {c}) = Clear(map)
    BY <1>3 DEF Clear
  <2> QED BY <1>1, <2>1
<1> QED BY <1>2, <1>3

(* On an empty map every sector is free.                                      *)
LEMMA AllClear ==
  Cardinality(Clear({})) = NumSectors
<1>1. NumSectors \in Nat \ {0}
  BY DiskFacts
<1>2. Cardinality(0 .. NumSectors - 1) = IF 0 > NumSectors - 1 THEN 0 ELSE (NumSectors - 1) - 0 + 1
  BY <1>1, FS_Interval
<1>3. Clear({}) = 0 .. NumSectors - 1
  BY DEF Clear, Sector
<1> QED BY <1>1, <1>2, <1>3

(* A file of few sectors needs one block of pointers.                         *)
LEMMA WholeRooted ==
  ASSUME NEW n \in Nat \ {0}, n <= MaxBlocksNum, NEW block \in [Sector -> Seq(Sector)],
         NEW q \in Seq(Sector), Whole(n, block, q)
  PROVE  \E x, y : Rooted(block, q, x, y) /\ Len(block[y]) = n
<1> DEFINE c == q[1]
           y == block[c][1]
<1>1. Len(q) = 1 /\ c \notin Range(block[c]) /\ Len(block[c]) = 1 /\ Len(block[y]) = n
  BY DEF Whole
<1>2. c \in Sector /\ q = <<c>>
  <2>1. q[1] \in Sector
    BY <1>1
  <2> DEFINE v == q[1]
  <2>2. v \in Sector /\ q[1] = v
    BY <2>1
  <2> HIDE DEF v
  <2>3. q = <<v>>
    BY <1>1, <2>2
  <2> QED BY <2>1, <2>3 DEF v
<1> HIDE DEF c
<1>3. y \in Sector /\ block[c] = <<y>> /\ y # c
  <2> DEFINE b == block[c]
  <2>1. b \in Seq(Sector) /\ Len(b) = 1
    BY <1>1, <1>2
  <2> HIDE DEF b
  <2>2. b[1] \in Sector /\ b = <<b[1]>> /\ b[1] \in Range(b)
    <3>1. DOMAIN b = {1}
      BY <2>1
    <3>2. b[1] \in Range(b)
      BY <3>1 DEF Range
    <3>3. b[1] \in Sector
      <4>1. 1 \in 1 .. Len(b)
        BY <2>1
      <4> QED BY <2>1, <4>1, PartOfSeq
    <3> DEFINE v == b[1]
    <3>4. b = <<v>>
      <4>1. v \in Sector /\ b[1] = v
        BY <3>3
      <4> HIDE DEF v
      <4> QED BY <2>1, <4>1
    <3> QED BY <3>2, <3>3, <3>4
  <2> QED BY <1>1, <2>2 DEF b
<1> HIDE DEF y
<1>4. Rooted(block, q, c, y)
  BY <1>2, <1>3 DEF Rooted
<1> QED BY <1>1, <1>4

(* A tree of one block of pointers stays on a disk where its blocks do.        *)
LEMMA RootedStays ==
  ASSUME NEW b, NEW c, NEW m, Alike(b, c, m), NEW q, NEW x, NEW y, Rooted(b, q, x, y),
         x \in m, y \in m
  PROVE  Rooted(c, q, x, y) /\ c[y] = b[y] /\ Tree(c, q) = Tree(b, q)
<1>1. Rooted(c, q, x, y) /\ c[y] = b[y]
  BY DEF Alike, Rooted
<1> QED BY <1>1, RootedTree

(* The disk is large enough for the two.                                      *)
LEMMA FirstFilesMade ==
  ASSUME NEW none, none = [s \in Sector |-> <<>>], NEW map, NEW dir,
         map = Allocate(none, {FreeMapSector, DirectorySector}, NewHeader, FreeMapFileSize),
         dir = Allocate(map.block, map.map, NewHeader, DirectoryFileSize)
  PROVE  FirstFiles(map, dir)
<1> DEFINE two == {FreeMapSector, DirectorySector}
<1>1. NewHeader \in OpenHeader
  <2>1. NewHeader \in FileHeader /\ Len(NewHeader.sectors) = 0 /\ 0 <= NumDirect
    BY BlocksReachDisk DEF NewHeader, FileHeader
  <2> QED BY <2>1 DEF OpenHeader
<1>2. none \in [Sector -> Seq(Sector)] /\ BlocksFit(none) /\ two \in SUBSET Sector
  BY DiskFacts DEF BlocksFit
<1>3. FreeMapFileSize \in Nat /\ DirectoryFileSize \in Nat /\ Roundup(FreeMapFileSize) = 1
      /\ Roundup(DirectoryFileSize) = Room
  <2>1. SectorSize \in Nat \ {0}
    BY DiskFacts
  <2>2. Roundup(SectorSize) = 1
    <3> DEFINE S == SectorSize
    <3>1. (S + S - 1) \div S = 1
      <4> HIDE DEF S
      <4>1. S \in Nat \ {0}
        BY <2>1 DEF S
      <4>2. S + S - 1 = 1 * S + (S - 1) /\ 0 <= S - 1 /\ S - 1 < S
        BY <4>1
      <4> QED BY <4>1, <4>2, Z3
    <3> QED BY <3>1 DEF Roundup
  <2> QED BY <2>1, <2>2, RoomFacts DEF FreeMapFileSize, Room
<1> HIDE DEF two
<1>4. /\ Granted(two, map) /\ Planted(none, two, 1, map)
      /\ map.ok => map.header.bytes = FreeMapFileSize
  <2>1. map = Allocate(none, two, NewHeader, FreeMapFileSize)
    BY DEF two
  <2>2. Planted(none, two, Roundup(FreeMapFileSize), Allocate(none, two, NewHeader, FreeMapFileSize))
        /\ (Allocate(none, two, NewHeader, FreeMapFileSize).ok =>
              Allocate(none, two, NewHeader, FreeMapFileSize).header.bytes = FreeMapFileSize)
    BY <1>2, <1>3, NewFile
  <2> QED BY <1>1, <1>2, <1>3, <2>1, <2>2, AllocateFacts
<1>5. /\ map.map \in SUBSET Sector /\ two \subseteq map.map /\ map.header \in OpenHeader
      /\ map.block \in [Sector -> Seq(Sector)] /\ BlocksFit(map.block)
      /\ map.header.sectors \in Seq(Sector)
  BY <1>4 DEF Granted, OpenHeader, FileHeader
<1>6. /\ Granted(map.map, dir) /\ Planted(map.block, map.map, Room, dir)
      /\ dir.ok => dir.header.bytes = DirectoryFileSize
  <2> DEFINE a == Allocate(map.block, map.map, NewHeader, DirectoryFileSize)
  <2>1. Planted(map.block, map.map, Roundup(DirectoryFileSize), a)
        /\ (a.ok => a.header.bytes = DirectoryFileSize)
    BY <1>3, <1>5, NewFile
  <2> QED BY <1>1, <1>3, <1>5, <2>1, AllocateFacts
<1>7. /\ dir.map \in SUBSET Sector /\ map.map \subseteq dir.map /\ dir.header \in OpenHeader
      /\ dir.block \in [Sector -> Seq(Sector)] /\ BlocksFit(dir.block)
      /\ dir.header.sectors \in Seq(Sector)
  BY <1>6 DEF Granted, OpenHeader, FileHeader
<1>8. /\ Room \in Nat /\ Room > 0 /\ Room <= MaxBlocksNum /\ 1 <= MaxBlocksNum
      /\ 2 * Room + 7 <= NumSectors /\ NumSectors \in Nat
  BY RoomFacts, BlocksReachDisk, DiskFacts
<1>9. Cardinality(Clear(two)) >= NumSectors - 2 /\ Cardinality(Clear(two)) \in Nat
  <2>1. {} \cup {FreeMapSector} = {FreeMapSector} /\ two = {FreeMapSector} \cup {DirectorySector}
    BY DEF two
  <2>2. Cardinality(Clear({FreeMapSector})) >= Cardinality(Clear({})) - 1
    BY <2>1, ClearDrops
  <2>3. Cardinality(Clear(two)) >= Cardinality(Clear({FreeMapSector})) - 1
    BY <2>1, ClearDrops
  <2>4. Cardinality(Clear({FreeMapSector})) \in Nat /\ Cardinality(Clear(two)) \in Nat
    BY ClearFinite
  <2> QED BY <1>8, <2>2, <2>3, <2>4, AllClear
<1>10. ~Tight(two, 1, 2)
  BY <1>8, <1>9 DEF Tight
<1>11. /\ map.ok /\ map.map \ two = Tree(map.block, map.header.sectors)
       /\ Whole(1, map.block, map.header.sectors)
  <2>1. map.ok
    BY <1>4, <1>10 DEF Planted
  <2>2. 1 > 0 /\ ~(1 > 1)
    OBVIOUS
  <2>3. Planted(none, two, 1, map)
    BY <1>4
  <2> QED BY ONLY <2>1, <2>2, <2>3 DEF Planted
<1>12. PICK x, y : Rooted(map.block, map.header.sectors, x, y) /\ Len(map.block[y]) = 1
  <2>1. 1 \in Nat \ {0}
    OBVIOUS
  <2> QED BY <1>5, <1>8, <1>11, <2>1, WholeRooted
<1>13. PICK v \in Sector : Range(map.block[y]) = {v}
  <2> DEFINE b == map.block[y]
  <2>1. b \in Seq(Sector) /\ Len(b) = 1
    BY <1>5, <1>12 DEF Rooted
  <2> HIDE DEF b
  <2>2. DOMAIN b = {1} /\ b[1] \in Sector
    <3>1. 1 \in 1 .. Len(b)
      BY <2>1
    <3> QED BY <2>1, <3>1
  <2>3. Range(b) = {b[1]}
    BY <2>2 DEF Range
  <2> QED BY <2>2, <2>3 DEF b
<1>14. map.map = ((two \cup {x}) \cup {y}) \cup {v} /\ x \in map.map /\ y \in map.map
  <2>1. Tree(map.block, map.header.sectors) = {x, y} \cup {v}
    <3>1. Tree(map.block, map.header.sectors) = {x, y} \cup Range(map.block[y])
      BY ONLY <1>12, RootedTree
    <3> QED BY ONLY <1>13, <3>1
  <2> QED BY <1>5, <1>11, <2>1
<1>15. Cardinality(Clear(map.map)) >= NumSectors - 5 /\ Cardinality(Clear(map.map)) \in Nat
  <2> DEFINE m1 == two \cup {x}
             m2 == m1 \cup {y}
             m3 == m2 \cup {v}
  <2>1. /\ Cardinality(Clear(m1)) >= Cardinality(Clear(two)) - 1
        /\ Cardinality(Clear(m2)) >= Cardinality(Clear(m1)) - 1
        /\ Cardinality(Clear(m3)) >= Cardinality(Clear(m2)) - 1
    BY ClearDrops
  <2>2. Cardinality(Clear(m1)) \in Nat /\ Cardinality(Clear(m2)) \in Nat /\ Cardinality(Clear(m3)) \in Nat
    BY ClearFinite
  <2>3. map.map = m3
    BY <1>14
  <2> HIDE DEF m1, m2, m3
  <2> QED BY <1>8, <1>9, <2>1, <2>2, <2>3
<1>16. ~Tight(map.map, Room, 2)
  BY <1>8, <1>15 DEF Tight
<1>17. /\ dir.ok /\ dir.map \ map.map = Tree(dir.block, dir.header.sectors)
       /\ Whole(Room, dir.block, dir.header.sectors) /\ Alike(map.block, dir.block, map.map)
  BY <1>6, <1>8, <1>16 DEF Planted
<1>18. \E p, q : Rooted(dir.block, dir.header.sectors, p, q) /\ Len(dir.block[q]) = Room
  <2>1. Room \in Nat \ {0}
    BY <1>8
  <2> QED BY <1>7, <1>8, <1>17, <2>1, WholeRooted
<1>19. /\ Rooted(dir.block, map.header.sectors, x, y)
       /\ Tree(dir.block, map.header.sectors) = Tree(map.block, map.header.sectors)
  BY <1>12, <1>14, <1>17, RootedStays
<1>20. Whole(1, dir.block, map.header.sectors)
  <2> DEFINE q == map.header.sectors
  <2>1. q[1] = x /\ dir.block[x] = <<y>> /\ map.block[x] = <<y>> /\ dir.block[y] = map.block[y]
        /\ x \in Sector /\ y \in Sector
    <3>1. q = <<x>> /\ dir.block[x] = <<y>> /\ map.block[x] = <<y>> /\ x \in Sector /\ y \in Sector
      BY <1>12, <1>19 DEF Rooted
    <3>2. dir.block[y] = map.block[y]
      BY <1>14, <1>17 DEF Alike
    <3> HIDE DEF q
    <3> QED BY <3>1, <3>2
  <2> HIDE DEF q
  <2>2. Whole(1, map.block, q)
    BY <1>11 DEF q
  <2>3. Len(<<y>>) = 1 /\ <<y>>[1] = y /\ Range(<<y>>) = {y} /\ Len(dir.block[y]) = 1 /\ x # y
    BY <1>12, <2>1, OneSector DEF Rooted
  <2>4. ASSUME NEW k \in 0 .. 1 - 1 PROVE Reaches(dir.block, <<y>>, k)
    <3>1. k = 0 /\ MaxBlocksNum \in Nat \ {0}
      BY DiskFacts
    <3>2. k \div MaxBlocksNum = 0 /\ k % MaxBlocksNum = 0
      BY <3>1
    <3> DEFINE one == <<y>>
    <3>3. Len(one) = 1 /\ one[0 + 1] = y
      BY <2>3
    <3> HIDE DEF one
    <3>4. Reaches(dir.block, one, k)
      <4> DEFINE i == k \div MaxBlocksNum
                 j == k % MaxBlocksNum
      <4>1. i = 0 /\ j = 0
        BY <3>2
      <4> HIDE DEF i, j
      <4>2. one[i + 1] = y
        BY <3>3, <4>1
      <4>3. i < Len(one) /\ j < Len(dir.block[one[i + 1]])
        <5>1. Len(dir.block[one[i + 1]]) = 1
          BY <2>3, <4>2
        <5>2. 0 < 1
          OBVIOUS
        <5> QED BY ONLY <3>3, <4>1, <5>1, <5>2
      <4> QED BY <4>3 DEF Reaches, i, j
    <3> QED BY <3>4 DEF one
  <2>5. Len(q) = 1
    BY <2>2 DEF Whole
  <2>6. x \notin Range(<<y>>)
    BY <2>3
  <2> DEFINE one == <<y>>
  <2>7. /\ dir.block[x] = one /\ x \notin Range(one) /\ Len(one) = 1 /\ one[1] = y
        /\ \A k \in 0 .. 1 - 1 : Reaches(dir.block, one, k)
    BY <2>1, <2>3, <2>4, <2>6
  <2> HIDE DEF one
  <2>8. Whole(1, dir.block, q)
    BY <2>1, <2>3, <2>5, <2>7 DEF Whole
  <2> QED BY <2>8 DEF q
<1>21. \E p, q : Rooted(dir.block, map.header.sectors, p, q)
  BY <1>19
<1> QED BY <1>3, <1>4, <1>5, <1>6, <1>7, <1>11, <1>17, <1>18, <1>19, <1>20, <1>21 DEF FirstFiles, two

(* What FileSystem::FileSystem(TRUE) does.                                    *)
LEMMA FormatIs ==
  \E map, dir, d : /\ FirstFiles(map, dir) /\ Formatting(map, dir, d)
                   /\ Format = WriteTable(d, DirectorySector, NewTable).disk
<1> DEFINE none == [s \in Sector |-> <<>>]
           clean == [s \in Sector |-> NewTable]
           headers == [s \in Sector |-> NewHeader]
           empty == [used |-> {}, header |-> headers, block |-> none, table |-> clean, lost |-> {}]
           two == {FreeMapSector, DirectorySector}
           map == Allocate(none, two, NewHeader, FreeMapFileSize)
           dir == Allocate(map.block, map.map, NewHeader, DirectoryFileSize)
           d1 == [empty EXCEPT !.block = dir.block, !.used = dir.map]
           d2 == WriteHeader(d1, FreeMapSector, map.header)
           d3 == WriteHeader(d2, DirectorySector, dir.header)
<1>1. Format = WriteTable(d3, DirectorySector, NewTable).disk
  BY Zenon DEF Format, FormatMap, FormatWith
<1>2. FirstFiles(map, dir)
  <2> DEFINE first == map
             second == dir
  <2>1. none = [s \in Sector |-> <<>>]
        /\ first = Allocate(none, {FreeMapSector, DirectorySector}, NewHeader, FreeMapFileSize)
        /\ second = Allocate(first.block, first.map, NewHeader, DirectoryFileSize)
    OBVIOUS
  <2> HIDE DEF first, second, none
  <2>2. none = [s \in Sector |-> <<>>]
    BY DEF none
  <2>3. FirstFiles(first, second)
    BY <2>1, <2>2, FirstFilesMade
  <2> QED BY <2>3 DEF first, second
<1> HIDE DEF map, dir
<1>3. NewHeader \in FileHeader /\ Len(NewHeader.sectors) = 0 /\ 0 < NumDirect
  BY BlocksReachDisk DEF NewHeader, FileHeader
<1>4. none \in [Sector -> Seq(Sector)] /\ BlocksFit(none)
  BY DiskFacts DEF BlocksFit
<1>5. clean \in [Sector -> Table] /\ headers \in [Sector -> FileHeader]
      /\ \A s \in Sector : Len(headers[s].sectors) < NumDirect
  BY <1>3, NewTableFacts
<1>6. /\ FreeMapSector \in Sector /\ DirectorySector \in Sector /\ FreeMapSector # DirectorySector
  BY DiskFacts
<1>7. /\ dir.map \in SUBSET Sector /\ dir.block \in [Sector -> Seq(Sector)] /\ BlocksFit(dir.block)
      /\ map.header \in OpenHeader /\ dir.header \in OpenHeader
      /\ (\E x, y : Rooted(dir.block, map.header.sectors, x, y))
      /\ (\E x, y : Rooted(dir.block, dir.header.sectors, x, y))
  BY <1>2 DEF FirstFiles
<1>8. ASSUME NEW h \in OpenHeader, \E x, y : Rooted(dir.block, h.sectors, x, y)
      PROVE  h = [bytes |-> h.bytes, sectors |-> Kept(h)] /\ Range(Behind(h)) = {}
  <2>1. PICK x, y : Rooted(dir.block, h.sectors, x, y)
    BY <1>8
  <2>2. x \in Sector /\ h.sectors = <<x>>
    BY <2>1 DEF Rooted
  <2>3. Kept(h) = h.sectors /\ Range(Behind(h)) = {}
    BY <2>2, KeptOne
  <2>4. h = [bytes |-> h.bytes, sectors |-> h.sectors]
    BY DEF OpenHeader, FileHeader
  <2> QED BY <2>3, <2>4
<1> HIDE DEF none, clean, headers
<1>14. /\ empty \in Disk /\ empty.table = clean /\ empty.header = headers /\ empty.lost = {}
  BY <1>4, <1>5 DEF Disk, Table
<1> HIDE DEF empty
<1>9. /\ d1 \in Disk /\ d1.used = dir.map /\ d1.block = dir.block /\ d1.table = clean /\ d1.lost = {}
      /\ d1.header = headers
  <2> DEFINE block2 == dir.block
             used2 == dir.map
             r == [empty EXCEPT !.block = block2, !.used = used2]
  <2>1. block2 \in [Sector -> Seq(Sector)] /\ BlocksFit(block2) /\ used2 \in SUBSET Sector
    BY <1>7
  <2>2. d1 = r
    OBVIOUS
  <2> HIDE DEF block2, used2, d1
  <2>3. /\ r \in Disk /\ r.used = used2 /\ r.block = block2 /\ r.table = empty.table
        /\ r.lost = empty.lost /\ r.header = empty.header
    BY <1>14, <2>1 DEF Disk
  <2> QED BY <1>14, <2>2, <2>3 DEF used2, block2
<1> HIDE DEF d1
<1>10. /\ d2 \in Disk /\ d2.used = dir.map /\ d2.block = dir.block /\ d2.table = clean
       /\ d2.header = [headers EXCEPT ![FreeMapSector] = map.header] /\ d2.lost = {}
  <2> DEFINE h == map.header
             sector == FreeMapSector
             k == [bytes |-> h.bytes, sectors |-> Kept(h)]
             w == WriteHeader(d1, sector, h)
  <2>0. d1 \in Disk /\ sector \in Sector /\ h \in OpenHeader
    BY <1>6, <1>7, <1>9
  <2>4. w = d2
    OBVIOUS
  <2> HIDE DEF h, sector, d2
  <2>1. /\ w.header = [d1.header EXCEPT ![sector] = k]
        /\ w.lost = d1.lost \cup Range(Behind(h))
    BY <2>0, WriteHeaderIs
  <2>3. w \in Disk /\ w.used = d1.used /\ w.table = d1.table /\ w.block = d1.block
    BY <2>0, WriteHeaderFacts
  <2> HIDE DEF w
  <2>2. map.header = [bytes |-> map.header.bytes, sectors |-> Kept(map.header)]
        /\ Range(Behind(map.header)) = {}
    BY <1>7, <1>8
  <2> QED BY <1>9, <2>1, <2>2, <2>3, <2>4 DEF h, sector
<1> HIDE DEF d2
<1>11. /\ d3 \in Disk /\ d3.used = dir.map /\ d3.block = dir.block /\ d3.table = clean
       /\ d3.header = [d2.header EXCEPT ![DirectorySector] = dir.header] /\ d3.lost = {}
  <2> DEFINE h == dir.header
             sector == DirectorySector
             k == [bytes |-> h.bytes, sectors |-> Kept(h)]
             w == WriteHeader(d2, sector, h)
  <2>0. d2 \in Disk /\ sector \in Sector /\ h \in OpenHeader
    BY <1>6, <1>7, <1>10
  <2>4. w = d3
    OBVIOUS
  <2> HIDE DEF h, sector, d3
  <2>1. /\ w.header = [d2.header EXCEPT ![sector] = k]
        /\ w.lost = d2.lost \cup Range(Behind(h))
    BY <2>0, WriteHeaderIs
  <2>3. w \in Disk /\ w.used = d2.used /\ w.table = d2.table /\ w.block = d2.block
    BY <2>0, WriteHeaderFacts
  <2> HIDE DEF w
  <2>2. dir.header = [bytes |-> dir.header.bytes, sectors |-> Kept(dir.header)]
        /\ Range(Behind(dir.header)) = {}
    BY <1>7, <1>8
  <2> QED BY <1>10, <2>1, <2>2, <2>3, <2>4 DEF h, sector
<1> HIDE DEF d3
<1>12. d3.header[FreeMapSector] = map.header /\ d3.header[DirectorySector] = dir.header
  BY <1>5, <1>6, <1>10, <1>11
<1>13. Formatting(map, dir, d3)
  BY <1>11, <1>12 DEF Formatting, clean
<1> QED BY <1>1, <1>2, <1>13

(* The map and the root directory share no sector and have all their bytes.    *)
LEMMA FormattedFits ==
  ASSUME NEW map, NEW dir, FirstFiles(map, dir), NEW d, Formatting(map, dir, d)
  PROVE  Fit(d, {FreeMapSector, DirectorySector}, {DirectorySector}) /\ DirShape(d, DirectorySector)
<1> DEFINE two == {FreeMapSector, DirectorySector}
           f == FreeMapSector
           r == DirectorySector
<1>1. /\ d \in Disk /\ d.used = dir.map /\ d.block = dir.block /\ d.lost = {}
      /\ d.header[f] = map.header /\ d.header[r] = dir.header
  BY DEF Formatting
<1>2. /\ two \subseteq map.map /\ map.map \subseteq dir.map /\ two \in SUBSET Sector /\ f # r
      /\ map.map \ two = Tree(dir.block, map.header.sectors)
      /\ dir.map \ map.map = Tree(dir.block, dir.header.sectors)
  BY DiskFacts DEF FirstFiles
<1> HIDE DEF f, r
<1>3. /\ Holdings(d, f) = map.map \ two /\ Holdings(d, r) = dir.map \ map.map /\ two = {f, r}
  BY <1>1, <1>2 DEF Holdings, f, r
<1>4. SoundAt(d, two)
  BY <1>1, <1>2, <1>3 DEF SoundAt, OwnedAt
<1>5. CoveredBy(d, two)
  <2>1. \A x \in d.used : x \in OwnedAt(d, f) \/ x \in OwnedAt(d, r)
    BY <1>1, <1>2, <1>3 DEF OwnedAt
  <2>2. \A x \in d.used : x \in AllOwned(d, two)
    BY <1>3, <2>1, AllOwnedIs
  <2> QED BY <2>2 DEF CoveredBy
<1>6. DirShape(d, r)
  <2>1. PICK x, y : Rooted(d.block, d.header[r].sectors, x, y) /\ Len(d.block[y]) = Room
    BY <1>1 DEF FirstFiles
  <2>2. x \in d.used /\ y \in d.used
    BY <1>1, <1>2, <2>1, RootedTree
  <2>3. d.header[r].bytes = DirectoryFileSize /\ Roundup(DirectoryFileSize) = Room
    BY <1>1 DEF FirstFiles, Room
  <2>4. DirectoryFileSize > 0 /\ Room \in Nat /\ Room <= Room /\ Room <= 2 * Room /\ Room <= 4 * Room
    BY RoomFacts
  <2>5. Leafy(d.block, d.used, d.header[r], x, y)
    BY <2>1, <2>2, <2>3, <2>4 DEF Leafy
  <2> QED BY <2>5 DEF DirShape
<1>7. GoodAt(d, f, {r})
  <2>1. Whole(Roundup(FreeMapFileSize), d.block, d.header[f].sectors) /\ d.header[f].bytes = FreeMapFileSize
    BY <1>1 DEF FirstFiles
  <2>2. d.header[f] \in FileHeader /\ FreeMapFileSize \in Nat
    BY <1>1, <1>2, <1>3, DiskParts, DiskFacts DEF FreeMapFileSize
  <2>3. Backed(d, d.header[f], FreeMapFileSize)
    BY <1>1, <2>1, <2>2, WholeBacked
  <2> QED BY <1>2, <2>1, <2>3 DEF GoodAt
<1>8. GoodAt(d, r, {r})
  BY <1>6 DEF GoodAt
<1>9. Fit(d, two, {r})
  BY <1>2, <1>3, <1>4, <1>5, <1>7, <1>8 DEF Fit
<1> QED BY <1>6, <1>9 DEF r

(* A formatted disk.                                                          *)
LEMMA FormatHealthy ==
  Healthy(Format)
<1>1. PICK map, dir, d : /\ FirstFiles(map, dir) /\ Formatting(map, dir, d)
                         /\ Format = WriteTable(d, DirectorySector, NewTable).disk
  BY FormatIs
<1> DEFINE s == DirectorySector
           t == NewTable
           w == WriteTable(d, s, t)
           H == {FreeMapSector, DirectorySector}
           D == {DirectorySector}
<1>2. d \in Disk /\ s \in Sector /\ s \in D /\ t \in Table /\ Len(t) \in {NumDirEntries, 2 * NumDirEntries}
      /\ d.table = [u \in Sector |-> NewTable]
  BY <1>1, DiskFacts, NewTableFacts, NewTableShape DEF Formatting
<1>3. Fit(d, H, D) /\ DirShape(d, s)
  BY <1>1, FormattedFits
<1>4. TableShape(d)
  BY <1>2, NewTableShape DEF TableShape
<1> HIDE DEF s, t
<1>5. TableWrote(d, s, t, w)
  BY <1>2, <1>3, WriteTableDir
<1>6. Format = w.disk /\ Format \in Disk /\ UniqueNames(Format)
  BY <1>1, FormatFacts DEF s, t
<1> HIDE DEF w, H, D
<1>7. Stored(d, s, t, w) /\ Extends(d, w.disk, s) /\ DirShape(w.disk, s)
  BY <1>5 DEF TableWrote
<1>8. Fit(Format, H, D) /\ TableShape(Format)
  BY <1>2, <1>3, <1>4, <1>6, <1>7, DirWritten, StoredShape
<1>9. Headers(Format) = H /\ Dirs(Format) = D
  <2>1. \A q \in AnyFile : Find(Format, q) = {}
    BY FormattedNames
  <2>2. \A q \in Path : q \in AnyFile
    BY DEF AnyFile
  <2>3. \A x : x \in Headers(Format) <=> x \in H
    BY <1>6, <2>1, HeadersAre DEF H
  <2>4. \A x : x \in Dirs(Format) <=> x \in D
    BY <1>6, <2>1, <2>2, HeadersAre DEF D
  <2> QED BY <2>3, <2>4
<1> QED BY <1>6, <1>8, <1>9 DEF Healthy

(* The first boot makes the swap file on a formatted disk.                    *)
LEMMA InitStore ==
  ASSUME Init
  PROVE  StoreInv
<1>1. DiskInv
  BY InitDiskInv
<1>2. ASSUME FewNames PROVE Well(disk)
  <2>1. Format \in Disk /\ Healthy(Format)
    BY FormatFacts, FormatHealthy
  <2>2. PlacedIn(Format) /\ FreedApart(Format, Swap) /\ Find(Format, Swap) = {}
    BY FormattedNames, AnyFileFacts
  <2>3. Well(MakeSwapFile(Format).disk)
    BY <1>2, <2>1, <2>2, MakeSwapFileWell
  <2> QED BY <2>3 DEF Init
<1> QED BY <1>1, <1>2 DEF StoreInv

(* Every call leaves the disk well.                                            *)
LEMMA NextWell ==
  ASSUME FewNames, DiskInv, Well(disk), Next
  PROVE  Well(disk')
<1>1. disk \in Disk /\ UniqueNames(disk) /\ Intact(disk)
  BY DEF DiskInv, Next
<1>2. Healthy(disk)
  BY <1>1, IntactSound DEF Healthy, Well
<1>3. PlacedIn(disk) /\ \A p \in AnyFile : ApartFrom(disk, p) /\ FreedApart(disk, p)
  BY <1>1, DirectoriesPlaced
<1>4. ASSUME NEW p \in Path, NEW size \in Nat, disk' = Create(disk, p, size).disk
      PROVE  Well(disk')
  <2>1. p \in AnyFile
    BY DEF AnyFile
  <2>2. ApartFrom(disk, p)
    BY <1>3, <2>1
  <2>3. Well(Create(disk, p, size).disk)
    BY <1>1, <1>2, <1>3, <2>1, <2>2, CreateWell
  <2> QED BY <1>4, <2>3
<1>5. ASSUME NEW p \in Path, disk' = RemoveName(disk, p).disk
      PROVE  Well(disk')
  <2> DEFINE r == RemoveName(disk, p)
  <2>1. p \in AnyFile /\ r = RemoveName(disk, p)
    BY DEF AnyFile
  <2>2. disk' = r.disk
    BY <1>5
  <2> HIDE DEF r
  <2>3. Well(r.disk)
    BY <1>1, <1>2, <2>1, RemoveWell
  <2> QED BY <2>2, <2>3
<1>6. ASSUME NEW p \in Path, NEW size \in CopySize, Copy(p, size)
      PROVE  Well(disk')
  <2> DEFINE r == Create(disk, p, size)
  <2>1. size \in Nat /\ p \in AnyPath
    BY PathFacts, DiskAssumption
  <2>2. r \in Result
    BY <1>1, <2>1, CreateResult
  <2>3. disk' = CopyInto(r, p, size).disk
    BY <1>6 DEF Copy, Does
  <2> HIDE DEF r
  <2>4. disk' = r.disk
    BY <2>2, <2>3, CopyIntoFacts
  <2> QED BY <1>4, <2>1, <2>4 DEF r
<1>7. ASSUME NEW p \in Path, RemoveOption(p)
      PROVE  Well(disk')
  BY <1>5, <1>7 DEF RemoveOption, Does
<1>8. ASSUME NEW p \in Path, SysCreate(p)
      PROVE  Well(disk')
  BY <1>4, <1>8 DEF SysCreate, Does
<1>9. ASSUME NEW p \in Path, SysMakeDir(p)
      PROVE  Well(disk')
  <2>1. p \in AnyFile /\ disk' = MakeDir(disk, p).disk
    BY <1>9 DEF SysMakeDir, Does, AnyFile
  <2>2. ApartFrom(disk, p)
    BY <1>3, <2>1
  <2>3. Well(MakeDir(disk, p).disk)
    BY <1>1, <1>2, <1>3, <2>2, MakeDirWell
  <2> QED BY <2>1, <2>3
<1>10. ASSUME NEW p \in Path, RemoveFile(p)
       PROVE  Well(disk')
  BY <1>5, <1>10 DEF RemoveFile, Does
<1>11. CASE Run
  <2>1. disk' = disk
    BY <1>11 DEF Run
  <2> QED BY <2>1
<1>12. CASE Restart
  <2>1. disk' = MakeSwapFile(disk).disk
    BY <1>12 DEF Restart, Does
  <2>2. FreedApart(disk, Swap)
    BY <1>3, AnyFileFacts
  <2>3. Well(MakeSwapFile(disk).disk)
    BY <1>1, <1>2, <1>3, <2>2, MakeSwapFileWell
  <2> QED BY <2>1, <2>3
<1> QED BY <1>6, <1>7, <1>8, <1>9, <1>10, <1>11, <1>12 DEF Next

(* No step breaks it.                                                         *)
LEMMA NextStore ==
  ASSUME StoreInv, [Next]_vars
  PROVE  StoreInv'
<1>1. DiskInv'
  BY NextDiskInv DEF StoreInv
<1>2. ASSUME FewNames PROVE Well(disk')
  <2>1. CASE Next
    BY <1>2, <2>1, NextWell DEF StoreInv
  <2>2. CASE UNCHANGED vars
    <3>1. disk' = disk
      BY <2>2 DEF vars
    <3> QED BY <1>2, <3>1 DEF StoreInv
  <2> QED BY <2>1, <2>2
<1> QED BY <1>1, <1>2 DEF StoreInv

(* What an intact disk that is well has.                                       *)
LEMMA StoreFit ==
  ASSUME StoreInv, FewNames, Intact(disk)
  PROVE  disk \in Disk /\ UniqueNames(disk) /\ Fit(disk, Headers(disk), Dirs(disk))
<1>1. disk \in Disk /\ UniqueNames(disk) /\ Well(disk)
  BY DEF StoreInv, DiskInv
<1> QED BY <1>1, IntactSound DEF Well

(* The invariant says where every used sector is.                             *)
LEMMA StoreLeaksNothing ==
  ASSUME StoreInv
  PROVE  NothingLeaks
<1> DEFINE all == UNION {Owned(disk, file) : file \in Files(disk)}
<1>7. \A x : (\E file \in Files(disk) : x \in Owned(disk, file)) => x \in all
  OBVIOUS
<1>8. (FewNames /\ Intact(disk) => disk.used \subseteq all \cup disk.lost) => NothingLeaks
  BY DEF NothingLeaks
<1> HIDE DEF all
<1>1. SUFFICES ASSUME FewNames, Intact(disk), NEW s \in disk.used, s \notin disk.lost
               PROVE  \E file \in Files(disk) : s \in Owned(disk, file)
  BY <1>7, <1>8
<1>2. disk \in Disk /\ Fit(disk, Headers(disk), Dirs(disk))
  BY <1>1, StoreFit
<1>3. s \in AllOwned(disk, Headers(disk))
  BY <1>1, <1>2 DEF Fit, CoveredBy
<1>4. PICK u \in Headers(disk) : s \in OwnedAt(disk, u)
  BY <1>3, AllOwnedIs
<1>5. PICK file \in Files(disk) : u = HeaderSector(disk, file)
  BY DEF Headers
<1>6. Sectors(disk, disk.header[u]) = Holdings(disk, u)
  BY SectorsAreTree
<1> QED BY <1>4, <1>5, <1>6 DEF Owned, OwnedAt, Header

(* A directory, or a file whose bytes are in place, of the disk d.             *)
LEMMA DirectoryBacked ==
  ASSUME NEW d \in Disk, NEW s \in Sector, DirShape(d, s)
  PROVE  Backed(d, d.header[s], d.header[s].bytes)
<1> DEFINE h == d.header[s]
<1>1. h \in FileHeader
  BY DiskParts
<1>2. h = NewHeader \/ \E x, y : Leafy(d.block, d.used, h, x, y)
  BY DEF DirShape
<1>3. SUFFICES Backed(d, h, h.bytes)
  OBVIOUS
<1> HIDE DEF h
<1>4. CASE h = NewHeader
  <2>1. h.bytes = 0
    BY <1>4 DEF NewHeader
  <2> QED BY <2>1, EmptyBacked
<1>5. CASE \E x, y : Leafy(d.block, d.used, h, x, y)
  <2>1. PICK x, y : Leafy(d.block, d.used, h, x, y)
    BY <1>5
  <2> QED BY <1>1, <2>1, LeafyBacked
<1> QED BY <1>2, <1>4, <1>5

(* The invariant says where every byte is.                                    *)
LEMMA StoreBacks ==
  ASSUME StoreInv
  PROVE  BytesStored
<1> DEFINE s(file) == HeaderSector(disk, file)
<1>1. SUFFICES ASSUME FewNames, Intact(disk), NEW file \in Files(disk),
                      ~Backed(disk, disk.header[s(file)], disk.header[s(file)].bytes)
               PROVE  /\ file \notin Directories(disk) \cup {<<"map">>}
                      /\ \E u \in IndexBlocks(disk, disk.header[s(file)]) : disk.block[u] = <<>>
  BY DEF BytesStored, Header
<1> DEFINE a == s(file)
<1>2. /\ disk \in Disk /\ UniqueNames(disk) /\ Fit(disk, Headers(disk), Dirs(disk))
  BY <1>1, StoreFit
<1>3. a \in Headers(disk) /\ Headers(disk) \subseteq Sector /\ GoodAt(disk, a, Dirs(disk))
  BY <1>2 DEF Fit, Headers
<1>4. IndexBlocks(disk, disk.header[a]) = Blocks(disk, a)
  BY SectorsAreTree
<1>5. s(<<"map">>) = FreeMapSector /\ \A g \in Directories(disk) : s(g) \in Dirs(disk)
  BY DEF HeaderSector, Dirs
<1> HIDE DEF s
<1>6. a \notin Dirs(disk)
  BY <1>1, <1>2, <1>3, DirectoryBacked DEF GoodAt
<1>7. a # FreeMapSector /\ \E u \in Blocks(disk, a) : disk.block[u] = <<>>
  BY <1>1, <1>3, <1>6 DEF GoodAt
<1> QED BY <1>4, <1>5, <1>6, <1>7

(* The inductive invariant holds of every reachable disk.                      *)
THEOREM StoreInvariant == Spec => []StoreInv
<1> QED BY InitStore, NextStore, PTL DEF Spec

(* Where no directory has to hold more names than the code reads back, every   *)
(* used sector of an intact disk belongs to a file or was cut off a header:    *)
(* no Create, Make_Dir, Remove, copy, reboot or halt in the middle of one      *)
(* leaves a sector that nothing can free (NothingLeaks).                       *)
THEOREM NoSectorLeaks == Spec => []NothingLeaks
<1> QED BY InitStore, NextStore, StoreLeaksNothing, PTL DEF Spec

(* On an intact disk FileHeader::ByteToSector finds a sector for every byte of *)
(* a directory and of the free map, and of any other file unless one of its    *)
(* index blocks is empty, where Allocate had no sector left (BytesStored).     *)
THEOREM AllBytesStored == Spec => []BytesStored
<1> QED BY InitStore, NextStore, StoreBacks, PTL DEF Spec
=============================================================================
