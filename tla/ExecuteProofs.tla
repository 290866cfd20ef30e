--------------------------- MODULE ExecuteProofs ----------------------------
(***************************************************************************)
(* The arithmetic of words and the combinational units built on it, at     *)
(* every width: words in, words out.                                       *)
(***************************************************************************)
EXTENDS Decode, ExpectedArith, FiniteSetTheorems, WellFoundedInduction, TLAPS

-----------------------------------------------------------------------------
(* Powers of two. The provers know little of 2^n but what counting tells:   *)
(* it is the number of sets of n numbers.                                   *)

LEMMA PowerCountsSets ==
  ASSUME NEW n \in Nat
  PROVE  /\ IsFiniteSet(SUBSET (1 .. n))
         /\ Cardinality(SUBSET (1 .. n)) = 2^n
         /\ 2^n \in Nat \ {0}
<1>1. IsFiniteSet(1 .. n) /\ Cardinality(1 .. n) = n
  BY FS_Interval
<1>2. IsFiniteSet(SUBSET (1 .. n)) /\ Cardinality(SUBSET (1 .. n)) = 2^n
  BY <1>1, FS_SUBSET
<1>3. Cardinality(SUBSET (1 .. n)) \in Nat
  BY <1>2, FS_CardinalityType
<1>4. SUBSET (1 .. n) # {}
  OBVIOUS
<1>5. Cardinality(SUBSET (1 .. n)) # 0
  BY <1>2, <1>4, FS_EmptySet
<1>6. QED
  BY <1>2, <1>3, <1>5

LEMMA PowerOfZero == 2^0 = 1
<1>1. SUBSET (1 .. 0) = {{}}
  OBVIOUS
<1>2. Cardinality({{}}) = 1
  BY FS_Singleton
<1>3. QED
  BY <1>1, <1>2, PowerCountsSets

LEMMA PowerDoubles ==
  ASSUME NEW n \in Nat
  PROVE  2^(n + 1) = 2 * 2^n
<1> DEFINE A == SUBSET (1 .. n)
           m == n + 1
           B == {T \cup {m} : T \in A}
           f == [T \in A |-> T \cup {m}]
<1>1. IsFiniteSet(A) /\ Cardinality(A) = 2^n /\ 2^n \in Nat
  BY PowerCountsSets
<1>2. m \in Nat /\ m \notin 1 .. n /\ 1 .. m = (1 .. n) \cup {m}
  OBVIOUS
<1>3. SUBSET (1 .. m) = A \cup B
  <2>1. ASSUME NEW T \in SUBSET (1 .. m), m \in T PROVE T \in B
    <3>1. T \ {m} \in A /\ T = (T \ {m}) \cup {m}
      BY <1>2, <2>1
    <3>2. QED
      BY <3>1
  <2>2. ASSUME NEW T \in SUBSET (1 .. m), m \notin T PROVE T \in A
    BY <1>2, <2>2
  <2>3. \A T \in A \cup B : T \in SUBSET (1 .. m)
    BY <1>2
  <2> HIDE DEF A, B, m
  <2>4. QED
    BY <2>1, <2>2, <2>3
<1>4. A \cap B = {}
  BY <1>2
<1>5. IsFiniteSet(B) /\ Cardinality(B) = Cardinality(A)
  <2>1. f \in [A -> B]
    OBVIOUS
  <2>2. \A S, T \in A : f[S] = f[T] => S = T
    BY <1>2
  <2>3. \A U \in B : \E T \in A : f[T] = U
    OBVIOUS
  <2> HIDE DEF A, B, f
  <2>4. f \in Bijection(A, B)
    BY <2>1, <2>2, <2>3 DEF Bijection, Injection, IsInjective, Surjection
  <2>5. QED
    BY <1>1, <2>4, FS_Bijection DEF ExistsBijection
<1>6. Cardinality(A \cup B) = Cardinality(A) + Cardinality(B) - Cardinality(A \cap B)
  BY <1>1, <1>5, FS_Union
<1>7. Cardinality(A \cap B) = 0
  BY <1>4, FS_EmptySet
<1>8. Cardinality(SUBSET (1 .. m)) = 2^m
  BY <1>2, PowerCountsSets
<1>9. 2^m = 2^n + 2^n
  <2> HIDE DEF A, B, m
  <2>1. Cardinality(A \cup B) = 2^m
    BY <1>3, <1>8
  <2>2. Cardinality(A \cup B) = 2^n + 2^n - 0
    BY <1>1, <1>5, <1>6, <1>7
  <2>3. QED
    BY <1>1, <2>1, <2>2
<1>10. QED
  BY <1>1, <1>9 DEF m

\* The provers have no induction: what holds of 0 and of n + 1 with n has no
\* least exception, and every set of numbers that is not empty has a least one.
LEMMA LeastNumber ==
  ASSUME NEW T, T \subseteq Nat, T # {}
  PROVE  \E x \in T : \A y \in T : x <= y
<1>1. PICK x \in T : \A y \in T : ~(<<y, x>> \in OpToRel(<, Nat))
  BY NatLessThanWellFounded, WFMin
<1>2. ASSUME NEW y \in T PROVE x <= y
  <2>1. <<y, x>> \in Nat \X Nat
    OBVIOUS
  <2>2. ~(y < x)
    BY <1>1, <2>1 DEF OpToRel
  <2>3. QED
    BY <2>2
<1>3. QED
  BY <1>2

LEMMA Induction ==
  ASSUME NEW S, 0 \in S, \A n \in Nat : n \in S => n + 1 \in S
  PROVE  Nat \subseteq S
<1> SUFFICES ASSUME Nat \ S # {} PROVE FALSE
  OBVIOUS
<1>1. PICK x \in Nat \ S : \A y \in Nat \ S : x <= y
  BY LeastNumber
<1>2. x # 0 /\ x - 1 \in Nat
  BY <1>1
<1>3. x - 1 \in S
  BY <1>1, <1>2
<1>4. x - 1 + 1 = x
  OBVIOUS
<1>5. QED
  BY <1>1, <1>2, <1>3, <1>4

LEMMA PowerExceeds == ASSUME NEW n \in Nat PROVE 2^n >= n + 1
<1> DEFINE S == {k \in Nat : 2^k >= k + 1}
<1>1. 0 \in S
  BY PowerOfZero
<1>2. ASSUME NEW k \in Nat, k \in S PROVE k + 1 \in S
  <2>1. 2^(k + 1) = 2 * 2^k /\ 2^k \in Nat /\ 2^k >= k + 1
    BY <1>2, PowerDoubles, PowerCountsSets
  <2>2. 2 * 2^k >= (k + 1) + 1
    BY <2>1
  <2>3. QED
    BY <2>1, <2>2
<1> HIDE DEF S
<1>3. Nat \subseteq S
  BY <1>1, <1>2, Induction
<1>4. QED
  BY <1>3 DEF S

\* A smaller power of two divides a larger one.
LEMMA PowerDivides ==
  ASSUME NEW k \in Nat, NEW i \in 0 .. k
  PROVE  \E m \in Nat \ {0} : 2^k = 2^i * m
<1> DEFINE Divides(j, n) == \E m \in Nat \ {0} : 2^n = 2^j * m
           S == {n \in Nat : \A j \in 0 .. n : Divides(j, n)}
<1>1. ASSUME NEW n \in Nat PROVE Divides(n, n)
  <2>1. 2^n = 2^n * 1
    BY PowerCountsSets
  <2>2. QED
    BY <2>1
<1>2. 0 \in S
  <2>1. Divides(0, 0)
    BY <1>1
  <2> HIDE DEF Divides
  <2>2. QED
    BY <2>1
<1>3. ASSUME NEW n \in Nat, n \in S PROVE n + 1 \in S
  <2> SUFFICES ASSUME NEW j \in 0 .. n + 1 PROVE Divides(j, n + 1)
    OBVIOUS
  <2>1. CASE j = n + 1
    BY <1>1, <2>1
  <2>2. CASE j \in 0 .. n
    <3>1. PICK m \in Nat \ {0} : 2^n = 2^j * m
      BY <1>3, <2>2
    <3>2. 2^(n + 1) = 2 * (2^j * m)
      BY <3>1, PowerDoubles
    <3>3. 2^j \in Nat
      <4>1. j \in Nat
        BY <2>2
      <4>2. QED
        BY <4>1, PowerCountsSets
    <3>4. 2 * (2^j * m) = 2^j * (2 * m) /\ 2 * m \in Nat \ {0}
      BY <3>3
    <3>5. QED
      BY <3>2, <3>4
  <2>3. QED
    BY <2>1, <2>2
<1> HIDE DEF S
<1>4. Nat \subseteq S
  BY <1>2, <1>3, Induction
<1>5. QED
  BY <1>4 DEF S

\* The powers that the instruction formats and the lanes are built with.
LEMMA PowerValues ==
  /\ 2^2 = 4 /\ 2^3 = 8 /\ 2^6 = 64 /\ 2^7 = 128 /\ 2^8 = 256
  /\ 2^11 = 2048 /\ 2^12 = 4096 /\ 2^13 = 8192 /\ 2^15 = 32768
  /\ 2^20 = 1048576 /\ 2^21 = 2097152 /\ 2^25 = 33554432
<1> DEFINE P(n) == 2^n
<1>1. \A n \in Nat : P(n + 1) = 2 * P(n)
  BY PowerDoubles
<1>2. P(0) = 1
  BY PowerOfZero
<1> HIDE DEF P
<1>3. P(1) = 2 /\ P(2) = 4 /\ P(3) = 8 /\ P(4) = 16
  <2>1. P(0 + 1) = 2 * P(0) /\ P(1 + 1) = 2 * P(1) /\ P(2 + 1) = 2 * P(2) /\ P(3 + 1) = 2 * P(3)
    BY <1>1, SMT
  <2>2. QED
    BY <1>2, <2>1, SMT
<1>4. P(5) = 32 /\ P(6) = 64 /\ P(7) = 128 /\ P(8) = 256
  <2>1. /\ P(4 + 1) = 2 * P(4)
        /\ P(5 + 1) = 2 * P(5)
        /\ P(6 + 1) = 2 * P(6)
        /\ P(7 + 1) = 2 * P(7)
    BY <1>1, SMT
  <2>2. QED
    BY <1>3, <2>1, SMT
<1>5. P(9) = 512 /\ P(10) = 1024 /\ P(11) = 2048 /\ P(12) = 4096
  <2>1. /\ P(8 + 1) = 2 * P(8)
        /\ P(9 + 1) = 2 * P(9)
        /\ P(10 + 1) = 2 * P(10)
        /\ P(11 + 1) = 2 * P(11)
    BY <1>1, SMT
  <2>2. QED
    BY <1>4, <2>1, SMT
<1>6. P(13) = 8192 /\ P(14) = 16384 /\ P(15) = 32768 /\ P(16) = 65536
  <2>1. /\ P(12 + 1) = 2 * P(12)
        /\ P(13 + 1) = 2 * P(13)
        /\ P(14 + 1) = 2 * P(14)
        /\ P(15 + 1) = 2 * P(15)
    BY <1>1, SMT
  <2>2. QED
    BY <1>5, <2>1, SMT
<1>7. P(17) = 131072 /\ P(18) = 262144 /\ P(19) = 524288 /\ P(20) = 1048576
  <2>1. /\ P(16 + 1) = 2 * P(16)
        /\ P(17 + 1) = 2 * P(17)
        /\ P(18 + 1) = 2 * P(18)
        /\ P(19 + 1) = 2 * P(19)
    BY <1>1, SMT
  <2>2. QED
    BY <1>6, <2>1, SMT
<1>8. P(21) = 2097152 /\ P(22) = 4194304 /\ P(23) = 8388608 /\ P(24) = 16777216 /\ P(25) = 33554432
  <2>1. /\ P(20 + 1) = 2 * P(20)
        /\ P(21 + 1) = 2 * P(21)
        /\ P(22 + 1) = 2 * P(22)
        /\ P(23 + 1) = 2 * P(23)
        /\ P(24 + 1) = 2 * P(24)
    BY <1>1, SMT
  <2>2. QED
    BY <1>7, <2>1, SMT
<1>9. QED
  BY <1>3, <1>4, <1>5, <1>6, <1>7, <1>8, SMT DEF P

\* The width of a register address is a number, the least whose power reaches
\* the width of a word: some power does.
LEMMA AddressWidth ==
  /\ DATA_WIDTH_BITS \in Nat
  /\ \A j \in 0 .. DATA_WIDTH : 2^j >= DATA_WIDTH => DATA_WIDTH_BITS <= j
<1> DEFINE n == DATA_WIDTH
           T == {k \in 0 .. n : 2^k >= n}
<1>1. n \in Nat /\ n \in T
  BY DataWidthAssumption, PowerExceeds, PowerCountsSets
<1>2. PICK k \in T : \A j \in T : k <= j
  <2>1. T \subseteq Nat /\ T # {}
    BY <1>1
  <2> HIDE DEF T
  <2>2. QED
    BY <2>1, LeastNumber
<1>3. clog2(n) \in 0 .. n /\ \A j \in 0 .. n : 2^j >= n => clog2(n) <= j
  BY <1>1, <1>2 DEF clog2
<1>4. QED
  BY <1>3 DEF DATA_WIDTH_BITS

\* The sizes that the width gives rise to.
LEMMA PowersArePositive ==
  /\ HalfRange \in Nat \ {0}
  /\ NUM_REGISTERS \in Nat \ {0}
  /\ \A n \in 0 .. NUM_REGISTERS - 1 : 2^n \in Nat \ {0}
<1>1. DATA_WIDTH - 1 \in Nat
  BY DataWidthAssumption
<1>2. HalfRange \in Nat \ {0}
  BY <1>1, PowerCountsSets DEF HalfRange
<1>3. NUM_REGISTERS \in Nat \ {0}
  BY AddressWidth, PowerCountsSets DEF NUM_REGISTERS
<1>4. \A n \in 0 .. NUM_REGISTERS - 1 : n \in Nat
  BY <1>3
<1>5. QED
  BY <1>2, <1>3, <1>4, PowerCountsSets

-----------------------------------------------------------------------------

LEMMA DataSizePositive == DataSize \in Nat \ {0}
BY PowersArePositive DEF DataSize

LEMMA ZeroIsData == 0 \in Data
BY DataSizePositive DEF Data

LEMMA ToDataInData == ASSUME NEW n \in Int PROVE ToData(n) \in Data
BY DataSizePositive DEF ToData, Data

LEMMA DataIsNat == Data \subseteq Nat
BY DataSizePositive DEF Data

LEMMA SignedIsInt == ASSUME NEW x \in Data PROVE Signed(x) \in Int
BY DataSizePositive, PowersArePositive DEF Signed, Data

\* A word is an even number of halves, so truncation keeps parity.
LEMMA ToDataKeepsEven ==
  ASSUME NEW n \in Int, n % 2 = 0 PROVE ToData(n) % 2 = 0
<1> DEFINE q == n \div DataSize
<1>1. q \in Int /\ HalfRange \in Int /\ HalfRange * q \in Int
  BY DataSizePositive, PowersArePositive
<1>2. n = DataSize * q + ToData(n) /\ ToData(n) \in Int
  BY DataSizePositive DEF ToData
<1>3. DataSize * q = 2 * (HalfRange * q)
  BY <1>1 DEF DataSize
<1>4. QED
  BY <1>1, <1>2, <1>3

LEMMA ZeroIsRegAddr == REG_ZERO \in RegAddr
BY PowersArePositive DEF RegAddr, REG_ZERO

LEMMA RegAddrIsNat == RegAddr \subseteq Nat
BY PowersArePositive DEF RegAddr

LEMMA ZeroInstrTyped == ZeroInstr \in Instr
BY ZeroIsRegAddr DEF ZeroInstr, Instr, Opcodes, REG_ZERO

\* Quotient and remainder are the only ones there are.
LEMMA DivModUnique ==
  ASSUME NEW d \in Nat \ {0}, NEW q \in Int, NEW r \in 0 .. d - 1
  PROVE  (d * q + r) % d = r /\ (d * q + r) \div d = q
<1> DEFINE n == d * q + r
           p == n \div d
           s == n % d
<1>1. n \in Int /\ d * q \in Int
  OBVIOUS
<1>2. p \in Int /\ s \in 0 .. d - 1 /\ n = d * p + s
  BY <1>1
<1> HIDE DEF p, s
<1>3. d * (p - q) = r - s /\ p - q \in Int
  BY <1>2
<1>4. p - q = 0
  <2>1. CASE p - q >= 1
    <3>1. d * (p - q) >= d
      BY <1>3, <2>1
    <3>2. QED
      BY <1>2, <1>3, <3>1
  <2>2. CASE p - q <= -1
    <3>1. d * (p - q) <= -d
      BY <1>3, <2>2
    <3>2. QED
      BY <1>2, <1>3, <3>1
  <2>3. QED
    BY <1>3, <2>1, <2>2
<1>5. p = q /\ s = r
  BY <1>2, <1>3, <1>4
<1>6. QED
  BY <1>5 DEF p, s

\* A sum or difference of two words is cut by one turn at most.
LEMMA ToDataOneTurn ==
  ASSUME NEW n \in -DataSize .. 2 * DataSize - 1
  PROVE  ToData(n) = IF n < 0 THEN n + DataSize
                     ELSE IF n < DataSize THEN n ELSE n - DataSize
<1>1. n \in Int /\ DataSize \in Nat \ {0}
  BY DataSizePositive
<1>2. CASE n < 0
  <2>1. n + DataSize \in 0 .. DataSize - 1 /\ n = DataSize * (-1) + (n + DataSize)
    BY <1>1, <1>2
  <2>2. n % DataSize = n + DataSize
    BY <1>1, <2>1, DivModUnique
  <2>3. QED
    BY <1>2, <2>2 DEF ToData
<1>3. CASE n \in 0 .. DataSize - 1
  <2>1. n = DataSize * 0 + n
    BY <1>1
  <2>2. n % DataSize = n
    BY <1>1, <1>3, <2>1, DivModUnique
  <2>3. QED
    BY <1>1, <1>3, <2>2 DEF ToData
<1>4. CASE n >= DataSize
  <2>1. n - DataSize \in 0 .. DataSize - 1 /\ n = DataSize * 1 + (n - DataSize)
    BY <1>1, <1>4
  <2>2. n % DataSize = n - DataSize
    BY <1>1, <2>1, DivModUnique
  <2>3. QED
    BY <1>1, <1>4, <2>2 DEF ToData
<1>5. QED
  BY <1>1, <1>2, <1>3, <1>4

-----------------------------------------------------------------------------
(* Execute.                                                                 *)

\* There are fewer numbers to count than words.
LEMMA WordOfIsWord == ASSUME NEW bits PROVE WordOf(bits) \in Data
<1> DEFINE counted == {n \in 1 .. DataSize - 1 : \E i \in bits : LeadingBit(n, i)}
<1>1. /\ IsFiniteSet(1 .. DataSize - 1)
      /\ Cardinality(1 .. DataSize - 1) = DataSize - 1
  <2>1. 1 \in Int /\ DataSize - 1 \in Int /\ DataSize - 1 >= 0
    BY DataSizePositive
  <2>2. QED
    BY <2>1, FS_Interval
<1>2. /\ IsFiniteSet(counted)
      /\ Cardinality(counted) <= Cardinality(1 .. DataSize - 1)
  BY <1>1, FS_Subset
<1>3. Cardinality(counted) \in Nat
  BY <1>2, FS_CardinalityType
<1>4. QED
  BY <1>1, <1>2, <1>3, DataSizePositive DEF WordOf, Data

LEMMA ShiftsGiveWords ==
  ASSUME NEW a \in Data, NEW b \in Data
  PROVE  /\ ShiftLeft(a, Shamt(b)) \in Data
         /\ ShiftRightLogic(a, Shamt(b)) \in Data
         /\ ShiftRightArith(a, Shamt(b)) \in Data
<1> DEFINE w == 2^Shamt(b)
<1>1. w \in Nat \ {0}
  <2>1. Shamt(b) \in 0 .. NUM_REGISTERS - 1
    BY DataIsNat, PowersArePositive DEF Shamt
  <2>2. QED
    BY <2>1, PowersArePositive
<1>2. a \in Nat /\ a < DataSize /\ Signed(a) \in Int
  BY DataSizePositive, SignedIsInt DEF Data
<1>3. a * w \in Int
  BY <1>1, <1>2
<1>4. a \div w \in Nat /\ a \div w <= a
  BY <1>1, <1>2
<1>5. Signed(a) \div w \in Int
  BY <1>1, <1>2
<1>6. QED
  BY <1>2, <1>3, <1>4, <1>5, ToDataInData, DataSizePositive
     DEF ShiftLeft, ShiftRightLogic, ShiftRightArith, Data

\* The ALU's result is a word, whatever it is asked for (alu.sv 50-92).
LEMMA AluGivesWords ==
  ASSUME NEW ctrl \in AluCtrl, NEW a \in Data, NEW b \in Data
  PROVE  alu_result(ctrl, a, b) \in Data
<1>1. a \in Int /\ b \in Int /\ a + b \in Int /\ a - b \in Int
  BY DataIsNat
<1>2. ToData(a + b) \in Data /\ ToData(a - b) \in Data
  BY <1>1, ToDataInData
<1>3. AllOnes \in Data /\ 0 \in Data
  BY DataSizePositive DEF AllOnes, Data
<1>4. /\ AndWord(a, b) \in Data
      /\ OrWord(a, b) \in Data
      /\ XorWord(a, b) \in Data
  BY WordOfIsWord DEF AndWord, OrWord, XorWord
<1>5. QED
  BY <1>2, <1>3, <1>4, ShiftsGiveWords DEF alu_result, AluCtrl

\* Every target is an even word, whatever the base and the offset are
\* (agu.sv 31-36).
LEMMA TargetIsEvenWord ==
  ASSUME NEW pc \in Data, NEW imm \in Data, NEW op_a \in Data, NEW sel \in BOOLEAN
  PROVE  /\ agu_target(pc, imm, op_a, sel) \in Data
         /\ agu_target(pc, imm, op_a, sel) % 2 = 0
<1> DEFINE sum == ToData((IF sel THEN op_a ELSE pc) + imm)
<1>1. (IF sel THEN op_a ELSE pc) + imm \in Int
  BY DataIsNat
<1>2. sum \in Data
  BY <1>1, ToDataInData
<1>3. agu_target(pc, imm, op_a, sel) = sum - (sum % 2)
  BY DEF agu_target
<1>4. sum - (sum % 2) \in Data /\ (sum - (sum % 2)) % 2 = 0
  <2> HIDE DEF sum
  <2> QED
    BY <1>2, DataSizePositive DEF Data
<1>5. QED
  BY <1>3, <1>4

-----------------------------------------------------------------------------
(* The word of a set of bits, built bit by bit: with the k-th bit come the  *)
(* 2^k numbers that have it as their leading bit, which are those from 2^k  *)
(* to one less than its double.                                             *)

LEMMA WordsOfWidth == DataSize = 2^DATA_WIDTH
<1>1. DATA_WIDTH - 1 \in Nat /\ DATA_WIDTH - 1 + 1 = DATA_WIDTH
  BY DataWidthAssumption
<1>2. QED
  BY <1>1, PowerDoubles DEF DataSize, HalfRange

LEMMA AddedBit ==
  ASSUME NEW k \in Nat, NEW c \in 0 .. 2^k - 1
  PROVE  /\ Bit(c, k) = 0 /\ Bit(c + 2^k, k) = 1
         /\ \A i \in 0 .. k - 1 : Bit(c + 2^k, i) = Bit(c, i)
<1>1. 2^k \in Nat \ {0}
  BY PowerCountsSets
<1>2. Bit(c, k) = 0
  <2>1. (2^k * 0 + c) \div 2^k = 0
    BY <1>1, DivModUnique
  <2>2. 2^k * 0 + c = c
    BY <1>1
  <2>3. QED
    BY <2>1, <2>2 DEF Bit
<1>3. Bit(c + 2^k, k) = 1
  <2>1. (2^k * 1 + c) \div 2^k = 1
    BY <1>1, DivModUnique
  <2>2. 2^k * 1 + c = c + 2^k
    BY <1>1
  <2>3. QED
    BY <2>1, <2>2 DEF Bit
<1>4. ASSUME NEW i \in 0 .. k - 1 PROVE Bit(c + 2^k, i) = Bit(c, i)
  <2> DEFINE w == 2^i
             q == c \div w
             r == c % w
  <2>1. i \in Nat /\ i + 1 \in 0 .. k
    OBVIOUS
  <2>2. w \in Nat \ {0} /\ 2^(i + 1) = 2 * w
    BY <2>1, PowerCountsSets, PowerDoubles
  <2>3. PICK m \in Nat \ {0} : 2^k = 2 * w * m
    BY <2>1, <2>2, PowerDivides
  <2> HIDE DEF w
  <2>4. q \in Int /\ r \in 0 .. w - 1 /\ c = w * q + r
    BY <1>1, <2>2
  <2> HIDE DEF q, r
  <2>5. c + 2^k = w * (q + 2 * m) + r
    <3>1. w * (q + 2 * m) = w * q + 2 * w * m
      BY <2>2, <2>3, <2>4
    <3>2. QED
      BY <1>1, <2>2, <2>3, <2>4, <3>1
  <2>6. (c + 2^k) \div w = q + 2 * m
    BY <2>2, <2>3, <2>4, <2>5, DivModUnique
  <2>7. (q + 2 * m) % 2 = q % 2
    BY <2>3, <2>4
  <2>8. QED
    BY <2>6, <2>7 DEF Bit, w, q
<1>5. QED
  BY <1>2, <1>3, <1>4

\* The numbers counted for the bits below k.
CountedBelow(bits, k) ==
  {n \in 1 .. DataSize - 1 : \E i \in bits : i < k /\ LeadingBit(n, i)}

\* The count of a set of numbers spells the bits below k.
Spells(counted, bits, k) ==
  /\ IsFiniteSet(counted) /\ counted \subseteq 1 .. 2^k - 1
  /\ Cardinality(counted) \in 0 .. 2^k - 1
  /\ \A i \in 0 .. k - 1 : Bit(Cardinality(counted), i) = 1 <=> i \in bits

\* Counting for one more bit adds the numbers it leads, if the bit is set.
LEMMA NextCounted ==
  ASSUME NEW bits \in SUBSET BitIndices, NEW k \in BitIndices
  PROVE  CountedBelow(bits, k + 1)
           = CountedBelow(bits, k)
               \cup {n \in 1 .. DataSize - 1 : k \in bits /\ LeadingBit(n, k)}
<1>1. \A i \in bits : i < k + 1 <=> i < k \/ i = k
  BY DataWidthAssumption DEF BitIndices
<1> SUFFICES ASSUME NEW n \in 1 .. DataSize - 1
             PROVE  (\E i \in bits : i < k + 1 /\ LeadingBit(n, i))
                      <=> \/ \E i \in bits : i < k /\ LeadingBit(n, i)
                          \/ k \in bits /\ LeadingBit(n, k)
  BY Zenon DEF CountedBelow
<1>2. k < k + 1
  BY DataWidthAssumption DEF BitIndices
<1>3. QED
  BY <1>1, <1>2, Zenon

\* The numbers a bit leads are as many as the bit is worth.
LEMMA LedByBit ==
  ASSUME NEW k \in BitIndices
  PROVE  LET led == {n \in 1 .. DataSize - 1 : LeadingBit(n, k)}
         IN  /\ IsFiniteSet(led) /\ Cardinality(led) = 2^k
             /\ led \subseteq 2^k .. 2^(k + 1) - 1
<1> DEFINE w == 2^k
<1>1. k \in Nat /\ k + 1 \in 0 .. DATA_WIDTH /\ DATA_WIDTH \in Nat
  BY DataWidthAssumption DEF BitIndices
<1>2. w \in Nat \ {0} /\ 2^(k + 1) = 2 * w
  BY <1>1, PowerCountsSets, PowerDoubles
<1>3. 2 * w <= DataSize /\ DataSize \in Nat
  <2>1. PICK m \in Nat \ {0} : DataSize = 2^(k + 1) * m
    BY <1>1, PowerDivides, WordsOfWidth
  <2> HIDE DEF w
  <2>2. 2 * w * m >= 2 * w /\ 2 * w * m \in Nat
    BY <1>2, <2>1
  <2>3. DataSize = 2 * w * m
    BY <1>2, <2>1
  <2>4. QED
    BY <1>2, <2>2, <2>3
<1>4. \A n \in Int : LeadingBit(n, k) <=> w <= n /\ n < 2 * w
  BY <1>2 DEF LeadingBit
<1> HIDE DEF w
<1>5. {n \in 1 .. DataSize - 1 : LeadingBit(n, k)} = w .. 2 * w - 1
  BY <1>2, <1>3, <1>4
<1>6. IsFiniteSet(w .. 2 * w - 1) /\ Cardinality(w .. 2 * w - 1) = w
  <2>1. w \in Int /\ 2 * w - 1 \in Int /\ ~(w > 2 * w - 1) /\ 2 * w - 1 - w + 1 = w
    BY <1>2
  <2>2. QED
    BY <2>1, FS_Interval
<1>7. QED
  BY <1>2, <1>5, <1>6 DEF w

LEMMA NextBit ==
  ASSUME NEW bits \in SUBSET BitIndices, NEW k \in BitIndices, Spells(CountedBelow(bits, k), bits, k)
  PROVE  Spells(CountedBelow(bits, k + 1), bits, k + 1)
<1> DEFINE S == CountedBelow(bits, k)
           N == CountedBelow(bits, k + 1)
           led == {n \in 1 .. DataSize - 1 : LeadingBit(n, k)}
           c == Cardinality(S)
           w == 2^k
<1>1. k \in Nat
  BY DataWidthAssumption DEF BitIndices
<1>2. w \in Nat \ {0} /\ 2^(k + 1) = 2 * w
  BY <1>1, PowerCountsSets, PowerDoubles
<1>3. /\ IsFiniteSet(S) /\ S \subseteq 1 .. w - 1 /\ c \in 0 .. w - 1
      /\ \A i \in 0 .. k - 1 : Bit(c, i) = 1 <=> i \in bits
  BY DEF Spells
<1>4. IsFiniteSet(led) /\ Cardinality(led) = w /\ led \subseteq w .. 2 * w - 1
  BY <1>2, LedByBit
<1>5. N = IF k \in bits THEN S \cup led ELSE S
  BY NextCounted
<1>6. /\ Bit(c, k) = 0 /\ Bit(c + w, k) = 1
      /\ \A i \in 0 .. k - 1 : Bit(c + w, i) = Bit(c, i)
  BY <1>1, <1>3, AddedBit
<1>7. ASSUME IsFiniteSet(N), N \subseteq 1 .. 2 * w - 1, Cardinality(N) \in 0 .. 2 * w - 1,
             \A i \in 0 .. (k + 1) - 1 : Bit(Cardinality(N), i) = 1 <=> i \in bits
      PROVE  Spells(CountedBelow(bits, k + 1), bits, k + 1)
  <2>1. N \subseteq 1 .. 2^(k + 1) - 1 /\ Cardinality(N) \in 0 .. 2^(k + 1) - 1
    BY <1>2, <1>7
  <2>2. QED
    BY <1>7, <2>1 DEF Spells
<1>8. \A i \in 0 .. (k + 1) - 1 : i = k \/ i \in 0 .. k - 1
  BY <1>1
<1> HIDE DEF N, led, w
<1>9. CASE k \in bits
  <2>1. Cardinality(S \cap led) = 0
    <3>1. S \cap led = {}
      BY <1>2, <1>3, <1>4
    <3>2. QED
      BY <3>1, FS_EmptySet
  <2>2. N = S \cup led
    BY <1>5, <1>9
  <2> HIDE DEF S
  <2>3. /\ IsFiniteSet(N)
        /\ Cardinality(N) = Cardinality(S) + Cardinality(led) - Cardinality(S \cap led)
    BY <1>3, <1>4, <2>2, FS_Union
  <2>4. Cardinality(N) = c + w
    BY <1>2, <1>3, <1>4, <2>1, <2>3
  <2>5. N \subseteq 1 .. 2 * w - 1
    BY <1>2, <1>3, <1>4, <2>2
  <2> HIDE DEF c
  <2>6. c + w \in 0 .. 2 * w - 1
    BY <1>2, <1>3
  <2>7. \A i \in 0 .. (k + 1) - 1 : Bit(c + w, i) = 1 <=> i \in bits
    BY <1>3, <1>6, <1>8, <1>9
  <2>8. QED
    BY <1>7, <2>3, <2>4, <2>5, <2>6, <2>7
<1>10. CASE k \notin bits
  <2>1. N = S /\ Cardinality(N) = c
    BY <1>5, <1>10
  <2> HIDE DEF S
  <2>2. N \subseteq 1 .. 2 * w - 1
    BY <1>2, <1>3, <2>1
  <2> HIDE DEF c
  <2>3. c \in 0 .. 2 * w - 1
    BY <1>2, <1>3
  <2>4. \A i \in 0 .. (k + 1) - 1 : Bit(c, i) = 1 <=> i \in bits
    <3>1. Bit(c, k) # 1
      BY <1>6
    <3>2. QED
      BY <1>3, <1>8, <1>10, <3>1
  <2>5. QED
    BY <1>3, <1>7, <2>1, <2>2, <2>3, <2>4
<1>11. QED
  BY <1>9, <1>10

\* A word's bits are those it was built from.
LEMMA WordOfBits ==
  ASSUME NEW bits \in SUBSET BitIndices, NEW i \in BitIndices
  PROVE  Bit(WordOf(bits), i) = 1 <=> i \in bits
<1> DEFINE S == {k \in Nat : k <= DATA_WIDTH => Spells(CountedBelow(bits, k), bits, k)}
<1>1. DATA_WIDTH \in Nat
  BY DataWidthAssumption
<1>2. 0 \in S
  <2>1. CountedBelow(bits, 0) = {}
    BY DEF CountedBelow, BitIndices
  <2>2. QED
    BY <2>1, PowerOfZero, FS_EmptySet DEF Spells
<1>3. ASSUME NEW k \in Nat, k \in S PROVE k + 1 \in S
  <2>1. CASE k + 1 <= DATA_WIDTH
    <3>1. k \in BitIndices
      BY <1>1, <2>1 DEF BitIndices
    <3>2. Spells(CountedBelow(bits, k), bits, k)
      BY <1>1, <1>3, <2>1
    <3>3. QED
      BY <3>1, <3>2, NextBit
  <2>2. CASE ~(k + 1 <= DATA_WIDTH)
    BY <2>2
  <2>3. QED
    BY <2>1, <2>2
<1> HIDE DEF S
<1>4. DATA_WIDTH \in S
  BY <1>1, <1>2, <1>3, Induction
<1>5. Spells(CountedBelow(bits, DATA_WIDTH), bits, DATA_WIDTH)
  BY <1>1, <1>4 DEF S
<1>6. CountedBelow(bits, DATA_WIDTH)
        = {n \in 1 .. DataSize - 1 : \E j \in bits : LeadingBit(n, j)}
  <2>1. \A j \in bits : j < DATA_WIDTH
    BY <1>1 DEF BitIndices
  <2>2. QED
    BY <2>1 DEF CountedBelow
<1>7. QED
  BY <1>5, <1>6 DEF Spells, WordOf, BitIndices

-----------------------------------------------------------------------------
(* Decode: what leaves the stage for an instruction and a register file.    *)

LEMMA AluCtrlTyped == ASSUME NEW instr \in Instr PROVE alu_ctrl(instr) \in AluCtrl
<1>1. FunctAlu(instr) \in AluCtrl
  BY DEF FunctAlu, AluCtrl, Instr, F3_ADD_SUB, F3_SLL, F3_SLT, F3_SLTU, F3_XOR,
         F3_SRL_SRA, F3_OR, F3_AND
<1>2. QED
  BY <1>1 DEF alu_ctrl, AluCtrl, Instr, AluOpcodes

\* The control unit's choice of operation, computed by the ALU, against the
\* scoreboard's arithmetic (cu.sv 48-81, alu.sv 55-86, core_scoreboard.sv 67-113).
LEMMA ArithmeticInstructions ==
  ASSUME NEW instr, instr.opcode \in AluOpcodes, instr.funct3 \in 0 .. 7, NEW a, NEW b
  PROVE  LET result   == alu_result(alu_ctrl(instr), a, b)
             expected == expected_arith(instr, a, b)
         IN  IF instr.funct3 \in {F3_SLT, F3_SLTU}
             THEN (result = 0) <=> (expected = 0)
             ELSE result = expected
<1>1. AllOnes # 0
  BY PowersArePositive DEF AllOnes, DataSize
<1>2. alu_ctrl(instr) = FunctAlu(instr)
  BY DEF alu_ctrl, AluOpcodes
<1> USE DEF F3_ADD_SUB, F3_SLL, F3_SLT, F3_SLTU, F3_XOR, F3_SRL_SRA, F3_OR, F3_AND
<1>3. CASE instr.funct3 = F3_SLT
  <2>1. FunctAlu(instr) = "ALU_SLT"
    BY <1>3 DEF FunctAlu
  <2>2. expected_arith(instr, a, b) = IF Signed(a) < Signed(b) THEN 1 ELSE 0
    BY <1>3 DEF expected_arith
  <2>3. alu_result("ALU_SLT", a, b) = IF Signed(a) < Signed(b) THEN AllOnes ELSE 0
    BY DEF alu_result
  <2>4. QED
    BY <1>1, <1>2, <1>3, <2>1, <2>2, <2>3
<1>4. CASE instr.funct3 = F3_SLTU
  <2>1. FunctAlu(instr) = "ALU_SLTU"
    BY <1>4 DEF FunctAlu
  <2>2. expected_arith(instr, a, b) = IF a < b THEN 1 ELSE 0
    BY <1>4 DEF expected_arith
  <2>3. alu_result("ALU_SLTU", a, b) = IF a < b THEN AllOnes ELSE 0
    BY DEF alu_result
  <2>4. QED
    BY <1>1, <1>2, <1>4, <2>1, <2>2, <2>3
<1>5. CASE instr.funct3 = F3_ADD_SUB
  <2> DEFINE variant == instr.funct7 = F7_VARIANT /\ instr.opcode = "OP_R_TYPE"
  <2>1. FunctAlu(instr) = IF variant THEN "ALU_SUB" ELSE "ALU_ADD"
    BY <1>5 DEF FunctAlu
  <2>2. expected_arith(instr, a, b) = IF variant THEN ToData(a - b) ELSE ToData(a + b)
    BY <1>5 DEF expected_arith
  <2>3. alu_result("ALU_SUB", a, b) = ToData(a - b) /\ alu_result("ALU_ADD", a, b) = ToData(a + b)
    BY DEF alu_result
  <2>4. QED
    BY <1>2, <1>5, <2>1, <2>2, <2>3
<1>6. CASE instr.funct3 = F3_SRL_SRA
  <2> DEFINE variant == instr.funct7 = F7_VARIANT
  <2>1. FunctAlu(instr) = IF variant THEN "ALU_SRA" ELSE "ALU_SRL"
    BY <1>6 DEF FunctAlu
  <2>2. expected_arith(instr, a, b) = IF variant THEN ShiftRightArith(a, Shamt(b)) ELSE ShiftRightLogic(a, Shamt(b))
    BY <1>6 DEF expected_arith
  <2>3. alu_result("ALU_SRA", a, b) = ShiftRightArith(a, Shamt(b)) /\ alu_result("ALU_SRL", a, b) = ShiftRightLogic(a, Shamt(b))
    BY DEF alu_result
  <2>4. QED
    BY <1>2, <1>6, <2>1, <2>2, <2>3
<1>7. CASE instr.funct3 = F3_SLL
  <2>1. FunctAlu(instr) = "ALU_SLL"
    BY <1>7 DEF FunctAlu
  <2>2. expected_arith(instr, a, b) = ShiftLeft(a, Shamt(b))
    BY <1>7 DEF expected_arith
  <2>3. alu_result("ALU_SLL", a, b) = ShiftLeft(a, Shamt(b))
    BY DEF alu_result
  <2>4. QED
    BY <1>2, <1>7, <2>1, <2>2, <2>3
<1>8. CASE instr.funct3 = F3_XOR
  <2>1. FunctAlu(instr) = "ALU_XOR"
    BY <1>8 DEF FunctAlu
  <2>2. expected_arith(instr, a, b) = XorWord(a, b)
    BY <1>8 DEF expected_arith
  <2>3. alu_result("ALU_XOR", a, b) = XorWord(a, b)
    BY DEF alu_result
  <2>4. QED
    BY <1>2, <1>8, <2>1, <2>2, <2>3
<1>9. CASE instr.funct3 = F3_OR
  <2>1. FunctAlu(instr) = "ALU_OR"
    BY <1>9 DEF FunctAlu
  <2>2. expected_arith(instr, a, b) = OrWord(a, b)
    BY <1>9 DEF expected_arith
  <2>3. alu_result("ALU_OR", a, b) = OrWord(a, b)
    BY DEF alu_result
  <2>4. QED
    BY <1>2, <1>9, <2>1, <2>2, <2>3
<1>10. CASE instr.funct3 = F3_AND
  <2>1. FunctAlu(instr) = "ALU_AND"
    BY <1>10 DEF FunctAlu
  <2>2. expected_arith(instr, a, b) = AndWord(a, b)
    BY <1>10 DEF expected_arith
  <2>3. alu_result("ALU_AND", a, b) = AndWord(a, b)
    BY DEF alu_result
  <2>4. QED
    BY <1>2, <1>10, <2>1, <2>2, <2>3
<1>11. QED
  BY <1>3, <1>4, <1>5, <1>6, <1>7, <1>8, <1>9, <1>10

\* An immediate is a word: five formats, sign-extended and truncated
\* (imm_gen.sv 25-75).
LEMMA ImmediateIsWord == ASSUME NEW instr \in Instr PROVE imm_gen(instr) \in Data
<1>1. /\ instr.rd \in Nat /\ instr.rs1 \in Nat /\ instr.rs2 \in Nat
      /\ instr.funct3 \in Nat /\ instr.funct7 \in Nat /\ instr.opcode \in Opcodes
  <2>1. /\ instr.rd \in RegAddr /\ instr.rs1 \in RegAddr /\ instr.rs2 \in RegAddr
        /\ instr.funct3 \in 0 .. 7 /\ instr.funct7 \in 0 .. 127
        /\ instr.opcode \in Opcodes
    BY DEF Instr
  <2>2. instr.rd \in Nat /\ instr.rs1 \in Nat /\ instr.rs2 \in Nat
    BY <2>1, RegAddrIsNat
  <2>3. instr.funct3 \in Nat /\ instr.funct7 \in Nat
    BY <2>1
  <2>4. QED
    BY <2>1, <2>2, <2>3
<1>2. \A bits \in 1 .. 32, n \in Int : SignExtend(bits, n) \in Int
  <2> SUFFICES ASSUME NEW bits \in 1 .. 32, NEW n \in Int
               PROVE  SignExtend(bits, n) \in Int
    OBVIOUS
  <2>1. 2^bits \in Int /\ 2^(bits - 1) \in Int
    OBVIOUS
  <2>2. QED
    BY <2>1 DEF SignExtend
<1>3. ImmI(instr) \in Int /\ ImmS(instr) \in Int
  <2>1. instr.funct7 * 32 + instr.rs2 \in Int /\ instr.funct7 * 32 + instr.rd \in Int
    BY <1>1
  <2>2. QED
    BY <2>1, <1>2 DEF ImmI, ImmS
<1>4. ImmB(instr) \in Int
  <2> DEFINE fields == (instr.funct7 \div 64) * 4096 + (instr.rd % 2) * 2048
                         + (instr.funct7 % 64) * 32 + (instr.rd \div 2) * 2
  <2>1. fields \in Int
    BY <1>1
  <2>2. QED
    BY <2>1, <1>2 DEF ImmB
<1>5. ImmU(instr) \in Int
  <2>1. SignExtend(7, instr.funct7) \in Int
    <3>1. instr.funct7 \in Int /\ 7 \in 1 .. 32
      BY <1>1
    <3>2. QED
      BY <3>1, <1>2, Zenon
  <2>2. SignExtend(7, instr.funct7) * 2^25 \in Int
    BY <2>1
  <2>3. instr.rs2 * 2^20 \in Int /\ instr.rs1 * 2^15 \in Int
    BY <1>1
  <2>4. instr.funct3 * 2^12 \in Int
    BY <1>1
  <2>5. QED
    BY <2>2, <2>3, <2>4 DEF ImmU
<1>6. ImmJ(instr) \in Int
  <2>1. (instr.funct7 \div 64) * 2^20 \in Int
    BY <1>1
  <2>2. (instr.rs1 * 8 + instr.funct3) * 2^12 \in Int
    BY <1>1
  <2>3. (instr.rs2 % 2) * 2^11 \in Int
    BY <1>1
  <2>4. ((instr.funct7 % 64) * 16 + instr.rs2 \div 2) * 2 \in Int
    BY <1>1
  <2> DEFINE fields == (instr.funct7 \div 64) * 2^20 + (instr.rs1 * 8 + instr.funct3) * 2^12
                         + (instr.rs2 % 2) * 2^11
                         + ((instr.funct7 % 64) * 16 + instr.rs2 \div 2) * 2
  <2>5. fields \in Int
    BY <2>1, <2>2, <2>3, <2>4
  <2>6. ImmJ(instr) = SignExtend(21, fields)
    BY DEF ImmJ
  <2> HIDE DEF fields
  <2>7. QED
    BY <2>5, <2>6, <1>2
<1>7. QED
  BY <1>1, <1>3, <1>4, <1>5, <1>6, ToDataInData DEF imm_gen, Opcodes

LEMMA OperandsAreWords ==
  ASSUME NEW instr \in Instr, NEW pc \in Data, NEW regs \in RegisterFile
  PROVE  operand_a(instr, pc, regs) \in Data /\ operand_b(instr, regs) \in Data
<1>1. ASSUME NEW addr \in RegAddr PROVE rf_read(regs, addr) \in Data
  BY ZeroIsData DEF rf_read, RegisterFile
<1>2. QED
  BY <1>1, ImmediateIsWord DEF operand_a, operand_b, Instr

\* A write keeps the register file a file of words, and x0 what it was
\* (rf.sv 51-59).
LEMMA RegisterWriteTyped ==
  ASSUME NEW regs \in RegisterFile, NEW we \in BOOLEAN, NEW addr \in RegAddr,
         NEW data \in Data
  PROVE  /\ rf_write(regs, we, addr, data) \in RegisterFile
         /\ rf_write(regs, we, addr, data)[REG_ZERO] = regs[REG_ZERO]
BY ZeroIsRegAddr DEF rf_write, RegisterFile
=============================================================================
