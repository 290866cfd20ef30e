-------------------------- MODULE ScoreboardProofs --------------------------
(***************************************************************************)
(* The monitor's immediates, and what the scoreboard's verdict is worth,   *)
(* for every word width up to 32 bits, every program and every core.       *)
(***************************************************************************)
EXTENDS Scoreboard, ExecuteProofs

-----------------------------------------------------------------------------
(* Immediates.                                                              *)

LEMMA FieldsAreNumbers ==
  ASSUME NEW i \in Instr
  PROVE  /\ i.funct7 \in 0 .. 127 /\ i.funct3 \in 0 .. 7 /\ i.opcode \in Opcodes
         /\ i.rd \in 0 .. 31 /\ i.rs1 \in 0 .. 31 /\ i.rs2 \in 0 .. 31
         /\ SignOf(i) \in {0, 1}
         /\ SignOf(i) = 1 <=> i.funct7 >= 64
<1>1. /\ i.funct7 \in 0 .. 127 /\ i.funct3 \in 0 .. 7 /\ i.opcode \in Opcodes
      /\ i.rd \in RegAddr /\ i.rs1 \in RegAddr /\ i.rs2 \in RegAddr
  BY DEF Instr
<1>2. RegAddr \subseteq 0 .. 31
  BY FormatAssumption, PowersArePositive, SMT DEF RegAddr
<1> DEFINE f == i.funct7
           q == f \div 64
<1>3. q \in {0, 1} /\ (q = 1 <=> f >= 64)
  <2>1. f \in 0 .. 127
    BY <1>1
  <2> HIDE DEF f
  <2>2. CASE f < 64
    BY <2>1, <2>2, SMT
  <2>3. CASE f >= 64
    BY <2>1, <2>3, SMT
  <2>4. QED
    BY <2>1, <2>2, <2>3, SMT
<1>4. SignOf(i) \in {0, 1} /\ (SignOf(i) = 1 <=> i.funct7 >= 64)
  BY <1>3 DEF SignOf
<1>5. QED
  BY <1>1, <1>2, <1>4

LEMMA FormatPowers ==
  /\ 2^(7 - 1) = 64 /\ 2^7 = 128
  /\ 2^(12 - 1) = 2048 /\ 2^12 = 4096
  /\ 2^(13 - 1) = 4096 /\ 2^13 = 8192
  /\ 2^(21 - 1) = 1048576 /\ 2^21 = 2097152
  /\ 2^3 = 8 /\ 2^8 = 256 /\ 2^11 = 2048 /\ 2^15 = 32768
  /\ 2^20 = 1048576 /\ 2^25 = 33554432
<1>1. 7 - 1 = 6 /\ 12 - 1 = 11 /\ 13 - 1 = 12 /\ 21 - 1 = 20
  OBVIOUS
<1>2. QED
  BY <1>1, PowerValues, SMT

LEMMA SignExtensions ==
  \A n \in Int : /\ SignExtend(12, n) = (IF n >= 2048 THEN n - 4096 ELSE n)
                 /\ SignExtend(13, n) = (IF n >= 4096 THEN n - 8192 ELSE n)
                 /\ SignExtend(7, n) = (IF n >= 64 THEN n - 128 ELSE n)
                 /\ SignExtend(21, n) = (IF n >= 1048576 THEN n - 2097152 ELSE n)
BY FormatPowers, SMT DEF SignExtend

\* The formats with their powers of two worked out, I and S first.
LEMMA ShortFormatsInNumbers ==
  ASSUME NEW i \in Instr
  PROVE  /\ ImmI(i) = (i.funct7 * 32 + i.rs2) - SignOf(i) * 4096
         /\ ImmS(i) = (i.funct7 * 32 + i.rd) - SignOf(i) * 4096
<1> DEFINE f7 == i.funct7
           d  == i.rd
           b  == i.rs2
           s  == SignOf(i)
<1>1. /\ f7 \in 0 .. 127 /\ d \in 0 .. 31 /\ b \in 0 .. 31
      /\ s \in {0, 1} /\ (s = 1 <=> f7 >= 64)
  BY FieldsAreNumbers
<1> HIDE DEF f7, d, b, s
<1>2. SignExtend(12, f7 * 32 + b) = (f7 * 32 + b) - s * 4096
  BY <1>1, SignExtensions, SMT
<1>3. SignExtend(12, f7 * 32 + d) = (f7 * 32 + d) - s * 4096
  BY <1>1, SignExtensions, SMT
<1>4. QED
  BY <1>2, <1>3, SMT DEF ImmI, ImmS, f7, d, b, s

LEMMA FormatBInNumbers ==
  ASSUME NEW i \in Instr
  PROVE  ImmB(i) = ((i.rd % 2) * 2048 + (i.funct7 % 64) * 32 + (i.rd \div 2) * 2)
                     - SignOf(i) * 4096
<1> DEFINE f7 == i.funct7
           d  == i.rd
           s  == SignOf(i)
<1>1. /\ f7 \in 0 .. 127 /\ d \in 0 .. 31
      /\ s \in {0, 1} /\ (s = 1 <=> f7 >= 64) /\ s = f7 \div 64
  BY FieldsAreNumbers DEF SignOf
<1> HIDE DEF f7, d, s
<1> DEFINE low == (d % 2) * 2048 + (f7 % 64) * 32 + (d \div 2) * 2
           n   == s * 4096 + (d % 2) * 2048 + (f7 % 64) * 32 + (d \div 2) * 2
<1>2. /\ d % 2 \in 0 .. 1 /\ f7 % 64 \in 0 .. 63 /\ d \div 2 \in 0 .. 15
  BY <1>1, SMT
<1>3. low \in 0 .. 4095 /\ n = s * 4096 + low
  <2> DEFINE x == d % 2
             y == f7 % 64
             z == d \div 2
  <2>1. x \in 0 .. 1 /\ y \in 0 .. 63 /\ z \in 0 .. 15 /\ s \in {0, 1}
    BY <1>1, <1>2
  <2>2. low = x * 2048 + y * 32 + z * 2 /\ n = s * 4096 + x * 2048 + y * 32 + z * 2
    OBVIOUS
  <2> HIDE DEF x, y, z, low, n
  <2>3. QED
    BY <2>1, <2>2, SMT
<1>4. SignExtend(13, n) = low - s * 4096
  <2> HIDE DEF low, n
  <2>1. n \in Int /\ (n >= 4096 <=> s = 1)
    BY <1>3, <1>1, SMT
  <2>2. SignExtend(13, n) = (IF n >= 4096 THEN n - 8192 ELSE n)
    BY <2>1, SignExtensions
  <2>3. QED
    BY <2>1, <2>2, <1>3, <1>1, SMT
<1>5. ImmB(i) = SignExtend(13, n)
  BY <1>1 DEF ImmB, n, f7, d
<1>6. QED
  BY <1>4, <1>5 DEF low, f7, d, s

LEMMA FormatUInNumbers ==
  ASSUME NEW i \in Instr
  PROVE  ImmU(i) = ((i.funct7 - SignOf(i) * 128) * 8192 + i.rs2 * 256 + i.rs1 * 8 + i.funct3)
                     * 4096
<1> DEFINE f7 == i.funct7
           f3 == i.funct3
           a  == i.rs1
           b  == i.rs2
           s  == SignOf(i)
<1>1. /\ f7 \in 0 .. 127 /\ f3 \in 0 .. 7 /\ a \in 0 .. 31 /\ b \in 0 .. 31
      /\ s \in {0, 1} /\ (s = 1 <=> f7 >= 64)
  BY FieldsAreNumbers
<1> HIDE DEF f7, f3, a, b, s
<1>2. SignExtend(7, f7) = f7 - s * 128
  BY <1>1, SignExtensions, SMT
<1>3. ImmU(i) = (f7 - s * 128) * 33554432 + b * 1048576 + a * 32768 + f3 * 4096
  <2>1. /\ 2^25 = 33554432 /\ 2^20 = 1048576 /\ 2^15 = 32768 /\ 2^12 = 4096
    BY FormatPowers, SMT
  <2>2. ImmU(i) = SignExtend(7, f7) * 2^25 + b * 2^20 + a * 2^15 + f3 * 2^12
    BY DEF ImmU, f7, f3, a, b
  <2>3. QED
    BY <2>1, <2>2, <1>2, SMT
<1>4. ImmU(i) = ((f7 - s * 128) * 8192 + b * 256 + a * 8 + f3) * 4096
  BY <1>1, <1>3, SMT
<1>5. QED
  BY <1>4, SMT DEF f7, f3, a, b, s

LEMMA FormatJInNumbers ==
  ASSUME NEW i \in Instr
  PROVE  ImmJ(i) = ((i.rs1 * 8 + i.funct3) * 4096 + (i.rs2 % 2) * 2048
                      + ((i.funct7 % 64) * 16 + i.rs2 \div 2) * 2) - SignOf(i) * 1048576
<1> DEFINE f7 == i.funct7
           f3 == i.funct3
           a  == i.rs1
           b  == i.rs2
           s  == SignOf(i)
<1>1. /\ f7 \in 0 .. 127 /\ f3 \in 0 .. 7 /\ a \in 0 .. 31 /\ b \in 0 .. 31
      /\ s \in {0, 1} /\ (s = 1 <=> f7 >= 64) /\ s = f7 \div 64
  BY FieldsAreNumbers DEF SignOf
<1> HIDE DEF f7, f3, a, b, s
<1> DEFINE low == (a * 8 + f3) * 4096 + (b % 2) * 2048 + ((f7 % 64) * 16 + b \div 2) * 2
           n   == s * 1048576 + (a * 8 + f3) * 4096 + (b % 2) * 2048
                    + ((f7 % 64) * 16 + b \div 2) * 2
           h   == a * 8 + f3
           m   == (f7 % 64) * 16 + b \div 2
<1>2. /\ b % 2 \in 0 .. 1 /\ f7 % 64 \in 0 .. 63 /\ b \div 2 \in 0 .. 15
      /\ h \in 0 .. 255
  BY <1>1, SMT
<1>3. m \in 0 .. 1023
  BY <1>2, SMT
<1>4. low \in Int /\ 0 <= low /\ low < 1048576 /\ n = s * 1048576 + low
  <2>1. h \in Int /\ b % 2 \in Int /\ m \in Int /\ s \in Int
    BY <1>1, <1>2, <1>3, SMT
  <2> HIDE DEF h, m
  <2>2. 0 <= h * 4096 + (b % 2) * 2048 + m * 2 /\ h * 4096 + (b % 2) * 2048 + m * 2 < 1048576
    BY <1>2, <1>3, SMT
  <2>3. s * 1048576 + h * 4096 + (b % 2) * 2048 + m * 2
          = s * 1048576 + (h * 4096 + (b % 2) * 2048 + m * 2)
    BY <2>1, SMT
  <2>4. low = h * 4096 + (b % 2) * 2048 + m * 2
        /\ n = s * 1048576 + h * 4096 + (b % 2) * 2048 + m * 2
    BY DEF low, n, h, m
  <2>5. QED
    BY <2>1, <2>2, <2>3, <2>4, SMT
<1>5. SignExtend(21, n) = low - s * 1048576
  <2> HIDE DEF low, n
  <2>1. n \in Int /\ (n >= 1048576 <=> s = 1)
    BY <1>4, <1>1, SMT
  <2>2. SignExtend(21, n) = (IF n >= 1048576 THEN n - 2097152 ELSE n)
    BY <2>1, SignExtensions, SMT
  <2>3. QED
    BY <1>4, <2>1, <2>2, <1>1, SMT
<1>6. ImmJ(i) = SignExtend(21, n)
  <2>1. /\ 2^20 = 1048576 /\ 2^12 = 4096 /\ 2^11 = 2048
    BY FormatPowers, SMT
  <2>2. ImmJ(i) = SignExtend(21, (f7 \div 64) * 2^20 + (a * 8 + f3) * 2^12 + (b % 2) * 2^11
                                    + ((f7 % 64) * 16 + b \div 2) * 2)
    BY DEF ImmJ, f7, f3, a, b
  <2>3. QED
    BY <1>1, <2>1, <2>2, SMT DEF n
<1>7. QED
  BY <1>5, <1>6, SMT DEF low, f7, f3, a, b, s

\* The monitor's concatenations are the core's numbers, cut to their width.
LEMMA FormatsAgree ==
  ASSUME NEW i \in Instr
  PROVE  /\ decode_immediate(i, "IMM_I") = ToData(ImmI(i))
         /\ decode_immediate(i, "IMM_S") = ToData(ImmS(i))
         /\ decode_immediate(i, "IMM_B") = ImmB(i) % HalfRange
         /\ decode_immediate(i, "IMM_U") = ToData(ImmU(i))
         /\ decode_immediate(i, "IMM_J") = ImmJ(i) % HalfRange
<1>1. /\ SignFilled(i, i.funct7 * 32 + i.rs2, 12, DataSize) = ToData(ImmI(i))
      /\ SignFilled(i, i.funct7 * 32 + i.rd, 12, DataSize) = ToData(ImmS(i))
  <2> DEFINE lowI == i.funct7 * 32 + i.rs2
             lowS == i.funct7 * 32 + i.rd
  <2>1. lowI - SignOf(i) * 4096 = ImmI(i) /\ lowS - SignOf(i) * 4096 = ImmS(i)
    BY ShortFormatsInNumbers
  <2> HIDE DEF lowI, lowS
  <2>2. 2^12 = 4096
    BY FormatPowers, SMT
  <2>3. /\ SignFilled(i, lowI, 12, DataSize) = ToData(ImmI(i))
        /\ SignFilled(i, lowS, 12, DataSize) = ToData(ImmS(i))
    BY <2>1, <2>2, SMT DEF SignFilled, ToData
  <2>4. QED
    BY <2>3 DEF lowI, lowS
<1>2. SignFilled(i, (i.rd % 2) * 2048 + (i.funct7 % 64) * 32 + (i.rd \div 2) * 2, 12, HalfRange)
        = ImmB(i) % HalfRange
  <2> DEFINE low == (i.rd % 2) * 2048 + (i.funct7 % 64) * 32 + (i.rd \div 2) * 2
  <2>1. low - SignOf(i) * 4096 = ImmB(i)
    BY FormatBInNumbers
  <2> HIDE DEF low
  <2>2. 2^12 = 4096
    BY FormatPowers, SMT
  <2>3. SignFilled(i, low, 12, HalfRange) = ImmB(i) % HalfRange
    BY <2>1, <2>2, SMT DEF SignFilled
  <2>4. QED
    BY <2>3 DEF low
<1>3. ((i.funct7 - SignOf(i) * 128) * 2^13 + i.rs2 * 2^8 + i.rs1 * 2^3 + i.funct3) * 2^12 = ImmU(i)
  BY FieldsAreNumbers, FormatPowers, FormatUInNumbers, SMT
<1>4. SignFilled(i, (i.rs1 * 8 + i.funct3) * 2^12 + (i.rs2 % 2) * 2^11
                      + ((i.funct7 % 64) * 16 + i.rs2 \div 2) * 2, 20, HalfRange)
        = ImmJ(i) % HalfRange
  <2>1. 2^12 = 4096 /\ 2^11 = 2048 /\ 2^20 = 1048576
    BY FormatPowers, SMT
  <2> DEFINE low == (i.rs1 * 8 + i.funct3) * 2^12 + (i.rs2 % 2) * 2^11
                      + ((i.funct7 % 64) * 16 + i.rs2 \div 2) * 2
  <2>2. low = (i.rs1 * 8 + i.funct3) * 4096 + (i.rs2 % 2) * 2048
                + ((i.funct7 % 64) * 16 + i.rs2 \div 2) * 2
    BY <2>1, SMT
  <2>3. low - SignOf(i) * 1048576 = ImmJ(i)
    <3>1. /\ i.rs1 \in Int /\ i.rs2 \in Int /\ i.funct3 \in Int /\ i.funct7 \in Int
          /\ SignOf(i) \in Int
      BY FieldsAreNumbers, SMT
    <3>2. /\ i.rs2 % 2 \in Int /\ i.rs2 \div 2 \in Int /\ i.funct7 % 64 \in Int
      BY <3>1, SMT
    <3>3. low \in Int
      BY <2>2, <3>1, <3>2, SMT
    <3>4. ImmJ(i) = low - SignOf(i) * 1048576
      BY <2>2, <3>1, <3>2, FormatJInNumbers, SMT
    <3>5. QED
      BY <3>4
  <2> HIDE DEF low
  <2>4. SignFilled(i, low, 20, HalfRange) = ImmJ(i) % HalfRange
    BY <2>1, <2>3, SMT DEF SignFilled
  <2>5. QED
    BY <2>4 DEF low
<1>5. QED
  BY <1>1, <1>2, <1>3, <1>4, SMT DEF decode_immediate

\* Cutting a word to one bit less is cutting the number.
LEMMA HalfOfWord == ASSUME NEW n \in Int PROVE ToData(n) % HalfRange = n % HalfRange
<1> DEFINE q == n \div DataSize
           r == ToData(n)
<1>1. HalfRange \in Nat \ {0} /\ DataSize = 2 * HalfRange
  BY PowersArePositive DEF DataSize
<1>2. q \in Int /\ r \in Int /\ n = DataSize * q + r
  <2>1. DataSize \in Nat \ {0}
    BY <1>1
  <2>2. QED
    BY <2>1 DEF ToData
<1>3. n = r + HalfRange * (2 * q)
  <2>1. DataSize * q = HalfRange * (2 * q)
    BY <1>1, <1>2
  <2>2. QED
    BY <2>1, <1>1, <1>2
<1>4. ASSUME NEW a \in Int, NEW k \in Int PROVE (a + HalfRange * k) % HalfRange = a % HalfRange
  <2>1. HalfRange * k \in Int
    BY <1>1
  <2>2. a = HalfRange * (a \div HalfRange) + (a % HalfRange) /\ a \div HalfRange \in Int /\ a % HalfRange \in 0 .. HalfRange - 1
    BY <1>1
  <2> DEFINE b == a + HalfRange * k
  <2>3. b = HalfRange * (b \div HalfRange) + (b % HalfRange) /\ b \div HalfRange \in Int /\ b % HalfRange \in 0 .. HalfRange - 1
    BY <1>1, <2>1
  <2> DEFINE d == (b \div HalfRange) - (a \div HalfRange) - k
  <2>4. HalfRange * d = (a % HalfRange) - (b % HalfRange) /\ d \in Int
    BY <1>1, <2>1, <2>2, <2>3
  <2>5. d = 0
    <3>1. CASE d >= 1
      <4>1. HalfRange * d >= HalfRange
        BY <3>1, <2>4, <1>1
      <4>2. QED
        BY <4>1, <2>2, <2>3, <2>4, <1>1
    <3>2. CASE d <= -1
      <4>1. HalfRange * d <= -HalfRange
        BY <3>2, <2>4, <1>1
      <4>2. QED
        BY <4>1, <2>2, <2>3, <2>4, <1>1
    <3>3. QED
      BY <3>1, <3>2, <2>4
  <2>6. QED
    BY <2>2, <2>3, <2>4, <2>5, <1>1
<1>5. QED
  BY <1>2, <1>3, <1>4

\* The monitor's decoder and the core's immediate generator, opcode by opcode.
LEMMA ImmediatesAgree ==
  ASSUME NEW i \in Instr
  PROVE  LET imm == decode_immediate(i, get_imm_type(i.opcode))
         IN  /\ i.opcode \in {"OP_BRANCH", "OP_JAL"} => imm = imm_gen(i) % HalfRange
             /\ i.opcode \notin {"OP_BRANCH", "OP_JAL", "OP_R_TYPE"} => imm = imm_gen(i)
             /\ imm \in Data
<1>1. i.opcode \in Opcodes
  BY FieldsAreNumbers
<1>2. get_imm_type(i.opcode) = 
        CASE i.opcode = "OP_STORE" -> "IMM_S"
          [] i.opcode = "OP_BRANCH" -> "IMM_B"
          [] i.opcode \in {"OP_LUI", "OP_AUIPC"} -> "IMM_U"
          [] i.opcode = "OP_JAL" -> "IMM_J"
          [] i.opcode \in {"OP_I_TYPE", "OP_LOAD", "OP_JALR", "OP_R_TYPE", "OP_OTHER"} -> "IMM_I"
  BY SMT DEF get_imm_type
<1>3. ImmI(i) \in Int /\ ImmS(i) \in Int /\ ImmB(i) \in Int /\ ImmU(i) \in Int /\ ImmJ(i) \in Int
  <2>1. /\ i.rd \in Int /\ i.rs1 \in Int /\ i.rs2 \in Int /\ i.funct3 \in Int
        /\ i.funct7 \in Int /\ SignOf(i) \in Int
    BY FieldsAreNumbers, SMT
  <2>2. /\ i.rd % 2 \in Int /\ i.rd \div 2 \in Int /\ i.rs2 % 2 \in Int /\ i.rs2 \div 2 \in Int
        /\ i.funct7 % 64 \in Int
    BY <2>1, SMT
  <2>3. ImmI(i) \in Int /\ ImmS(i) \in Int /\ ImmB(i) \in Int
    BY <2>1, <2>2, ShortFormatsInNumbers, FormatBInNumbers, SMT
  <2>4. ImmU(i) \in Int
    BY <2>1, FormatUInNumbers, SMT
  <2>5. ImmJ(i) \in Int
    BY <2>1, <2>2, FormatJInNumbers, SMT
  <2>6. QED
    BY <2>3, <2>4, <2>5
<1>4. HalfRange \in Nat \ {0} /\ DataSize = 2 * HalfRange
  BY PowersArePositive DEF DataSize
<1>5. ASSUME NEW n \in Int PROVE n % HalfRange \in Data
  BY <1>4, SMT DEF Data
<1>6. imm_gen(i) =
        CASE i.opcode = "OP_STORE"  -> ToData(ImmS(i))
          [] i.opcode = "OP_BRANCH" -> ToData(ImmB(i))
          [] i.opcode \in {"OP_LUI", "OP_AUIPC"} -> ToData(ImmU(i))
          [] i.opcode = "OP_JAL"    -> ToData(ImmJ(i))
          [] i.opcode = "OP_R_TYPE" -> ToData(0)
          [] i.opcode \in {"OP_I_TYPE", "OP_LOAD", "OP_JALR", "OP_OTHER"} -> ToData(ImmI(i))
  BY <1>1, SMT DEF imm_gen, Opcodes
<1>7. ToData(ImmB(i)) % HalfRange = ImmB(i) % HalfRange
      /\ ToData(ImmJ(i)) % HalfRange = ImmJ(i) % HalfRange
  BY <1>3, HalfOfWord
<1>8. ASSUME NEW n \in Int PROVE ToData(n) \in Data
  BY ToDataInData
<1>9. QED
  BY <1>1, <1>2, <1>3, <1>5, <1>6, <1>7, <1>8, FormatsAgree, SMT DEF Opcodes

-----------------------------------------------------------------------------
(* Expected words.                                                          *)

\* A transaction as collected, and as the core would have it.
LEMMA TransactionFields ==
  ASSUME NEW instr \in Instr, NEW pc \in Data, NEW wb_data \in Data
  PROVE  LET t == Transaction(instr, pc, wb_data)
             u == [t EXCEPT !.imm = imm_gen(instr)]
         IN  /\ t.opcode = instr.opcode /\ t.funct3 = instr.funct3 /\ t.funct7 = instr.funct7
             /\ t.rd = instr.rd /\ t.rs1 = instr.rs1 /\ t.rs2 = instr.rs2
             /\ t.pc = pc /\ t.wb_data = wb_data
             /\ t.imm = decode_immediate(instr, get_imm_type(instr.opcode))
             /\ u.opcode = instr.opcode /\ u.funct3 = instr.funct3 /\ u.funct7 = instr.funct7
             /\ u.rd = instr.rd /\ u.rs1 = instr.rs1 /\ u.rs2 = instr.rs2
             /\ u.pc = pc /\ u.wb_data = wb_data /\ u.imm = imm_gen(instr)
BY DEF Transaction

\* The arithmetic looks at opcode, funct3 and funct7 only.
LEMMA ArithSeesFunctFields ==
  ASSUME NEW t, NEW u, NEW a, NEW b,
         t.opcode = u.opcode, t.funct3 = u.funct3, t.funct7 = u.funct7
  PROVE  expected_arith(t, a, b) = expected_arith(u, a, b)
BY DEF expected_arith

LEMMA ArithGivesWords ==
  ASSUME NEW t, t.funct3 \in 0 .. 7, NEW a \in Data, NEW b \in Data
  PROVE  expected_arith(t, a, b) \in Data
<1>1. ToData(a + b) \in Data /\ ToData(a - b) \in Data
  <2>1. a + b \in Int /\ a - b \in Int
    BY DataIsNat
  <2>2. QED
    BY <2>1, ToDataInData
<1>2. AndWord(a, b) \in Data /\ OrWord(a, b) \in Data /\ XorWord(a, b) \in Data
  BY WordOfIsWord DEF AndWord, OrWord, XorWord
<1>3. 0 \in Data /\ 1 \in Data
  BY PowersArePositive DEF Data, DataSize
<1>4. /\ ShiftLeft(a, Shamt(b)) \in Data /\ ShiftRightLogic(a, Shamt(b)) \in Data
      /\ ShiftRightArith(a, Shamt(b)) \in Data
  BY ShiftsGiveWords
<1>5. /\ (IF Signed(a) < Signed(b) THEN 1 ELSE 0) \in Data
      /\ (IF a < b THEN 1 ELSE 0) \in Data
  BY <1>3
<1>6. t.funct3 \in {F3_ADD_SUB, F3_SLL, F3_SLT, F3_SLTU, F3_XOR, F3_SRL_SRA, F3_OR, F3_AND}
  BY SMT DEF F3_ADD_SUB, F3_SLL, F3_SLT, F3_SLTU, F3_XOR, F3_SRL_SRA, F3_OR, F3_AND
<1>7. QED
  BY <1>1, <1>2, <1>4, <1>5, <1>6, ZenonT(60) DEF expected_arith

LEMMA ExpectedIsWord ==
  ASSUME NEW t, t.opcode \in Opcodes, t.funct3 \in 0 .. 7, t.rs1 \in RegAddr, t.rs2 \in RegAddr,
         t.imm \in Data, t.pc \in Data, t.wb_data \in Data,
         NEW regs \in [RegAddr -> Data]
  PROVE  expected_data(t, regs) \in Data
<1>1. regs[t.rs1] \in Data /\ regs[t.rs2] \in Data
  OBVIOUS
<1>2. /\ expected_arith(t, regs[t.rs1], regs[t.rs2]) \in Data
      /\ expected_arith(t, regs[t.rs1], t.imm) \in Data
  BY <1>1, ArithGivesWords
<1>3. ToData(t.pc + t.imm) \in Data /\ ToData(t.pc + 4) \in Data
  <2>1. t.pc + t.imm \in Int /\ t.pc + 4 \in Int
    BY DataIsNat
  <2>2. QED
    BY <2>1, ToDataInData
<1>4. REG_ZERO \in Data
  BY ZeroIsData DEF REG_ZERO
<1>5. QED
  BY <1>2, <1>3, <1>4 DEF expected_data, Opcodes

\* Over registers that agree on what an instruction reads, a transaction is
\* expected to write what the core's own immediate makes right: branches and jal
\* are the only instructions with another immediate, and their word does not
\* depend on it.
LEMMA ExpectedAgrees ==
  ASSUME NEW instr \in Instr, NEW pc \in Data, NEW wb_data \in Data, CoreWrites(instr),
         NEW m, NEW d, \A r \in Sources(instr) : m[r] = d[r]
  PROVE  expected_data(Transaction(instr, pc, wb_data), m)
           = expected_data([Transaction(instr, pc, wb_data) EXCEPT !.imm = imm_gen(instr)], d)
<1> DEFINE t == Transaction(instr, pc, wb_data)
           u == [t EXCEPT !.imm = imm_gen(instr)]
<1>1. /\ t.opcode = instr.opcode /\ t.funct3 = instr.funct3 /\ t.funct7 = instr.funct7
      /\ t.rs1 = instr.rs1 /\ t.rs2 = instr.rs2 /\ t.pc = pc /\ t.wb_data = wb_data
      /\ t.imm = decode_immediate(instr, get_imm_type(instr.opcode))
      /\ u.opcode = instr.opcode /\ u.funct3 = instr.funct3 /\ u.funct7 = instr.funct7
      /\ u.rs1 = instr.rs1 /\ u.rs2 = instr.rs2 /\ u.pc = pc /\ u.wb_data = wb_data
      /\ u.imm = imm_gen(instr)
  BY TransactionFields
<1>2. instr.opcode \notin {"OP_BRANCH", "OP_JAL", "OP_R_TYPE"} => t.imm = u.imm
  BY <1>1, ImmediatesAgree
<1> HIDE DEF t, u
<1>3. CASE instr.opcode = "OP_R_TYPE"
  <2>1. m[instr.rs1] = d[instr.rs1] /\ m[instr.rs2] = d[instr.rs2]
    BY <1>3 DEF Sources
  <2>2. expected_arith(t, m[instr.rs1], m[instr.rs2])
          = expected_arith(u, m[instr.rs1], m[instr.rs2])
    BY <1>1, ArithSeesFunctFields
  <2>3. expected_data(t, m) = expected_data(u, d)
    BY <1>1, <1>3, <2>1, <2>2 DEF expected_data
  <2>4. QED
    BY <2>3 DEF t, u
<1>4. CASE instr.opcode = "OP_I_TYPE"
  <2>1. m[instr.rs1] = d[instr.rs1] /\ t.imm = u.imm
    BY <1>2, <1>4 DEF Sources
  <2>2. expected_arith(t, m[instr.rs1], t.imm) = expected_arith(u, m[instr.rs1], t.imm)
    BY <1>1, ArithSeesFunctFields
  <2>3. expected_data(t, m) = expected_data(u, d)
    BY <1>1, <1>4, <2>1, <2>2 DEF expected_data
  <2>4. QED
    BY <2>3 DEF t, u
<1>5. CASE instr.opcode \in {"OP_LUI", "OP_AUIPC", "OP_LOAD", "OP_JALR", "OP_JAL"}
  <2>1. instr.opcode \in {"OP_LUI", "OP_AUIPC"} => t.imm = u.imm
    BY <1>2
  <2>2. expected_data(t, m) = expected_data(u, d)
    BY <1>1, <1>5, <2>1 DEF expected_data
  <2>3. QED
    BY <2>2 DEF t, u
<1>6. QED
  BY <1>3, <1>4, <1>5 DEF CoreWrites, reg_we

-----------------------------------------------------------------------------
(* The invariant. Before the first mismatch nothing is spoiled, so the mirror *)
(* is the core's whole register file and the first mismatch cannot be a false *)
(* alarm; a later one can be, but by then the core has erred.                 *)

TxIsTransaction ==
  \E instr \in Instr, pc \in Data, wb_data \in Data : tx = Transaction(instr, pc, wb_data)

ScoreboardInv ==
  /\ TxIsTransaction
  /\ ScoreboardTypeOK
  /\ MirrorFollowsTheCore
  /\ mismatch_count = 0 => spoiled = {} /\ ~erred
  /\ mismatch_count > 0 => erred
  /\ status = "passed" => mismatch_count = 0
  /\ status = "failed" => mismatch_count > 0

LEMMA ScoreboardInvInit == ScoreboardInit => ScoreboardInv
<1> SUFFICES ASSUME ScoreboardInit PROVE ScoreboardInv
  OBVIOUS
<1>1. 0 \in Data /\ REG_ZERO \in RegAddr /\ ZeroInstr \in Instr
  BY ZeroIsData, ZeroIsRegAddr, ZeroInstrTyped
<1>2. TxIsTransaction
  BY <1>1 DEF ScoreboardInit, NoTransaction, TxIsTransaction
<1>3. tx.imm \in Data /\ tx.pc \in Data /\ tx.wb_data \in Data
  BY <1>1, TransactionFields, ImmediatesAgree DEF ScoreboardInit, NoTransaction
<1>4. EmptyMirror \in [RegAddr -> Data] /\ EmptyMirror[REG_ZERO] = 0
  BY <1>1 DEF EmptyMirror, REG_ZERO
<1>5. ScoreboardTypeOK
  <2>1. spoiled \subseteq RegAddr /\ erred \in BOOLEAN /\ status \in {"running", "passed", "failed"}
    BY DEF ScoreboardInit
  <2>2. /\ match_count \in Nat /\ mismatch_count \in Nat /\ completed_instrs \in Nat
        /\ match_count + mismatch_count <= completed_instrs
    BY DEF ScoreboardInit
  <2>3. QED
    BY <2>1, <2>2, <1>3, <1>4 DEF ScoreboardInit, ScoreboardTypeOK
<1>6. MirrorFollowsTheCore
  BY <1>4 DEF ScoreboardInit, MirrorFollowsTheCore
<1>7. QED
  BY <1>2, <1>5, <1>6 DEF ScoreboardInit, ScoreboardInv

\* One sampled word, over any word the core may have written.
LEMMA WriteKeepsInv ==
  ASSUME ScoreboardInv, NEW instr \in Instr, NEW pc \in Data, NEW wb_data \in Data,
         Write(instr, pc, wb_data)
  PROVE  ScoreboardInv'
<1> DEFINE t == Transaction(instr, pc, wb_data)
           expected == expected_data(t, register_file_mirror)
           due == Architectural(instr, pc, wb_data)
<1>1. /\ t.opcode = instr.opcode /\ t.funct3 = instr.funct3 /\ t.rd = instr.rd
      /\ t.rs1 = instr.rs1 /\ t.rs2 = instr.rs2 /\ t.pc = pc /\ t.wb_data = wb_data
      /\ t.imm \in Data
  BY TransactionFields, ImmediatesAgree
<1>2. /\ instr.opcode \in Opcodes /\ instr.funct3 \in 0 .. 7
      /\ instr.rd \in RegAddr /\ instr.rs1 \in RegAddr /\ instr.rs2 \in RegAddr
  BY DEF Instr
<1>3. expected \in Data
  <2>1. register_file_mirror \in [RegAddr -> Data]
    BY DEF ScoreboardInv, ScoreboardTypeOK
  <2>2. QED
    BY <1>1, <1>2, <2>1, ExpectedIsWord
<1>4. CoreWrites(instr) <=> is_writeback_instr(t)
  BY <1>1 DEF CoreWrites, reg_we, is_writeback_instr, WritebackOpcodes
<1>5. CoreWrites(instr) /\ spoiled = {} => expected = due
  <2> SUFFICES ASSUME CoreWrites(instr), spoiled = {} PROVE expected = due
    OBVIOUS
  <2>1. \A r \in Sources(instr) : register_file_mirror[r] = dut[r]
    BY <1>2 DEF Sources, ScoreboardInv, MirrorFollowsTheCore
  <2>2. QED
    BY <2>1, ExpectedAgrees DEF Architectural
<1>6. /\ Mismatches(t) <=> CoreWrites(instr) /\ wb_data # expected
      /\ Matches(t) <=> CoreWrites(instr) /\ wb_data = expected
  BY <1>1, <1>4 DEF Mismatches, Matches
<1> HIDE DEF t, expected, due
<1>7. /\ tx' = t
      /\ completed_instrs' = completed_instrs + 1
      /\ mismatch_count' = mismatch_count + (IF Mismatches(t) THEN 1 ELSE 0)
      /\ match_count' = match_count + (IF Matches(t) THEN 1 ELSE 0)
      /\ register_file_mirror' =
           IF Matches(t) THEN [register_file_mirror EXCEPT ![instr.rd] = expected]
           ELSE register_file_mirror
  BY <1>1 DEF Write, Score, t, expected
<1>8. /\ dut' = IF CoreWrites(instr) THEN [dut EXCEPT ![instr.rd] = wb_data] ELSE dut
      /\ erred' = (erred \/ (CoreWrites(instr) /\ wb_data # due))
      /\ spoiled' = IF Mismatches(t) THEN spoiled \cup {instr.rd}
                    ELSE IF Matches(t) THEN spoiled \ {instr.rd} ELSE spoiled
      /\ status = "running" /\ status' = status
  BY DEF Write, Observe, Right, t, due
<1>9. TxIsTransaction'
  BY <1>7 DEF TxIsTransaction, t
<1>10. ScoreboardTypeOK'
  <2>1. register_file_mirror' \in [RegAddr -> Data] /\ dut' \in [RegAddr -> Data]
    BY <1>2, <1>3, <1>7, <1>8 DEF ScoreboardInv, ScoreboardTypeOK
  <2>2. /\ match_count' \in Nat /\ mismatch_count' \in Nat /\ completed_instrs' \in Nat
        /\ match_count' + mismatch_count' <= completed_instrs'
    BY <1>6, <1>7 DEF ScoreboardInv, ScoreboardTypeOK
  <2>3. spoiled' \subseteq RegAddr /\ erred' \in BOOLEAN /\ status' \in {"running", "passed", "failed"}
    BY <1>2, <1>8 DEF ScoreboardInv, ScoreboardTypeOK
  <2>4. tx'.imm \in Data /\ tx'.pc \in Data /\ tx'.wb_data \in Data
    BY <1>1, <1>7 DEF t
  <2>5. QED
    BY <2>1, <2>2, <2>3, <2>4 DEF ScoreboardTypeOK
<1>11. MirrorFollowsTheCore'
  <2>1. CASE ~CoreWrites(instr)
    BY <2>1, <1>6, <1>7, <1>8 DEF ScoreboardInv, MirrorFollowsTheCore
  <2>2. CASE CoreWrites(instr) /\ wb_data = expected
    BY <2>2, <1>2, <1>6, <1>7, <1>8
       DEF ScoreboardInv, ScoreboardTypeOK, MirrorFollowsTheCore, CoreWrites
  <2>3. CASE CoreWrites(instr) /\ wb_data # expected
    BY <2>3, <1>2, <1>6, <1>7, <1>8
       DEF ScoreboardInv, ScoreboardTypeOK, MirrorFollowsTheCore, CoreWrites
  <2>4. QED
    BY <2>1, <2>2, <2>3
<1>12. mismatch_count' = 0 => spoiled' = {} /\ ~erred'
  <2> SUFFICES ASSUME mismatch_count' = 0 PROVE spoiled' = {} /\ ~erred'
    OBVIOUS
  <2>1. mismatch_count = 0 /\ ~Mismatches(t)
    BY <1>7 DEF ScoreboardInv, ScoreboardTypeOK
  <2>2. spoiled = {} /\ ~erred
    BY <2>1 DEF ScoreboardInv
  <2>3. QED
    BY <2>1, <2>2, <1>5, <1>6, <1>8
<1>13. mismatch_count' > 0 => erred'
  <2>1. CASE mismatch_count > 0
    BY <2>1, <1>8 DEF ScoreboardInv
  <2>2. CASE mismatch_count = 0
    <3>1. mismatch_count' > 0 => Mismatches(t)
      BY <2>2, <1>7
    <3>2. QED
      BY <3>1, <2>2, <1>5, <1>6, <1>8 DEF ScoreboardInv
  <2>3. QED
    BY <2>1, <2>2 DEF ScoreboardInv, ScoreboardTypeOK
<1>14. QED
  BY <1>8, <1>9, <1>10, <1>11, <1>12, <1>13 DEF ScoreboardInv

LEMMA ScoreboardInvStep == ScoreboardInv /\ [ScoreboardNext]_scoreboardVars => ScoreboardInv'
<1> SUFFICES ASSUME ScoreboardInv, [ScoreboardNext]_scoreboardVars PROVE ScoreboardInv'
  OBVIOUS
<1>1. ASSUME NEW instr \in Words, NEW pc \in Pcs,
             NEW wb_data \in WbData \cup {Architectural(instr, pc, 0)}, Write(instr, pc, wb_data)
      PROVE  ScoreboardInv'
  <2>1. instr \in Instr /\ pc \in Data
    BY ScoreboardAssumption
  <2>2. Architectural(instr, pc, 0) \in Data
    <3> DEFINE u == [Transaction(instr, pc, 0) EXCEPT !.imm = imm_gen(instr)]
    <3>1. /\ u.opcode = instr.opcode /\ u.funct3 = instr.funct3 /\ u.rs1 = instr.rs1
          /\ u.rs2 = instr.rs2 /\ u.pc = pc /\ u.wb_data = 0 /\ u.imm = imm_gen(instr)
      BY <2>1, ZeroIsData, TransactionFields
    <3>2. /\ u.opcode \in Opcodes /\ u.funct3 \in 0 .. 7 /\ u.rs1 \in RegAddr /\ u.rs2 \in RegAddr
          /\ u.pc \in Data /\ u.wb_data \in Data /\ u.imm \in Data
      BY <3>1, <2>1, ZeroIsData, ImmediateIsWord DEF Instr
    <3>3. dut \in [RegAddr -> Data]
      BY DEF ScoreboardInv, ScoreboardTypeOK
    <3> HIDE DEF u
    <3>4. expected_data(u, dut) \in Data
      BY <3>2, <3>3, ExpectedIsWord
    <3>5. QED
      BY <3>4 DEF Architectural, u
  <2>3. wb_data \in Data
    BY <2>2, ScoreboardAssumption
  <2>4. QED
    BY <1>1, <2>1, <2>3, WriteKeepsInv
<1>2. CASE report_phase
  <2>1. /\ UNCHANGED <<tx, register_file_mirror, counters, dut, spoiled, erred>>
        /\ status' = IF mismatch_count > 0 THEN "failed" ELSE "passed"
    BY <1>2 DEF report_phase
  <2>2. mismatch_count \in Nat
    BY DEF ScoreboardInv, ScoreboardTypeOK
  <2>3. QED
    BY <2>1, <2>2
       DEF ScoreboardInv, TxIsTransaction, ScoreboardTypeOK, MirrorFollowsTheCore, counters
<1>3. CASE UNCHANGED scoreboardVars
  BY <1>3 DEF scoreboardVars, counters, ScoreboardInv, TxIsTransaction, ScoreboardTypeOK, MirrorFollowsTheCore
<1>4. QED
  BY <1>1, <1>2, <1>3 DEF ScoreboardNext

LEMMA ScoreboardInvAlways == ScoreboardSpec => []ScoreboardInv
<1>1. QED
  BY ScoreboardInvInit, ScoreboardInvStep, PTL DEF ScoreboardSpec

-----------------------------------------------------------------------------

\* Every variable keeps its type and no transaction is counted twice
\* (core_scoreboard.sv 27-61 and 144-154).
THEOREM ScoreboardTypeCorrect == ScoreboardSpec => []ScoreboardTypeOK
<1>1. ScoreboardInv => ScoreboardTypeOK
  BY DEF ScoreboardInv
<1>2. QED
  BY <1>1, ScoreboardInvAlways, PTL

\* The mirror is the core's register file but for the registers whose last
\* write was reported (core_scoreboard.sv 144-154).
THEOREM MirrorFollowsTheCoreAlways == ScoreboardSpec => []MirrorFollowsTheCore
<1>1. ScoreboardInv => MirrorFollowsTheCore
  BY DEF ScoreboardInv
<1>2. QED
  BY <1>1, ScoreboardInvAlways, PTL

\* A false alarm, or an error let through, needs an operand of an instruction
\* that was reported before (core_scoreboard.sv 66-154).
THEOREM OnlyReadersOfSpoiledAreMisjudgedAlways ==
  ScoreboardSpec => []OnlyReadersOfSpoiledAreMisjudged
<1>1. ScoreboardInv => OnlyReadersOfSpoiledAreMisjudged
  <2> SUFFICES ASSUME ScoreboardInv, NEW instr \in Words, NEW pc \in Pcs, NEW wb_data \in WbData,
                      CoreWrites(instr), Sources(instr) \cap spoiled = {}
               PROVE  expected_data(Transaction(instr, pc, wb_data), register_file_mirror)
                        = Architectural(instr, pc, wb_data)
    BY DEF OnlyReadersOfSpoiledAreMisjudged
  <2>1. instr \in Instr /\ pc \in Data /\ wb_data \in Data
    BY ScoreboardAssumption
  <2>2. Sources(instr) \subseteq RegAddr
    BY <2>1 DEF Sources, Instr
  <2>3. \A r \in Sources(instr) : register_file_mirror[r] = dut[r]
    BY <2>2 DEF ScoreboardInv, MirrorFollowsTheCore
  <2>4. QED
    BY <2>1, <2>3, ExpectedAgrees DEF Architectural
<1>2. QED
  BY <1>1, ScoreboardInvAlways, PTL

\* A run is passed or failed as it deserves, however often the core errs
\* (core_scoreboard.sv 145-154, 161-169).
THEOREM VerdictIsExactAlways == ScoreboardSpec => []VerdictIsExact
<1>1. ScoreboardInv => VerdictIsExact
  BY DEF ScoreboardInv, ScoreboardTypeOK, VerdictIsExact
<1>2. QED
  BY <1>1, ScoreboardInvAlways, PTL

\* But for branches and jal, the monitor's immediate is the core's
\* (mem_monitor.sv 90-128, imm_gen.sv 23-75).
THEOREM ImmediatesAsTheCoreAlways == ScoreboardSpec => []ImmediatesAsTheCore
<1>1. ScoreboardInv => ImmediatesAsTheCore
  <2> SUFFICES ASSUME ScoreboardInv PROVE ImmediatesAsTheCore
    OBVIOUS
  <2>1. PICK instr \in Instr, pc \in Data, wb_data \in Data : tx = Transaction(instr, pc, wb_data)
    BY DEF ScoreboardInv, TxIsTransaction
  <2>2. tx.opcode = instr.opcode /\ tx.imm = decode_immediate(instr, get_imm_type(instr.opcode))
    BY <2>1, TransactionFields
  <2>3. imm_gen(tx) = imm_gen(instr)
    <3>1. /\ tx.funct3 = instr.funct3 /\ tx.funct7 = instr.funct7
          /\ tx.rd = instr.rd /\ tx.rs1 = instr.rs1 /\ tx.rs2 = instr.rs2
      BY <2>1, TransactionFields
    <3>2. /\ ImmI(tx) = ImmI(instr) /\ ImmS(tx) = ImmS(instr) /\ ImmB(tx) = ImmB(instr)
          /\ ImmU(tx) = ImmU(instr) /\ ImmJ(tx) = ImmJ(instr)
      BY <3>1, SMT DEF ImmI, ImmS, ImmB, ImmU, ImmJ
    <3>3. QED
      BY <2>2, <3>2 DEF imm_gen
  <2>4. QED
    BY <2>2, <2>3, ImmediatesAgree DEF ImmediatesAsTheCore
<1>2. QED
  BY <1>1, ScoreboardInvAlways, PTL

LEMMA BackwardOffsetsAreNegative ==
  ASSUME NEW i \in Instr, SignOf(i) = 1
  PROVE  /\ ImmB(i) \in Int /\ -1048576 <= ImmB(i) /\ ImmB(i) < 0
         /\ ImmJ(i) \in Int /\ -1048576 <= ImmJ(i) /\ ImmJ(i) < 0
<1> DEFINE x == i.rd % 2
           y == i.funct7 % 64
           z == i.rd \div 2
           h == i.rs1 * 8 + i.funct3
           u == i.rs2 % 2
           w == i.rs2 \div 2
<1>1. /\ x \in 0 .. 1 /\ y \in 0 .. 63 /\ z \in 0 .. 15
      /\ h \in 0 .. 255 /\ u \in 0 .. 1 /\ w \in 0 .. 15
  BY FieldsAreNumbers, SMT
<1>2. ImmB(i) = (x * 2048 + y * 32 + z * 2) - 4096
  <2>1. ImmB(i) = (x * 2048 + y * 32 + z * 2) - SignOf(i) * 4096
    BY FormatBInNumbers
  <2> HIDE DEF x, y, z
  <2>2. QED
    BY <2>1, SMT
<1>3. ImmJ(i) = (h * 4096 + u * 2048 + (y * 16 + w) * 2) - 1048576
  <2>1. ImmJ(i) = (h * 4096 + u * 2048 + (y * 16 + w) * 2) - SignOf(i) * 1048576
    BY FormatJInNumbers
  <2> HIDE DEF h, u, w, y
  <2>2. QED
    BY <2>1, SMT
<1> HIDE DEF x, y, z, h, u, w
<1>4. QED
  BY <1>1, <1>2, <1>3, SMT

\* What ImmediatesAsTheCore leaves out: "Reconstruct the sign-extended immediate
\* value" (mem_monitor.sv 80) is not what the monitor does to a backward branch or
\* jal. Its two concatenations are one bit short of the word (mem_monitor.sv 109-123),
\* so the offset the core takes for negative the monitor takes for positive.
THEOREM BackwardOffsetsLoseTheirSign ==
  ASSUME NEW i \in Instr, i.opcode \in {"OP_BRANCH", "OP_JAL"}, SignOf(i) = 1,
         HalfRange >= 1048576
  PROVE  /\ imm_gen(i) >= HalfRange
         /\ decode_immediate(i, get_imm_type(i.opcode)) = imm_gen(i) - HalfRange
<1>1. HalfRange \in Nat \ {0} /\ DataSize = 2 * HalfRange
  BY PowersArePositive DEF DataSize
<1> DEFINE offset == IF i.opcode = "OP_BRANCH" THEN ImmB(i) ELSE ImmJ(i)
<1>2. imm_gen(i) = ToData(offset)
  BY SMT DEF imm_gen
<1>3. offset \in Int /\ -1048576 <= offset /\ offset < 0
  <2>1. /\ ImmB(i) \in Int /\ -1048576 <= ImmB(i) /\ ImmB(i) < 0
        /\ ImmJ(i) \in Int /\ -1048576 <= ImmJ(i) /\ ImmJ(i) < 0
    BY BackwardOffsetsAreNegative
  <2>2. CASE i.opcode = "OP_BRANCH"
    BY <2>1, <2>2
  <2>3. CASE i.opcode = "OP_JAL"
    BY <2>1, <2>3
  <2>4. QED
    BY <2>2, <2>3
<1> HIDE DEF offset
<1>4. imm_gen(i) = DataSize + offset
  BY <1>1, <1>2, <1>3, SMT DEF ToData
<1>5. decode_immediate(i, get_imm_type(i.opcode)) = imm_gen(i) % HalfRange
  BY ImmediatesAgree
<1>6. QED
  BY <1>1, <1>3, <1>4, <1>5, SMT
=============================================================================
