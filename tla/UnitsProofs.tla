----------------------------- MODULE UnitsProofs -----------------------------
(***************************************************************************)
(* What the combinational units compute: the ALU's flags, the branch       *)
(* comparator and the arithmetic instructions at every word width, and the *)
(* load-store unit for every set of byte values.                           *)
(***************************************************************************)
EXTENDS Units, LoadStore, ExecuteProofs

-----------------------------------------------------------------------------
(* Words as integers. Addition and subtraction are cut by one turn at most, *)
(* so the sign of a result is decided by the signs of its operands.         *)

WordsDriven == op_a \in Data /\ op_b \in Data /\ tx \in ArithTx

LEMMA WordsDrivenAlways == UnitsSpec => []WordsDriven
<1>1. UnitsInit => WordsDriven
  BY ZeroIsData DEF UnitsInit, WordsDriven
<1>2. WordsDriven /\ [UnitsNext]_unitVars => WordsDriven'
  BY DEF WordsDriven, UnitsNext, DriveTx, DriveA, DriveB, unitVars
<1>3. QED
  BY <1>1, <1>2, PTL DEF UnitsSpec

LEMMA SumAndDifference ==
  ASSUME NEW a \in Data, NEW b \in Data
  PROVE  /\ a \in 0 .. DataSize - 1 /\ b \in 0 .. DataSize - 1
         /\ HalfRange \in Nat \ {0} /\ DataSize = 2 * HalfRange
         /\ ToData(a + b) = IF a + b < DataSize THEN a + b ELSE a + b - DataSize
         /\ ToData(a - b) = IF a - b < 0 THEN a - b + DataSize ELSE a - b
<1>1. HalfRange \in Nat \ {0} /\ DataSize = 2 * HalfRange
  BY PowersArePositive DEF DataSize
<1>2. a \in 0 .. DataSize - 1 /\ b \in 0 .. DataSize - 1
  BY DEF Data
<1>3. /\ a + b \in -DataSize .. 2 * DataSize - 1 /\ a - b \in -DataSize .. 2 * DataSize - 1
      /\ a + b >= 0 /\ a - b < DataSize
  BY <1>1, <1>2
<1>4. QED
  BY <1>1, <1>2, <1>3, ToDataOneTurn

LEMMA OverflowOfWords ==
  ASSUME NEW a \in Data, NEW b \in Data
  PROVE  /\ alu_overflow("ALU_ADD", a, b) <=> Signed(a) + Signed(b) \notin SignedRange
         /\ alu_overflow("ALU_SUB", a, b) <=> Signed(a) - Signed(b) \notin SignedRange
<1>1. /\ alu_result("ALU_ADD", a, b) = ToData(a + b)
      /\ alu_result("ALU_SUB", a, b) = ToData(a - b)
  BY DEF alu_result
<1>2. QED
  BY <1>1, SumAndDifference DEF alu_overflow, MsbOf, Signed, SignedRange

\* The overflow flag is exact at every width (alu.sv 41-64).
THEOREM OverflowIsExactAlways == UnitsSpec => []OverflowIsExact
<1>1. WordsDriven => OverflowIsExact
  BY OverflowOfWords DEF WordsDriven, OverflowIsExact
<1>2. QED
  BY <1>1, WordsDrivenAlways, PTL

\* Less than is sign against overflow of the difference, equal is its zero: the
\* comparator and the ALU cannot disagree on a branch, at any width (bc.sv
\* 30-43, alu.sv 61-64 and 94-98).
LEMMA ComparisonsOfWords ==
  ASSUME NEW a \in Data, NEW b \in Data
  PROVE  /\ Signed(a) < Signed(b)
               <=> (alu_negative("ALU_SUB", a, b) # alu_overflow("ALU_SUB", a, b))
         /\ a = b <=> alu_zero("ALU_SUB", a, b)
         /\ a < b <=> alu_result("ALU_SLTU", a, b) = AllOnes
<1>1. /\ alu_result("ALU_SUB", a, b) = ToData(a - b)
      /\ alu_result("ALU_SLTU", a, b) = IF a < b THEN AllOnes ELSE 0
  BY DEF alu_result
<1>2. a < b <=> alu_result("ALU_SLTU", a, b) = AllOnes
  BY <1>1, SumAndDifference DEF AllOnes
<1>3. a = b <=> alu_zero("ALU_SUB", a, b)
  BY <1>1, SumAndDifference DEF alu_zero
<1>4. alu_overflow("ALU_SUB", a, b)
        <=> MsbOf(a) # MsbOf(b) /\ MsbOf(ToData(a - b)) # MsbOf(a)
  BY <1>1 DEF alu_overflow
<1>5. Signed(a) < Signed(b)
        <=> (alu_negative("ALU_SUB", a, b) # alu_overflow("ALU_SUB", a, b))
  <2> DEFINE d == ToData(a - b)
  <2>1. alu_negative("ALU_SUB", a, b) <=> d >= HalfRange
    BY <1>1 DEF alu_negative, MsbOf
  <2>2. alu_overflow("ALU_SUB", a, b)
          <=> ~(a >= HalfRange <=> b >= HalfRange) /\ ~(d >= HalfRange <=> a >= HalfRange)
    BY <1>4 DEF MsbOf
  <2>3. Signed(a) < Signed(b)
          <=> ~((d >= HalfRange)
                  <=> ~(a >= HalfRange <=> b >= HalfRange) /\ ~(d >= HalfRange <=> a >= HalfRange))
    BY SumAndDifference DEF Signed
  <2>4. alu_negative("ALU_SUB", a, b) \in BOOLEAN /\ alu_overflow("ALU_SUB", a, b) \in BOOLEAN
    BY DEF alu_negative, alu_overflow, MsbOf
  <2>5. QED
    BY <2>1, <2>2, <2>3, <2>4
<1>6. QED
  BY <1>2, <1>3, <1>5

\* The branch comparator and the flags of the subtraction cu.sv names for
\* branches never disagree, at any width (bc.sv 30-43, alu.sv 61-64, 94-98).
THEOREM BranchesAgreeWithSubtractionAlways == UnitsSpec => []BranchesAgreeWithSubtraction
<1>1. WordsDriven => BranchesAgreeWithSubtraction
  <2> SUFFICES ASSUME WordsDriven PROVE BranchesAgreeWithSubtraction
    OBVIOUS
  <2>1. /\ op_a \in Data /\ op_b \in Data
        /\ Signed(op_a) \in Int /\ Signed(op_b) \in Int /\ op_a \in Int /\ op_b \in Int
    BY SignedIsInt, DataIsNat DEF WordsDriven
  <2>2. /\ bc_taken("BC_BEQ", op_a, op_b) <=> op_a = op_b
        /\ bc_taken("BC_BNE", op_a, op_b) <=> ~(op_a = op_b)
        /\ bc_taken("BC_BLT", op_a, op_b) <=> Signed(op_a) < Signed(op_b)
        /\ bc_taken("BC_BGE", op_a, op_b) <=> ~(Signed(op_a) < Signed(op_b))
        /\ bc_taken("BC_BLTU", op_a, op_b) <=> op_a < op_b
        /\ bc_taken("BC_BGEU", op_a, op_b) <=> ~(op_a < op_b)
    BY <2>1 DEF bc_taken
  <2>3. QED
    BY <2>1, <2>2, ComparisonsOfWords DEF BranchesAgreeWithSubtraction
<1>2. QED
  BY <1>1, WordsDrivenAlways, PTL

LEMMA BitIsBinary == ASSUME NEW x \in Data, NEW i \in BitIndices PROVE Bit(x, i) \in {0, 1}
<1>1. i \in Nat /\ x \in Int
  BY DataIsNat DEF BitIndices
<1>2. 2^i \in Nat \ {0}
  BY <1>1, PowerCountsSets
<1>3. x \div 2^i \in Int
  BY <1>1, <1>2
<1>4. QED
  BY <1>3 DEF Bit

LEMMA LogicOfWords ==
  ASSUME NEW a \in Data, NEW b \in Data, NEW i \in BitIndices
  PROVE  /\ Bit(AndWord(a, b), i) = 1 <=> Bit(a, i) = 1 /\ Bit(b, i) = 1
         /\ Bit(OrWord(a, b), i) = 1 <=> Bit(a, i) = 1 \/ Bit(b, i) = 1
         /\ Bit(XorWord(a, b), i) = 1 <=> Bit(a, i) # Bit(b, i)
<1> DEFINE shared  == {j \in BitIndices : Bit(a, j) = 1 /\ Bit(b, j) = 1}
           had     == {j \in BitIndices : Bit(a, j) = 1 \/ Bit(b, j) = 1}
           differ  == {j \in BitIndices : Bit(a, j) # Bit(b, j)}
<1>1. AndWord(a, b) = WordOf(shared) /\ OrWord(a, b) = WordOf(had) /\ XorWord(a, b) = WordOf(differ)
  BY DEF AndWord, OrWord, XorWord
<1>2. /\ i \in shared <=> Bit(a, i) = 1 /\ Bit(b, i) = 1
      /\ i \in had <=> Bit(a, i) = 1 \/ Bit(b, i) = 1
      /\ i \in differ <=> Bit(a, i) # Bit(b, i)
  OBVIOUS
<1>3. shared \in SUBSET BitIndices /\ had \in SUBSET BitIndices /\ differ \in SUBSET BitIndices
  OBVIOUS
<1> HIDE DEF shared, had, differ
<1>4. /\ Bit(WordOf(shared), i) = 1 <=> i \in shared
      /\ Bit(WordOf(had), i) = 1 <=> i \in had
      /\ Bit(WordOf(differ), i) = 1 <=> i \in differ
  BY <1>3, WordOfBits
<1>5. QED
  BY <1>1, <1>2, <1>4

\* The ALU's logic is that of the bits at every width: the words counted for
\* sets of bits have those bits and no others (alu.sv 67-69).
THEOREM LogicIsBitwiseAlways == UnitsSpec => []LogicIsBitwise
<1>1. WordsDriven => LogicIsBitwise
  <2> SUFFICES ASSUME WordsDriven PROVE LogicIsBitwise
    OBVIOUS
  <2>1. op_a \in Data /\ op_b \in Data
    BY DEF WordsDriven
  <2>2. /\ alu_result("ALU_AND", op_a, op_b) = AndWord(op_a, op_b)
        /\ alu_result("ALU_OR", op_a, op_b) = OrWord(op_a, op_b)
        /\ alu_result("ALU_XOR", op_a, op_b) = XorWord(op_a, op_b)
    BY DEF alu_result
  <2>3. {AndWord(op_a, op_b), OrWord(op_a, op_b), XorWord(op_a, op_b)} \subseteq Data
    BY WordOfIsWord DEF AndWord, OrWord, XorWord
  <2>4. ASSUME NEW i \in BitIndices
        PROVE  Bit(op_a, i) # Bit(op_b, i) <=> (Bit(op_a, i) = 1) # (Bit(op_b, i) = 1)
    BY <2>1, BitIsBinary
  <2>5. QED
    BY <2>1, <2>2, <2>3, <2>4, LogicOfWords DEF LogicIsBitwise
<1>2. QED
  BY <1>1, WordsDrivenAlways, PTL

\* Every arithmetic instruction computes what the scoreboard computes from its
\* funct3 and funct7, at every width, but for the value a true comparison sets
\* (cu.sv 48-81 and alu.sv 55-86 against core_scoreboard.sv 67-113).
THEOREM AluAgreesWithScoreboardAlways == UnitsSpec => []AluAgreesWithScoreboard
<1>1. WordsDriven => AluAgreesWithScoreboard
  <2> SUFFICES ASSUME WordsDriven PROVE AluAgreesWithScoreboard
    OBVIOUS
  <2>1. tx.opcode \in AluOpcodes /\ tx.funct3 \in 0 .. 7
    BY DEF WordsDriven, ArithTx
  <2>2. QED
    BY <2>1, ArithmeticInstructions DEF AluAgreesWithScoreboard
<1>2. QED
  BY <1>1, WordsDrivenAlways, PTL

-----------------------------------------------------------------------------
(* The load-store unit.                                                     *)

LEMMA SizesOfOps == ASSUME NEW op \in LsuOps PROVE Size(op) \in {1, 2, 4}
BY DEF LsuOps, ByteOps, HalfOps, Size

LEMMA OffsetPower == 2^OFFSET_WIDTH = 4
BY PowerValues DEF OFFSET_WIDTH

LEMMA OffsetsAndLanes == Offsets = 0 .. 3 /\ Lanes = 0 .. 3
BY OffsetPower DEF Offsets, Lanes, BYTES_PER_WORD

\* No shift amount is left of an eight cut to two bits (lsu.sv 31-34).
LEMMA NothingIsShifted ==
  ASSUME NEW offset \in Int
  PROVE  ShiftLanes(offset) = 0
<1>1. byte_val = 0
  BY OffsetPower DEF byte_val
<1>2. QED
  BY <1>1, OffsetPower DEF ShiftLanes

LEMMA ShiftByNothing ==
  ASSUME NEW S, NEW word \in [Lanes -> S]
  PROVE  ShiftUp(word, 0) = word /\ ShiftDown(word, 0) = word
<1>1. \A l \in Lanes : l - 0 = l /\ l + 0 = l
  BY OffsetsAndLanes
<1>2. QED
  BY <1>1 DEF ShiftUp, ShiftDown

\* What a store drives is its data, whatever the offset (lsu.sv 60-62).
LEMMA StoreDrivesItsData ==
  ASSUME NEW op \in LsuOps, NEW offset \in Offsets, NEW wdata \in Word
  PROVE  mem_wdata_o(op, offset, wdata) = wdata
<1>1. LaneOffset(op, offset) \in Int
  BY OffsetsAndLanes, SizesOfOps DEF LaneOffset
<1>2. QED
  BY <1>1, NothingIsShifted, ShiftByNothing DEF mem_wdata_o, Word

\* An extension looks at the operand's own lanes only.
LEMMA ExtendSeesOperand ==
  ASSUME NEW v, NEW w, NEW n \in {1, 2, 4}, NEW signed, \A l \in Lanes : l < n => v[l] = w[l]
  PROVE  Extend(v, n, signed) = Extend(w, n, signed)
<1>1. v[n - 1] = w[n - 1]
  BY OffsetsAndLanes
<1>2. QED
  BY <1>1 DEF Extend

-----------------------------------------------------------------------------

LoadStoreInv == mem \in Word /\ StoredAtBaseReadsBack

LEMMA StoreReadsBack ==
  ASSUME mem \in Word, NEW op \in LsuOps, NEW offset \in Offsets, NEW wdata \in Word,
         StoreAccess(op, offset, wdata)
  PROVE  LoadStoreInv'
<1>1. mem' = [l \in Lanes |-> IF l \in mem_be_o(op, offset) THEN wdata[l] ELSE mem[l]]
  BY StoreDrivesItsData DEF StoreAccess
<1>2. mem' \in Word
  BY <1>1 DEF Word
<1>3. stored'.op = op /\ stored'.offset = offset /\ stored'.wdata = wdata
  BY DEF StoreAccess
<1>4. ASSUME LaneOffset(op, offset) = 0 PROVE ReadsBack(stored)'
  <2>1. \A l \in Lanes : l < Size(op) => mem'[l] = wdata[l]
    BY <1>1, <1>4, OffsetsAndLanes, SizesOfOps DEF mem_be_o
  <2>2. ShiftDown(mem', ShiftLanes(offset)) = mem'
    BY <1>2, OffsetsAndLanes, NothingIsShifted, ShiftByNothing DEF Word
  <2>3. lsu_rdata_o(op, offset, mem')
          = Extend(wdata, Size(op), op \in {"LSU_BYTE", "LSU_HALF"})
    BY <2>1, <2>2, SizesOfOps, ExtendSeesOperand DEF lsu_rdata_o
  <2>4. QED
    BY <2>3, <1>3 DEF ReadsBack
<1>5. QED
  BY <1>2, <1>3, <1>4 DEF LoadStoreInv, StoredAtBaseReadsBack

\* A load from the base of the word returns what a store of its kind left there
\* (lsu.sv 39-95).
THEOREM StoredAtBaseReadsBackAlways == LoadStoreSpec => []StoredAtBaseReadsBack
<1>1. LoadStoreInit => LoadStoreInv
  BY DEF LoadStoreInit, LoadStoreInv, StoredAtBaseReadsBack
<1>2. LoadStoreInv /\ [LoadStoreNext]_lsuVars => LoadStoreInv'
  <2> SUFFICES ASSUME LoadStoreInv, [LoadStoreNext]_lsuVars PROVE LoadStoreInv'
    OBVIOUS
  <2>1. CASE LoadStoreNext
    BY <2>1, StoreReadsBack DEF LoadStoreNext, LoadStoreInv
  <2>2. CASE UNCHANGED lsuVars
    BY <2>2 DEF lsuVars, LoadStoreInv, StoredAtBaseReadsBack, ReadsBack
  <2>3. QED
    BY <2>1, <2>2
<1>3. LoadStoreInv => StoredAtBaseReadsBack
  BY DEF LoadStoreInv
<1>4. QED
  BY <1>1, <1>2, <1>3, PTL DEF LoadStoreSpec

\* No store reaches past its naturally aligned unit (lsu.sv 45-58).
THEOREM StoresStayInTheirUnitAlways == LoadStoreSpec => StoresStayInTheirUnit
<1>1. ASSUME NEW op \in LsuOps, NEW offset \in Offsets, NEW wdata \in Word,
             StoreAccess(op, offset, wdata), NEW l \in Lanes, mem'[l] # mem[l]
      PROVE  l \div Size(stored'.op) = stored'.offset \div Size(stored'.op)
  <2>1. l \in mem_be_o(op, offset)
    BY <1>1 DEF StoreAccess
  <2>2. stored'.op = op /\ stored'.offset = offset
    BY <1>1 DEF StoreAccess
  <2>3. Size(op) \in {1, 2, 4} /\ offset \in 0 .. 3 /\ l \in 0 .. 3
    BY SizesOfOps, OffsetsAndLanes
  <2>4. offset - (offset % Size(op)) <= l /\ l < offset - (offset % Size(op)) + Size(op)
    BY <2>1 DEF mem_be_o, LaneOffset
  <2>5. l \div Size(op) = offset \div Size(op)
    BY <2>3, <2>4
  <2>6. QED
    BY <2>2, <2>5
<1>2. LoadStoreNext =>
        \A l \in Lanes :
          mem'[l] # mem[l] => l \div Size(stored'.op) = stored'.offset \div Size(stored'.op)
  BY <1>1 DEF LoadStoreNext
<1>3. QED
  BY <1>2, PTL DEF LoadStoreSpec, StoresStayInTheirUnit
=============================================================================
