------------------------------- MODULE Units --------------------------------
(***************************************************************************)
(* The combinational units on their own: an arithmetic instruction and two *)
(* operands, one of which changes at a time, as ports driven by a bench    *)
(* would. What the units compute is compared with integers, with one       *)
(* another, and with the scoreboard's arithmetic.                          *)
(***************************************************************************)
EXTENDS Decode, ExpectedArith

VARIABLES tx, op_a, op_b

unitVars == <<tx, op_a, op_b>>

ArithTx == [opcode : AluOpcodes, rd : {0}, funct3 : 0 .. 7, rs1 : {0}, rs2 : {0},
            funct7 : {F7_BASE, F7_VARIANT}]

UnitsInit == tx \in ArithTx /\ op_a = 0 /\ op_b = 0

DriveTx == tx' \in ArithTx /\ UNCHANGED <<op_a, op_b>>
DriveA  == op_a' \in Data /\ UNCHANGED <<tx, op_b>>
DriveB  == op_b' \in Data /\ UNCHANGED <<tx, op_a>>

UnitsNext == DriveTx \/ DriveA \/ DriveB

UnitsSpec == UnitsInit /\ [][UnitsNext]_unitVars

-----------------------------------------------------------------------------

SignedRange == -HalfRange .. HalfRange - 1

\* The overflow flag, computed from three sign bits, is raised exactly when
\* the sum or difference of the signed operands is not a word (alu.sv 41-64).
OverflowIsExact ==
  /\ alu_overflow("ALU_ADD", op_a, op_b) <=>
       Signed(op_a) + Signed(op_b) \notin SignedRange
  /\ alu_overflow("ALU_SUB", op_a, op_b) <=>
       Signed(op_a) - Signed(op_b) \notin SignedRange

\* The comparator and the ALU's flags after the subtraction cu.sv names for
\* branches agree on every comparison (bc.sv 30-43, alu.sv 61-64 and 94-98).
BranchesAgreeWithSubtraction ==
  LET less == alu_negative("ALU_SUB", op_a, op_b) # alu_overflow("ALU_SUB", op_a, op_b)
      zero == alu_zero("ALU_SUB", op_a, op_b)
      lessUnsigned == alu_result("ALU_SLTU", op_a, op_b) = AllOnes
  IN  /\ bc_taken("BC_BEQ", op_a, op_b) <=> zero
      /\ bc_taken("BC_BNE", op_a, op_b) <=> ~zero
      /\ bc_taken("BC_BLT", op_a, op_b) <=> less
      /\ bc_taken("BC_BGE", op_a, op_b) <=> ~less
      /\ bc_taken("BC_BLTU", op_a, op_b) <=> lessUnsigned
      /\ bc_taken("BC_BGEU", op_a, op_b) <=> ~lessUnsigned

\* The ALU's logic gives the word with the bits its operands share, have or
\* differ in: its every bit, read back by division, is what the operator makes
\* of the operands' bits there (alu.sv 67-69).
LogicIsBitwise ==
  LET conjunction == alu_result("ALU_AND", op_a, op_b)
      disjunction == alu_result("ALU_OR", op_a, op_b)
      difference  == alu_result("ALU_XOR", op_a, op_b)
  IN  /\ {conjunction, disjunction, difference} \subseteq Data
      /\ \A i \in BitIndices :
           /\ Bit(conjunction, i) = 1 <=> Bit(op_a, i) = 1 /\ Bit(op_b, i) = 1
           /\ Bit(disjunction, i) = 1 <=> Bit(op_a, i) = 1 \/ Bit(op_b, i) = 1
           /\ Bit(difference, i) = 1 <=> (Bit(op_a, i) = 1) # (Bit(op_b, i) = 1)

\* Decoded by the control unit and computed by the ALU, every arithmetic
\* instruction gives what the scoreboard computes from its funct3 and funct7,
\* except the two comparisons, which agree on zero and on nothing else
\* (cu.sv 48-81 and alu.sv 55-86 against core_scoreboard.sv 67-113).
AluAgreesWithScoreboard ==
  LET result   == alu_result(alu_ctrl(tx), op_a, op_b)
      expected == expected_arith(tx, op_a, op_b)
  IN  IF tx.funct3 \in {F3_SLT, F3_SLTU}
      THEN (result = 0) <=> (expected = 0)
      ELSE result = expected
=============================================================================
