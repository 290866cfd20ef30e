---------------------------- MODULE ExpectedArith ----------------------------
(***************************************************************************)
(* The arithmetic of the scoreboard (dv/env/core_scoreboard.sv 67-113),    *)
(* written from the instruction set and apart from the ALU's.              *)
(***************************************************************************)
EXTENDS Execute

\* The arithmetic of an R-type or I-type transaction on its two operands.
expected_arith(tx, a, b) ==
  LET variant == tx.funct7 = F7_VARIANT
  IN  CASE tx.funct3 = F3_ADD_SUB ->
             IF variant /\ tx.opcode = "OP_R_TYPE" THEN ToData(a - b) ELSE ToData(a + b)
        [] tx.funct3 = F3_SLL     -> ShiftLeft(a, Shamt(b))
        [] tx.funct3 = F3_SLT     -> IF Signed(a) < Signed(b) THEN 1 ELSE 0
        [] tx.funct3 = F3_SLTU    -> IF a < b THEN 1 ELSE 0
        [] tx.funct3 = F3_XOR     -> XorWord(a, b)
        [] tx.funct3 = F3_SRL_SRA ->
             IF variant THEN ShiftRightArith(a, Shamt(b)) ELSE ShiftRightLogic(a, Shamt(b))
        [] tx.funct3 = F3_OR      -> OrWord(a, b)
        [] tx.funct3 = F3_AND     -> AndWord(a, b)
=============================================================================
