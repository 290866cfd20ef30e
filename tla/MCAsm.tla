------------------------------- MODULE MCAsm --------------------------------
(***************************************************************************)
(* An assembler for the model-checking instances: the instruction word of  *)
(* each mnemonic they use. An I-type immediate is imm_hi * 32 + its low    *)
(* five bits, which the encoding keeps in the rs2 field.                   *)
(***************************************************************************)
EXTENDS RiscvTypes

Word(op, rd, f3, rs1, rs2, f7) ==
  [opcode |-> op, rd |-> rd, funct3 |-> f3, rs1 |-> rs1, rs2 |-> rs2, funct7 |-> f7]

addi(rd, rs1, imm)  == Word("OP_I_TYPE", rd, F3_ADD_SUB, rs1, imm % 32, imm \div 32)
srai(rd, rs1, imm)  == Word("OP_I_TYPE", rd, F3_SRL_SRA, rs1, imm, F7_VARIANT)
add(rd, rs1, rs2)   == Word("OP_R_TYPE", rd, F3_ADD_SUB, rs1, rs2, F7_BASE)
sub(rd, rs1, rs2)   == Word("OP_R_TYPE", rd, F3_ADD_SUB, rs1, rs2, F7_VARIANT)
lw(rd, rs1, imm)    == Word("OP_LOAD", rd, 2, rs1, imm, F7_BASE)
sw(rs2, rs1, imm)   == Word("OP_STORE", imm, 2, rs1, rs2, F7_BASE)
auipc(rd)           == Word("OP_AUIPC", rd, 0, 0, 0, F7_BASE)
jal(rd)             == Word("OP_JAL", rd, 0, 0, 0, F7_BASE)
jalr(rd, rs1)       == Word("OP_JALR", rd, 0, rs1, 0, F7_BASE)
\* offset: an even number below 32
beq(rs1, rs2, offset) == Word("OP_BRANCH", offset, 0, rs1, rs2, F7_BASE)

nop == addi(0, 0, 0)

\* An instruction memory that starts with the words of code, then nops.
Load(code) ==
  [k \in 0 .. NUM_REGISTERS - 1 |-> IF k + 1 \in DOMAIN code THEN code[k + 1] ELSE nop]
=============================================================================
