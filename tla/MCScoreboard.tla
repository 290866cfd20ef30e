---------------------------- MODULE MCScoreboard ----------------------------
(***************************************************************************)
(* Words of 16 bits; three registers; forward and backward constants in    *)
(* every format, among them one whose upper bits are those of funct7's     *)
(* variant; a write to x0.                                                 *)
(***************************************************************************)
EXTENDS Scoreboard, MCAsm

MCWords ==
  { addi(1, 0, 5), addi(2, 1, 127 * 32 + 14), addi(1, 2, 32 * 32 + 1), addi(0, 1, 1),
    add(2, 1, 1), sub(1, 2, 1), srai(2, 2, 1), Word("OP_I_TYPE", 1, F3_SLT, 2, 3, 127),
    Word("OP_LUI", 1, 1, 15, 0, 64), Word("OP_AUIPC", 2, 7, 1, 0, 1),
    Word("OP_JAL", 1, 4, 3, 5, 96), jalr(2, 1), lw(1, 2, 4),
    Word("OP_STORE", 3, 2, 1, 2, 127), Word("OP_BRANCH", 9, 0, 1, 2, 65),
    Word("OP_BRANCH", 4, 0, 1, 2, 3), ZeroInstr }

\* The monitor "[r]econstruct[s] the sign-extended immediate value" of a branch
\* or jal (mem_monitor.sv:80) as imm_gen does (imm_gen.sv 37-64). But its
\* concatenations stop at bit 30 (mem_monitor.sv 110, 119): the sign is lost.
OffsetsKeepTheirSign == tx.opcode \in {"OP_BRANCH", "OP_JAL"} => tx.imm = imm_gen(tx)
=============================================================================
