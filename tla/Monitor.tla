------------------------------ MODULE Monitor -------------------------------
(***************************************************************************)
(* The monitor's decoder (dv/env/memory_agent/mem_monitor.sv 67-128): the  *)
(* transaction it makes of an instruction word on the memory bus. It has   *)
(* an immediate generator of its own, in which every format is a           *)
(* concatenation of sign bits and fields; those of B and J are one bit     *)
(* short of the word.                                                      *)
(*                                                                         *)
(* An immediate wider than DATA_WIDTH is cut, as in Decode.                *)
(***************************************************************************)
EXTENDS Decode

\* Register fields are five bits.
ASSUME FormatAssumption == NUM_REGISTERS <= 32

\* instr[SIGN_BIT], the top bit of funct7.
SignOf(i) == i.funct7 \div 64

\* {copies of the sign, low}, low being n bits, in a concatenation that has
\* room for that many numbers.
SignFilled(i, low, n, room) == (low - SignOf(i) * 2^n) % room

\* AUIPC taken for an opcode without a format.
GetImmTypeAuipcUnnamed(op) ==
  CASE op = "OP_STORE"  -> "IMM_S"
    [] op = "OP_BRANCH" -> "IMM_B"
    [] op = "OP_LUI"    -> "IMM_U"
    [] op = "OP_JAL"    -> "IMM_J"
    [] op \notin {"OP_STORE", "OP_BRANCH", "OP_LUI", "OP_JAL"} -> "IMM_I"

get_imm_type(op) ==
  CASE op = "OP_STORE"  -> "IMM_S"
    [] op = "OP_BRANCH" -> "IMM_B"
    [] op \in {"OP_LUI", "OP_AUIPC"} -> "IMM_U"
    [] op = "OP_JAL"    -> "IMM_J"
    [] op \in {"OP_I_TYPE", "OP_LOAD", "OP_JALR", "OP_R_TYPE", "OP_OTHER"} -> "IMM_I"

\* The U format left at 32 bits whatever the word.
DecodeImmediateUncut(i, kind) ==
  IF kind = "IMM_U"
  THEN ((i.funct7 - SignOf(i) * 128) * 2^13 + i.rs2 * 2^8 + i.rs1 * 2^3 + i.funct3) * 2^12
  ELSE SignFilled(i, i.funct7 * 32 + i.rs2, 12, DataSize)

\* A store's immediate taken from where a load has it.
DecodeImmediateSAsI(i, kind) ==
  IF kind = "IMM_U"
  THEN ToData(((i.funct7 - SignOf(i) * 128) * 2^13 + i.rs2 * 2^8 + i.rs1 * 2^3 + i.funct3) * 2^12)
  ELSE SignFilled(i, i.funct7 * 32 + i.rs2, 12, DataSize)

decode_immediate(i, kind) ==
  CASE kind = "IMM_I" -> SignFilled(i, i.funct7 * 32 + i.rs2, 12, DataSize)
    [] kind = "IMM_S" -> SignFilled(i, i.funct7 * 32 + i.rd, 12, DataSize)
    [] kind = "IMM_B" ->
         SignFilled(i, (i.rd % 2) * 2048 + (i.funct7 % 64) * 32 + (i.rd \div 2) * 2, 12, HalfRange)
    [] kind = "IMM_U" ->
         ToData(((i.funct7 - SignOf(i) * 128) * 2^13 + i.rs2 * 2^8 + i.rs1 * 2^3 + i.funct3) * 2^12)
    [] kind = "IMM_J" ->
         SignFilled(i, (i.rs1 * 8 + i.funct3) * 2^12 + (i.rs2 % 2) * 2^11
                         + ((i.funct7 % 64) * 16 + i.rs2 \div 2) * 2, 20, HalfRange)

\* collect_transaction of a valid word. pc and wb_data are fields it does not
\* assign: they are whatever they are.
Transaction(instr, pc, wb_data) ==
  [opcode |-> instr.opcode, funct3 |-> instr.funct3, funct7 |-> instr.funct7,
   rd |-> instr.rd, rs1 |-> instr.rs1, rs2 |-> instr.rs2,
   imm |-> decode_immediate(instr, get_imm_type(instr.opcode)),
   pc |-> pc, wb_data |-> wb_data]
=============================================================================
