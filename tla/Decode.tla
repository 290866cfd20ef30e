------------------------------- MODULE Decode -------------------------------
(***************************************************************************)
(* The combinational units of the ID stage: the control unit               *)
(* (rtl/id/cu/cu.sv), the immediate generator (rtl/id/imm_gen/imm_gen.sv), *)
(* the hazard detection unit (rtl/id/hdu/hdu.sv) and the two ports of the  *)
(* register file (rtl/id/rf/rf.sv).                                        *)
(***************************************************************************)
EXTENDS RiscvTypes

(***************************************************************************)
(* cu. Every control signal is a function of the instruction; an opcode    *)
(* the unit does not know raises none of them.                             *)
(***************************************************************************)
AluOpcodes == {"OP_R_TYPE", "OP_I_TYPE"}

\* The operation an arithmetic instruction's funct3 (and funct7) name.
FunctAlu(instr) ==
  LET variant == instr.funct7 = F7_VARIANT
      is_r    == instr.opcode = "OP_R_TYPE"
  IN  CASE instr.funct3 = F3_ADD_SUB -> IF variant /\ is_r THEN "ALU_SUB" ELSE "ALU_ADD"
        [] instr.funct3 = F3_SRL_SRA -> IF variant THEN "ALU_SRA" ELSE "ALU_SRL"
        [] instr.funct3 = F3_SLL     -> "ALU_SLL"
        [] instr.funct3 = F3_SLT     -> "ALU_SLT"
        [] instr.funct3 = F3_SLTU    -> "ALU_SLTU"
        [] instr.funct3 = F3_XOR     -> "ALU_XOR"
        [] instr.funct3 = F3_OR      -> "ALU_OR"
        [] instr.funct3 = F3_AND     -> "ALU_AND"

\* funct7 looked at for R-type only: srai decoded as srli.
FunctAluVariantRTypeOnly(instr) ==
  IF instr.opcode = "OP_I_TYPE" /\ instr.funct3 = F3_SRL_SRA
  THEN "ALU_SRL" ELSE FunctAlu(instr)

alu_ctrl(instr) ==
  CASE instr.opcode \in AluOpcodes -> FunctAlu(instr)
    [] instr.opcode = "OP_BRANCH"  ->
         IF instr.funct3 \in {F3_SLT, F3_SLTU} THEN "ALU_SLT" ELSE "ALU_SUB"
    [] instr.opcode = "OP_LUI"     -> "ALU_COPY_B"
    [] instr.opcode \notin AluOpcodes \cup {"OP_BRANCH", "OP_LUI"} -> "ALU_ADD"

\* Operand B is the immediate.
alu_src(instr) ==
  instr.opcode \in {"OP_I_TYPE", "OP_LOAD", "OP_STORE", "OP_JALR", "OP_LUI", "OP_AUIPC"}

reg_we(instr) ==
  instr.opcode \in {"OP_R_TYPE", "OP_I_TYPE", "OP_LOAD", "OP_JAL", "OP_JALR",
                    "OP_LUI", "OP_AUIPC"}

mem_to_reg(instr) == instr.opcode = "OP_LOAD"
mem_we(instr)     == instr.opcode = "OP_STORE"
branch(instr)     == instr.opcode = "OP_BRANCH"
jump(instr)       == instr.opcode \in {"OP_JAL", "OP_JALR"}

-----------------------------------------------------------------------------
(* imm_gen: the fields put together as the formats do, sign-extended and    *)
(* cut to a word. Fields are 5 bits (registers), 3 (funct3) and 7 (funct7). *)

SignExtend(bits, n) == IF n >= 2^(bits - 1) THEN n - 2^bits ELSE n

ImmI(i) == SignExtend(12, i.funct7 * 32 + i.rs2)
ImmS(i) == SignExtend(12, i.funct7 * 32 + i.rd)
ImmB(i) == SignExtend(13, (i.funct7 \div 64) * 4096 + (i.rd % 2) * 2048
                            + (i.funct7 % 64) * 32 + (i.rd \div 2) * 2)
ImmU(i) == SignExtend(7, i.funct7) * 2^25
             + i.rs2 * 2^20 + i.rs1 * 2^15 + i.funct3 * 2^12
ImmJ(i) == SignExtend(21, (i.funct7 \div 64) * 2^20 + (i.rs1 * 8 + i.funct3) * 2^12
                            + (i.rs2 % 2) * 2^11
                            + ((i.funct7 % 64) * 16 + i.rs2 \div 2) * 2)

imm_gen(instr) ==
  ToData(CASE instr.opcode = "OP_STORE"  -> ImmS(instr)
           [] instr.opcode = "OP_BRANCH" -> ImmB(instr)
           [] instr.opcode \in {"OP_LUI", "OP_AUIPC"} -> ImmU(instr)
           [] instr.opcode = "OP_JAL"    -> ImmJ(instr)
           [] instr.opcode = "OP_R_TYPE" -> 0
           [] instr.opcode \in {"OP_I_TYPE", "OP_LOAD", "OP_JALR", "OP_OTHER"}
                -> ImmI(instr))

-----------------------------------------------------------------------------
(* hdu: a load in EX whose destination the instruction in ID names in       *)
(* either source field, whether or not it reads it.                         *)

hdu_stall_o(mem_read_ex, rd_addr_ex, rs1_addr_id, rs2_addr_id) ==
  /\ mem_read_ex
  /\ rd_addr_ex # REG_ZERO
  /\ rd_addr_ex \in {rs1_addr_id, rs2_addr_id}

-----------------------------------------------------------------------------
(* rf: asynchronous reads in which x0 is zero, one synchronous write that   *)
(* x0 ignores. A read does not see the write of its own cycle.              *)

RegisterFile == [RegAddr -> Data]

rf_read(regs, addr) == IF addr = REG_ZERO THEN 0 ELSE regs[addr]

\* A write port that does not look at its address.
RfWriteX0(regs, we, addr, data) ==
  IF we THEN [regs EXCEPT ![addr] = data] ELSE regs

rf_write(regs, we, addr, data) ==
  IF we /\ addr # REG_ZERO THEN [regs EXCEPT ![addr] = data] ELSE regs

-----------------------------------------------------------------------------
(* id_stage: the two operands handed to EX.                                 *)

operand_a(instr, pc, regs) ==
  IF instr.opcode = "OP_AUIPC" THEN pc ELSE rf_read(regs, instr.rs1)

operand_b(instr, regs) ==
  IF alu_src(instr) THEN imm_gen(instr) ELSE rf_read(regs, instr.rs2)
=============================================================================
