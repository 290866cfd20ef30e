------------------------------ MODULE Execute -------------------------------
(***************************************************************************)
(* The combinational units of the EX stage: the ALU (rtl/ex/alu/alu.sv),   *)
(* the branch comparator (rtl/ex/bc/bc.sv), the address generator          *)
(* (rtl/ex/agu/agu.sv) and the forwarding unit with the operand            *)
(* multiplexers of rtl/ex/ex_stage.sv. They hold no state: each is a       *)
(* function of its input ports.                                            *)
(***************************************************************************)
EXTENDS RiscvTypes, FiniteSets

Bit(x, i)   == (x \div 2^i) % 2
MsbOf(x)    == x >= HalfRange                     \* x[DATA_WIDTH-1]
AllOnes     == DataSize - 1                       \* '1
Shamt(x)    == x % NUM_REGISTERS                  \* x[DATA_WIDTH_BITS-1:0]
BitIndices  == 0 .. DATA_WIDTH - 1

\* The word whose set bits are bits. Bit i weighs 2^i, as many numbers as
\* have it as their leading bit: counting those adds the weights up.
LeadingBit(n, i) == 2^i <= n /\ n < 2^(i + 1)
WordOf(bits)     ==
  Cardinality({n \in 1 .. DataSize - 1 : \E i \in bits : LeadingBit(n, i)})

AndWord(a, b) == WordOf({i \in BitIndices : Bit(a, i) = 1 /\ Bit(b, i) = 1})
OrWord(a, b)  == WordOf({i \in BitIndices : Bit(a, i) = 1 \/ Bit(b, i) = 1})

\* The exclusive or that forgets to exclude.
XorAsOr(a, b) == WordOf({i \in BitIndices : Bit(a, i) + Bit(b, i) >= 1})

XorWord(a, b) == WordOf({i \in BitIndices : Bit(a, i) # Bit(b, i)})

ShiftLeft(a, n)       == ToData(a * 2^n)
ShiftRightLogic(a, n) == a \div 2^n
ShiftRightArith(a, n) == ToData(Signed(a) \div 2^n)

(***************************************************************************)
(* alu: the result, and the flags (which core_top leaves unconnected).     *)
(* A comparison that holds sets every bit of the result.                   *)
(***************************************************************************)
alu_result(ctrl, a, b) ==
  CASE ctrl = "ALU_ADD"    -> ToData(a + b)
    [] ctrl = "ALU_SUB"    -> ToData(a - b)
    [] ctrl = "ALU_AND"    -> AndWord(a, b)
    [] ctrl = "ALU_OR"     -> OrWord(a, b)
    [] ctrl = "ALU_XOR"    -> XorWord(a, b)
    [] ctrl = "ALU_SLL"    -> ShiftLeft(a, Shamt(b))
    [] ctrl = "ALU_SRL"    -> ShiftRightLogic(a, Shamt(b))
    [] ctrl = "ALU_SRA"    -> ShiftRightArith(a, Shamt(b))
    [] ctrl = "ALU_SLT"    -> IF Signed(a) < Signed(b) THEN AllOnes ELSE 0
    [] ctrl = "ALU_SLTU"   -> IF a < b THEN AllOnes ELSE 0
    [] ctrl = "ALU_COPY_B" -> b

alu_zero(ctrl, a, b)     == alu_result(ctrl, a, b) = 0
alu_negative(ctrl, a, b) == MsbOf(alu_result(ctrl, a, b))

\* sub_overflow with add_overflow's test of the operand signs.
AluOverflowSameSigns(ctrl, a, b) ==
  /\ ctrl \in {"ALU_ADD", "ALU_SUB"}
  /\ MsbOf(a) = MsbOf(b)
  /\ MsbOf(alu_result(ctrl, a, b)) # MsbOf(a)

alu_overflow(ctrl, a, b) ==
  /\ \/ ctrl = "ALU_ADD" /\ MsbOf(a) = MsbOf(b)
     \/ ctrl = "ALU_SUB" /\ MsbOf(a) # MsbOf(b)
  /\ MsbOf(alu_result(ctrl, a, b)) # MsbOf(a)

-----------------------------------------------------------------------------
(* bc: the comparison a branch's funct3 names.                              *)

BcCtrl == {"BC_BEQ", "BC_BNE", "BC_BLT", "BC_BGE", "BC_BLTU", "BC_BGEU"}

\* The signed comparison done on unsigned words.
BcTakenUnsigned(ctrl, a, b) ==
  CASE ctrl = "BC_BEQ" -> a = b
    [] ctrl = "BC_BNE" -> a # b
    [] ctrl \in {"BC_BLT", "BC_BLTU"} -> a < b
    [] ctrl \in {"BC_BGE", "BC_BGEU"} -> a >= b

bc_taken(ctrl, a, b) ==
  CASE ctrl = "BC_BEQ"  -> a = b
    [] ctrl = "BC_BNE"  -> a # b
    [] ctrl = "BC_BLT"  -> Signed(a) < Signed(b)
    [] ctrl = "BC_BGE"  -> Signed(a) >= Signed(b)
    [] ctrl = "BC_BLTU" -> a < b
    [] ctrl = "BC_BGEU" -> a >= b

-----------------------------------------------------------------------------
(* agu: base + offset with the low ALIGN_WIDTH = 1 bit cleared.             *)

\* The low bit left as the sum has it.
AguUnaligned(pc, imm, op_a, jalr_sel) ==
  ToData((IF jalr_sel THEN op_a ELSE pc) + imm)

agu_target(pc, imm, op_a, jalr_sel) ==
  LET sum == ToData((IF jalr_sel THEN op_a ELSE pc) + imm)
  IN  sum - (sum % 2)

-----------------------------------------------------------------------------
(* fwd and the operand multiplexers. A write port is the destination and    *)
(* the write enable of a pipeline register downstream of EX.                *)

compute_fwd_ctrl(op_addr, rd_mem, we_mem, rd_wb, we_wb) ==
  IF we_mem /\ rd_mem # REG_ZERO /\ rd_mem = op_addr THEN "FWD_MEM"
  ELSE IF we_wb /\ rd_wb # REG_ZERO /\ rd_wb = op_addr THEN "FWD_WB"
  ELSE "FWD_ID_EX"

compute_mux_fwd_ctrl(sel, alu_result_mem, wb_data, op) ==
  CASE sel = "FWD_MEM"   -> alu_result_mem
    [] sel = "FWD_WB"    -> wb_data
    [] sel = "FWD_ID_EX" -> op
=============================================================================
