-------------------------------- MODULE Core --------------------------------
(***************************************************************************)
(* The five-stage pipeline (rtl/core_top.sv): the fetch stage of IfStage,  *)
(* the four pipeline registers of rtl/pr and the register file, wired as   *)
(* core_top wires them.                                                    *)
(*                                                                         *)
(* A step is one rising edge of clk_i: every register takes, at once, the  *)
(* value its inputs have in the current state. Reset is the asynchronous   *)
(* reset, which may come at any time.                                      *)
(*                                                                         *)
(* The instruction memory holds one program that never changes and answers *)
(* in the cycle it is asked, with the address decoding of                  *)
(* rtl/if/imem/imem.sv; the data memory answers every read with a value of *)
(* DmemData.                                                               *)
(***************************************************************************)
EXTENDS IfStage, Decode, Execute

CONSTANTS
  Programs,   \* the instruction memories the core may be started on
  DmemData    \* the words the data memory may answer with

Imem == [0 .. NUM_REGISTERS - 1 -> Instr]   \* the words imem.sv can address

ASSUME ProgramsAssumption == Programs \subseteq Imem
ASSUME DmemDataAssumption == DmemData \subseteq Data /\ DmemData # {}

VARIABLES
  imem,     \* the program
  if_id,    \* u_pr_if_id
  rf,       \* u_id_stage.u_rf.rf_reg
  id_ex,    \* u_pr_id_ex
  ex_mem,   \* u_pr_ex_mem
  mem_wb    \* u_pr_mem_wb

pipeVars == <<if_id, rf, id_ex, ex_mem, mem_wb>>
coreVars == <<imem, ifVars, pipeVars>>

\* The word index taken one bit too low.
FetchByteIndexed(pc) == imem[(pc \div 2) % NUM_REGISTERS]

Fetch(pc) == imem[(pc \div 4) % NUM_REGISTERS]   \* addr_i[DATA_WIDTH_BITS+1:2]

IfIdReg  == [pc : Data, instr : Instr]
IdExReg  == [pc : Data, reg_data1 : Data, reg_data2 : Data, imm : Data,
             alu_op : AluCtrl, rd_addr : RegAddr, reg_write_en : BOOLEAN,
             mem_to_reg : BOOLEAN]
ExMemReg == [alu_result : Data, reg_data2 : Data, rd_addr : RegAddr,
             reg_write_en : BOOLEAN, mem_to_reg : BOOLEAN]
MemWbReg == [alu_result : Data, mem_data : Data, rd_addr : RegAddr,
             reg_write_en : BOOLEAN, mem_to_reg : BOOLEAN]

EmptyIfId  == [pc |-> 0, instr |-> ZeroInstr]
EmptyIdEx  == [pc |-> 0, reg_data1 |-> 0, reg_data2 |-> 0, imm |-> 0,
               alu_op |-> "ALU_ADD", rd_addr |-> REG_ZERO,
               reg_write_en |-> FALSE, mem_to_reg |-> FALSE]
EmptyExMem == [alu_result |-> 0, reg_data2 |-> 0, rd_addr |-> REG_ZERO,
               reg_write_en |-> FALSE, mem_to_reg |-> FALSE]
EmptyMemWb == [alu_result |-> 0, mem_data |-> 0, rd_addr |-> REG_ZERO,
               reg_write_en |-> FALSE, mem_to_reg |-> FALSE]
EmptyRf    == [r \in RegAddr |-> 0]

-----------------------------------------------------------------------------
(* The wires of core_top, each a function of the registers.                 *)

pc_id    == if_id.pc
instr_id == if_id.instr

\* WB: wb_sel_i is tied to WB_ALU, for a load too.
wb_mux(sel, alu_data, lsu_data, pc_plus_4) ==
  CASE sel = "WB_ALU" -> alu_data
    [] sel = "WB_MEM" -> lsu_data
    [] sel = "WB_PC4" -> pc_plus_4

wb_data_out ==
  wb_mux("WB_ALU", mem_wb.alu_result, mem_wb.mem_data, mem_wb.alu_result)

hdu_stall == hdu_stall_o(id_ex.mem_to_reg, id_ex.rd_addr, instr_id.rs1, instr_id.rs2)

\* EX: the operands are those of id_ex, the addresses compared for forwarding
\* are rs1_addr_id and rs2_addr_id, those of the instruction in decode.
Forward(op_addr, op) ==
  compute_mux_fwd_ctrl(
    compute_fwd_ctrl(op_addr, ex_mem.rd_addr, ex_mem.reg_write_en,
                     mem_wb.rd_addr, mem_wb.reg_write_en),
    ex_mem.alu_result, wb_data_out, op)

op_a_fwd == Forward(instr_id.rs1, id_ex.reg_data1)
op_b_fwd == Forward(instr_id.rs2, id_ex.reg_data2)

alu_result_ex  == alu_result(id_ex.alu_op, op_a_fwd, op_b_fwd)
bc_taken_ex    == bc_taken("BC_BEQ", op_a_fwd, op_b_fwd)
target_addr_ex == agu_target(id_ex.pc, id_ex.imm, op_a_fwd, FALSE)

\* The redirect: the branch or jump is the one in decode, the comparison and
\* the target are those of the instruction ahead of it, in EX.
ex_mispredict == (branch(instr_id) /\ bc_taken_ex) \/ jump(instr_id)

\* The data memory bus: address and data from MEM, the strobe from decode.
dmem_we_o    == mem_we(instr_id)
dmem_addr_o  == ex_mem.alu_result
dmem_wdata_o == ex_mem.reg_data2

-----------------------------------------------------------------------------
(* The clock edge: one operator per register.                               *)

\* A redirect that leaves the fetched wrong-path word in decode.
PrIfIdNoFlush ==
  if_id' = IF ~hdu_stall THEN [pc |-> pc_if, instr |-> Fetch(pc_if)] ELSE if_id

\* A stall that holds the instruction and lets its address go by.
PrIfIdStallsInstrOnly ==
  if_id' = IF ex_mispredict THEN EmptyIfId
           ELSE [pc |-> pc_if,
                 instr |-> IF hdu_stall THEN instr_id ELSE Fetch(pc_if)]

PrIfId ==
  if_id' = CASE ex_mispredict -> EmptyIfId
             [] ~ex_mispredict /\ ~hdu_stall -> [pc |-> pc_if, instr |-> Fetch(pc_if)]
             [] ~ex_mispredict /\ hdu_stall  -> if_id

\* What decode hands to EX.
DecodedInstr ==
  [pc           |-> pc_id,
   reg_data1    |-> operand_a(instr_id, pc_id, rf),
   reg_data2    |-> operand_b(instr_id, rf),
   imm          |-> operand_b(instr_id, rf),
   alu_op       |-> alu_ctrl(instr_id),
   rd_addr      |-> instr_id.rd,
   reg_write_en |-> reg_we(instr_id),
   mem_to_reg   |-> mem_to_reg(instr_id)]

\* stall_i connected to hdu_stall, as the stages before it are.
PrIdExStalls ==
  id_ex' = CASE ex_mispredict -> EmptyIdEx
             [] ~ex_mispredict /\ ~hdu_stall -> DecodedInstr
             [] ~ex_mispredict /\ hdu_stall  -> id_ex

\* stall_i is tied to 0: a stall lets decode's instruction into EX as well.
PrIdEx ==
  id_ex' = IF ex_mispredict THEN EmptyIdEx ELSE DecodedInstr

PrExMem ==
  ex_mem' = [alu_result   |-> alu_result_ex,
             reg_data2    |-> id_ex.reg_data2,
             rd_addr      |-> id_ex.rd_addr,
             reg_write_en |-> id_ex.reg_write_en,
             mem_to_reg   |-> id_ex.mem_to_reg]

\* The destination of the instruction behind.
PrMemWbRdFromEx(dmem_rdata) ==
  mem_wb' = [alu_result   |-> ex_mem.alu_result,
             mem_data     |-> dmem_rdata,
             rd_addr      |-> id_ex.rd_addr,
             reg_write_en |-> ex_mem.reg_write_en,
             mem_to_reg   |-> ex_mem.mem_to_reg]

\* The load-store unit, tied to LSU_WORD, passes the bus's word through.
PrMemWb(dmem_rdata) ==
  mem_wb' = [alu_result   |-> ex_mem.alu_result,
             mem_data     |-> dmem_rdata,
             rd_addr      |-> ex_mem.rd_addr,
             reg_write_en |-> ex_mem.reg_write_en,
             mem_to_reg   |-> ex_mem.mem_to_reg]

RfUpdate == rf' = rf_write(rf, mem_wb.reg_write_en, mem_wb.rd_addr, wb_data_out)

Clock(dmem_rdata) ==
  /\ IfStageClock(hdu_stall, ex_mispredict, target_addr_ex)
  /\ PrIfId
  /\ PrIdEx
  /\ PrExMem
  /\ PrMemWb(dmem_rdata)
  /\ RfUpdate
  /\ UNCHANGED imem

Reset ==
  /\ IfStageReset
  /\ if_id' = EmptyIfId
  /\ rf' = EmptyRf
  /\ id_ex' = EmptyIdEx
  /\ ex_mem' = EmptyExMem
  /\ mem_wb' = EmptyMemWb
  /\ UNCHANGED imem

CoreInit ==
  /\ imem \in Programs
  /\ IfStageInit
  /\ if_id = EmptyIfId
  /\ rf = EmptyRf
  /\ id_ex = EmptyIdEx
  /\ ex_mem = EmptyExMem
  /\ mem_wb = EmptyMemWb

Tick == \E dmem_rdata \in DmemData : Clock(dmem_rdata)

CoreNext == Tick \/ Reset

CoreSpec == CoreInit /\ [][CoreNext]_coreVars

-----------------------------------------------------------------------------

\* Every register holds what its width allows and the program is in reach.
CoreTypeOK ==
  /\ imem \in Programs
  /\ IfStageTypeOK
  /\ if_id \in IfIdReg
  /\ rf \in RegisterFile
  /\ id_ex \in IdExReg
  /\ ex_mem \in ExMemReg
  /\ mem_wb \in MemWbReg

(***************************************************************************)
(* The buffer is trained with if_stage's own copy of the decode address,   *)
(* the branch it is trained for is decoded from pr_if_id's copy: they are  *)
(* two registers with the same controls (if_stage.sv 113-124, pr_if_id.sv  *)
(* 30-41). So every valid entry is filed under its own index and belongs   *)
(* to a branch or jump of the program: a plain instruction is never        *)
(* predicted to jump, whatever was flushed or stalled on the way.          *)
(***************************************************************************)
BtbPredictsOnlyControlFlow ==
  \A i \in BtbIndices :
    btb[i].valid =>
      /\ BtbIndex(btb[i].tag) = i
      /\ branch(Fetch(btb[i].tag)) \/ jump(Fetch(btb[i].tag))

\* What decode holds is the word at the address it claims, or the bubble a
\* flush or reset left; and the two copies of that address agree
\* (if_stage.sv 113-124 and pr_if_id.sv 30-41, under stall and flush at once).
DecodeHoldsWhatWasFetched ==
  /\ if_id.pc = id_pc
  /\ if_id = EmptyIfId \/ if_id.instr = Fetch(if_id.pc)

\* However targets are computed from register data and immediates, what is
\* fetched, decoded, predicted or executed is at a half-word boundary
\* (agu.sv 33-36 feeding pc.sv, the pipeline registers and the BTB).
AddressesHalfwordAligned ==
  /\ \A pc \in {pc_if, id_pc, if_id.pc, id_ex.pc} : pc % 2 = 0
  /\ \A i \in BtbIndices : btb[i].tag % 2 = 0 /\ btb[i].target % 2 = 0

\* Nothing x0 is told to hold is ever seen: its register stays zero and no
\* operand whose address is x0 is replaced on its way into the ALU (rf.sv
\* 45-58, fwd.sv 48-56), even when loads, jumps and stalls write it.
X0ReadsZero ==
  /\ rf[REG_ZERO] = 0
  /\ instr_id.rs1 = REG_ZERO => op_a_fwd = id_ex.reg_data1
  /\ instr_id.rs2 = REG_ZERO => op_b_fwd = id_ex.reg_data2

\* A redirect empties decode, so the next cycle cannot redirect again: the
\* fetch at the corrected address is never lost to a second correction
\* (core_top.sv 98, pr_if_id.sv 34-36, if_stage.sv 78-80).
RedirectsNeverBackToBack == [][Tick /\ ex_mispredict => ~ex_mispredict']_coreVars

\* The instruction in decode, having been stalled on once, is itself in EX
\* in the next cycle, and stalls itself again exactly if it is a load that
\* overwrites a register it names: the only way a stall outlasts one cycle
\* (core_top.sv 165-168 against hdu.sv 49-55).
OverwritesOwnSource(instr) ==
  /\ mem_to_reg(instr)
  /\ instr.rd # REG_ZERO
  /\ instr.rd \in {instr.rs1, instr.rs2}

StallOutlastsCycleOnlyOnOwnSource ==
  [][Tick /\ hdu_stall /\ ~ex_mispredict
       => (hdu_stall' <=> OverwritesOwnSource(instr_id))]_coreVars

\* Every stall ends, when no load of the program overwrites a register it
\* names: no instruction waits in decode for ever (hdu.sv 43-56).
NoSelfLoad == \A i \in DOMAIN imem : ~OverwritesOwnSource(imem[i])

EveryStallEnds == NoSelfLoad => (hdu_stall ~> ~hdu_stall)
=============================================================================
