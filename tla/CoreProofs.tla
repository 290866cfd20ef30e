----------------------------- MODULE CoreProofs -----------------------------
(***************************************************************************)
(* Theorems about the pipeline, for every word width, buffer depth and set *)
(* of programs: the types of its registers, what decode and the branch     *)
(* target buffer hold, the alignment of every address, and what a clock    *)
(* edge may never do.                                                      *)
(***************************************************************************)
EXTENDS Core, IfStageProofs, ExecuteProofs

LEMMA FetchTyped == ASSUME CoreTypeOK, NEW pc \in Data PROVE Fetch(pc) \in Instr
<1>1. imem \in [0 .. NUM_REGISTERS - 1 -> Instr]
  BY ProgramsAssumption DEF CoreTypeOK, Imem
<1>2. pc \div 4 \in Int
  BY DataIsNat
<1>3. (pc \div 4) % NUM_REGISTERS \in 0 .. NUM_REGISTERS - 1
  BY <1>2, PowersArePositive
<1>4. QED
  BY <1>1, <1>3 DEF Fetch

\* Forwarding replaces a word by a word (fwd.sv 38-59, ex_stage.sv 51-63).
LEMMA ForwardTyped ==
  ASSUME CoreTypeOK, NEW addr, NEW op \in Data PROVE Forward(addr, op) \in Data
<1>1. ex_mem.alu_result \in Data /\ mem_wb.alu_result \in Data
  BY DEF CoreTypeOK, ExMemReg, MemWbReg
<1>2. compute_fwd_ctrl(addr, ex_mem.rd_addr, ex_mem.reg_write_en,
                       mem_wb.rd_addr, mem_wb.reg_write_en)
        \in {"FWD_MEM", "FWD_WB", "FWD_ID_EX"}
  BY DEF compute_fwd_ctrl
<1>3. QED
  BY <1>1, <1>2 DEF Forward, compute_mux_fwd_ctrl, wb_data_out, wb_mux

\* What the combinational paths carry between two edges.
LEMMA WiresTyped ==
  ASSUME CoreTypeOK
  PROVE  /\ alu_result_ex \in Data
         /\ target_addr_ex \in Data
         /\ target_addr_ex % 2 = 0
         /\ ex_mispredict \in BOOLEAN
         /\ hdu_stall \in BOOLEAN
<1>1. /\ id_ex.reg_data1 \in Data /\ id_ex.reg_data2 \in Data
      /\ id_ex.pc \in Data /\ id_ex.imm \in Data /\ id_ex.alu_op \in AluCtrl
  BY DEF CoreTypeOK, IdExReg
<1>2. op_a_fwd \in Data /\ op_b_fwd \in Data
  BY <1>1, ForwardTyped DEF op_a_fwd, op_b_fwd
<1>3. alu_result_ex \in Data
  BY <1>1, <1>2, AluGivesWords DEF alu_result_ex
<1>4. target_addr_ex \in Data /\ target_addr_ex % 2 = 0
  BY <1>1, <1>2, TargetIsEvenWord DEF target_addr_ex
<1>5. ex_mispredict \in BOOLEAN /\ hdu_stall \in BOOLEAN
  BY DEF ex_mispredict, hdu_stall, hdu_stall_o
<1>6. QED
  BY <1>3, <1>4, <1>5

LEMMA EmptyRegistersTyped ==
  /\ EmptyIfId \in IfIdReg
  /\ EmptyRf \in RegisterFile
  /\ EmptyIdEx \in IdExReg
  /\ EmptyExMem \in ExMemReg
  /\ EmptyMemWb \in MemWbReg
BY ZeroIsData, ZeroIsRegAddr, ZeroInstrTyped
   DEF EmptyIfId, IfIdReg, EmptyRf, RegisterFile, EmptyIdEx, IdExReg, AluCtrl,
       EmptyExMem, ExMemReg, EmptyMemWb, MemWbReg

LEMMA DecodedInstrTyped == ASSUME CoreTypeOK PROVE DecodedInstr \in IdExReg
<1>1. if_id.pc \in Data /\ if_id.instr \in Instr /\ rf \in RegisterFile
  BY DEF CoreTypeOK, IfIdReg
<1>2. /\ operand_a(if_id.instr, if_id.pc, rf) \in Data
      /\ operand_b(if_id.instr, rf) \in Data
  BY <1>1, OperandsAreWords
<1>3. alu_ctrl(if_id.instr) \in AluCtrl /\ if_id.instr.rd \in RegAddr
  BY <1>1, AluCtrlTyped DEF Instr
<1>4. reg_we(if_id.instr) \in BOOLEAN /\ mem_to_reg(if_id.instr) \in BOOLEAN
  BY DEF reg_we, mem_to_reg
<1>5. QED
  BY <1>1, <1>2, <1>3, <1>4 DEF DecodedInstr, IdExReg, pc_id, instr_id

\* The four registers of rtl/pr and the register file on a clock edge.
LEMMA ClockTyped ==
  ASSUME CoreTypeOK, NEW dmem_rdata \in DmemData, Clock(dmem_rdata)
  PROVE  CoreTypeOK'
<1>1. imem' \in Programs
  BY DEF CoreTypeOK, Clock
<1>2. IfStageTypeOK'
  BY WiresTyped, IfStageClockTyped DEF CoreTypeOK, Clock
<1>3. if_id' \in IfIdReg
  <2>1. pc_if \in Data /\ if_id \in IfIdReg
    BY DEF CoreTypeOK, IfStageTypeOK
  <2>2. [pc |-> pc_if, instr |-> Fetch(pc_if)] \in IfIdReg
    BY <2>1, FetchTyped DEF IfIdReg
  <2>3. QED
    BY <2>1, <2>2, EmptyRegistersTyped, WiresTyped DEF Clock, PrIfId
<1>4. id_ex' \in IdExReg
  BY DecodedInstrTyped, EmptyRegistersTyped DEF Clock, PrIdEx
<1>5. ex_mem' \in ExMemReg
  BY WiresTyped DEF Clock, PrExMem, CoreTypeOK, IdExReg, ExMemReg
<1>6. mem_wb' \in MemWbReg
  BY DmemDataAssumption DEF Clock, PrMemWb, CoreTypeOK, ExMemReg, MemWbReg
<1>7. rf' \in RegisterFile
  <2>1. /\ mem_wb.reg_write_en \in BOOLEAN /\ mem_wb.rd_addr \in RegAddr
        /\ mem_wb.alu_result \in Data /\ rf \in RegisterFile
    BY DEF CoreTypeOK, MemWbReg
  <2>2. QED
    BY <2>1, RegisterWriteTyped DEF Clock, RfUpdate, wb_data_out, wb_mux
<1>8. QED
  BY <1>1, <1>2, <1>3, <1>4, <1>5, <1>6, <1>7 DEF CoreTypeOK

LEMMA ResetTyped == ASSUME CoreTypeOK, Reset PROVE CoreTypeOK'
BY EmptyRegistersTyped, IfStageResetTyped DEF CoreTypeOK, Reset

LEMMA CoreInitTyped == CoreInit => CoreTypeOK
BY EmptyRegistersTyped, IfStageInitTyped DEF CoreTypeOK, CoreInit

LEMMA CoreStepTyped == CoreTypeOK /\ [CoreNext]_coreVars => CoreTypeOK'
<1> SUFFICES ASSUME CoreTypeOK, [CoreNext]_coreVars PROVE CoreTypeOK'
  OBVIOUS
<1>1. CASE Tick
  BY <1>1, ClockTyped DEF Tick
<1>2. CASE Reset
  BY <1>2, ResetTyped
<1>3. CASE UNCHANGED coreVars
  BY <1>3 DEF coreVars, ifVars, pipeVars, CoreTypeOK, IfStageTypeOK
<1>4. QED
  BY <1>1, <1>2, <1>3 DEF CoreNext

\* Every register of the pipeline holds what its width allows, for every
\* program and whatever the data memory answers (core_top.sv, rtl/pr).
THEOREM CoreTypeCorrect == CoreSpec => []CoreTypeOK
<1>1. CoreInit => CoreTypeOK
  BY CoreInitTyped
<1>2. CoreTypeOK /\ [CoreNext]_coreVars => CoreTypeOK'
  BY CoreStepTyped
<1>3. QED
  BY <1>1, <1>2, PTL DEF CoreSpec

-----------------------------------------------------------------------------
(* Decode and the buffer. BtbPredictsOnlyControlFlow is not inductive: an   *)
(* entry is filed under if_stage's copy of the decode address while the     *)
(* branch is read from pr_if_id's, so what decode holds comes first.        *)

DecodeInv == CoreTypeOK /\ DecodeHoldsWhatWasFetched /\ BtbPredictsOnlyControlFlow

LEMMA BubbleIsNoControlFlow == ~branch(ZeroInstr) /\ ~jump(ZeroInstr)
BY DEF ZeroInstr, branch, jump

LEMMA FetchUnchanged ==
  ASSUME imem' = imem PROVE \A pc : Fetch(pc)' = Fetch(pc)
BY DEF Fetch

LEMMA ClockDecode ==
  ASSUME DecodeInv, NEW dmem_rdata \in DmemData, Clock(dmem_rdata)
  PROVE  DecodeHoldsWhatWasFetched'
<1> USE DEF DecodeHoldsWhatWasFetched, DecodeInv
<1>1. imem' = imem
  BY DEF Clock
<1>2. CASE ex_mispredict
  BY <1>2 DEF Clock, PrIfId, IfStageClock, IdPcUpdate, EmptyIfId
<1>3. CASE ~ex_mispredict /\ ~hdu_stall
  <2>1. if_id' = [pc |-> pc_if, instr |-> Fetch(pc_if)] /\ id_pc' = pc_if
    BY <1>3 DEF Clock, PrIfId, IfStageClock, IdPcUpdate
  <2>2. QED
    BY <1>1, <2>1 DEF Fetch
<1>4. CASE ~ex_mispredict /\ hdu_stall
  <2>1. if_id' = if_id /\ id_pc' = id_pc
    BY <1>4 DEF Clock, PrIfId, IfStageClock, IdPcUpdate
  <2>2. QED
    BY <1>1, <2>1 DEF Fetch
<1>5. QED
  BY <1>2, <1>3, <1>4

LEMMA ClockBtb ==
  ASSUME DecodeInv, NEW dmem_rdata \in DmemData, Clock(dmem_rdata)
  PROVE  BtbPredictsOnlyControlFlow'
<1> SUFFICES ASSUME NEW i \in BtbIndices, btb'[i].valid
             PROVE  /\ BtbIndex(btb'[i].tag) = i
                    /\ branch(Fetch(btb'[i].tag)) \/ jump(Fetch(btb'[i].tag))
  BY DEF BtbPredictsOnlyControlFlow, Clock, Fetch, BtbIndex
<1>1. btb \in [BtbIndices -> BtbEntry] /\ id_pc \in Data
  BY DEF DecodeInv, CoreTypeOK, IfStageTypeOK
<1>2. CASE ex_mispredict /\ i = BtbIndex(id_pc)
  <2>1. btb'[i].tag = id_pc
    BY <1>1, <1>2 DEF Clock, IfStageClock, BtbUpdate
  <2>2. branch(instr_id) \/ jump(instr_id)
    BY <1>2 DEF ex_mispredict
  <2>3. instr_id = Fetch(id_pc)
    BY <2>2, BubbleIsNoControlFlow
       DEF DecodeInv, DecodeHoldsWhatWasFetched, EmptyIfId, instr_id
  <2>4. QED
    BY <1>2, <2>1, <2>2, <2>3
<1>3. CASE ~(ex_mispredict /\ i = BtbIndex(id_pc))
  <2>1. btb'[i] = btb[i]
    BY <1>1, <1>3 DEF Clock, IfStageClock, BtbUpdate
  <2>2. QED
    BY <2>1 DEF DecodeInv, BtbPredictsOnlyControlFlow
<1>4. QED
  BY <1>2, <1>3

LEMMA EmptyDecode ==
  /\ id_pc = 0 /\ if_id = EmptyIfId => DecodeHoldsWhatWasFetched
  /\ btb = EmptyBtb => BtbPredictsOnlyControlFlow
BY DEF DecodeHoldsWhatWasFetched, EmptyIfId, BtbPredictsOnlyControlFlow, EmptyBtb

LEMMA DecodeInvInit == CoreInit => DecodeInv
BY CoreInitTyped, EmptyDecode DEF CoreInit, IfStageInit, DecodeInv

LEMMA DecodeInvStep == DecodeInv /\ [CoreNext]_coreVars => DecodeInv'
<1> SUFFICES ASSUME DecodeInv, [CoreNext]_coreVars PROVE DecodeInv'
  OBVIOUS
<1>1. CoreTypeOK'
  BY CoreStepTyped DEF DecodeInv
<1>2. CASE Tick
  BY <1>1, <1>2, ClockDecode, ClockBtb DEF Tick, DecodeInv
<1>3. CASE Reset
  <2>1. id_pc' = 0 /\ if_id' = EmptyIfId /\ btb' = EmptyBtb
    BY <1>3 DEF Reset, IfStageReset
  <2>2. DecodeHoldsWhatWasFetched'
    BY <2>1 DEF DecodeHoldsWhatWasFetched, EmptyIfId
  <2>3. BtbPredictsOnlyControlFlow'
    BY <2>1 DEF BtbPredictsOnlyControlFlow, EmptyBtb
  <2>4. QED
    BY <1>1, <2>2, <2>3 DEF DecodeInv
<1>4. CASE UNCHANGED coreVars
  BY <1>1, <1>4 DEF coreVars, ifVars, pipeVars, DecodeInv, DecodeHoldsWhatWasFetched,
                    BtbPredictsOnlyControlFlow, Fetch, BtbIndex
<1>5. QED
  BY <1>2, <1>3, <1>4 DEF CoreNext

LEMMA DecodeInvAlways == CoreSpec => []DecodeInv
BY DecodeInvInit, DecodeInvStep, PTL DEF CoreSpec

\* The two copies of the decode address agree and decode holds the word at
\* that address or a bubble, through every overlap of stalls and flushes.
THEOREM DecodeHoldsWhatWasFetchedAlways == CoreSpec => []DecodeHoldsWhatWasFetched
<1>1. DecodeInv => DecodeHoldsWhatWasFetched
  BY DEF DecodeInv
<1>2. QED
  BY <1>1, DecodeInvAlways, PTL

\* For every program, depth and width the buffer only ever predicts at the
\* address of a branch or jump (btb.sv, if_stage.sv, core_top.sv 98).
THEOREM BtbPredictsOnlyControlFlowAlways == CoreSpec => []BtbPredictsOnlyControlFlow
<1>1. DecodeInv => BtbPredictsOnlyControlFlow
  BY DEF DecodeInv
<1>2. QED
  BY <1>1, DecodeInvAlways, PTL

-----------------------------------------------------------------------------
(* Alignment. A target is even because the AGU clears its low bit, the next *)
(* sequential address because four is even and truncation keeps parity.     *)

AlignedInv == CoreTypeOK /\ AddressesHalfwordAligned

LEMMA NextPcAligned ==
  ASSUME AlignedInv, NEW stall, NEW mispredict, NEW corr \in Data, corr % 2 = 0
  PROVE  pc_next(stall, mispredict, corr) % 2 = 0
<1>1. pc_if \in Data /\ pc_if \in Nat /\ pc_if % 2 = 0
  BY DataIsNat DEF AlignedInv, CoreTypeOK, IfStageTypeOK, AddressesHalfwordAligned
<1>2. btb_target(pc_if) % 2 = 0
  BY <1>1, IndexInRange DEF AlignedInv, AddressesHalfwordAligned, btb_target
<1>3. pc_plus4(pc_if) % 2 = 0
  <2>1. pc_if + 4 \in Int /\ (pc_if + 4) % 2 = 0
    BY <1>1
  <2>2. QED
    BY <2>1, ToDataKeepsEven DEF pc_plus4
<1>4. QED
  BY <1>1, <1>2, <1>3 DEF pc_next

LEMMA ClockAligned ==
  ASSUME AlignedInv, NEW dmem_rdata \in DmemData, Clock(dmem_rdata)
  PROVE  AddressesHalfwordAligned'
<1>1. target_addr_ex \in Data /\ target_addr_ex % 2 = 0
  BY WiresTyped DEF AlignedInv
<1>2. /\ pc_if % 2 = 0 /\ id_pc % 2 = 0 /\ if_id.pc % 2 = 0 /\ id_ex.pc % 2 = 0
      /\ \A i \in BtbIndices : btb[i].tag % 2 = 0 /\ btb[i].target % 2 = 0
  BY DEF AlignedInv, AddressesHalfwordAligned
<1>3. pc_if' % 2 = 0
  BY <1>1, NextPcAligned DEF Clock, IfStageClock
<1>4. id_pc' % 2 = 0
  BY <1>2 DEF Clock, IfStageClock, IdPcUpdate
<1>5. if_id'.pc % 2 = 0
  BY <1>2 DEF Clock, PrIfId, EmptyIfId
<1>6. id_ex'.pc % 2 = 0
  BY <1>2 DEF Clock, PrIdEx, EmptyIdEx, DecodedInstr, pc_id
<1>7. ASSUME NEW i \in BtbIndices PROVE btb'[i].tag % 2 = 0 /\ btb'[i].target % 2 = 0
  <2>1. btb \in [BtbIndices -> BtbEntry]
    BY DEF AlignedInv, CoreTypeOK, IfStageTypeOK
  <2>2. \/ btb'[i] = btb[i]
        \/ btb'[i] = [valid |-> TRUE, tag |-> id_pc, target |-> target_addr_ex]
    BY <2>1 DEF Clock, IfStageClock, BtbUpdate
  <2>3. QED
    BY <1>1, <1>2, <2>2
<1>8. QED
  BY <1>3, <1>4, <1>5, <1>6, <1>7 DEF AddressesHalfwordAligned

LEMMA ResetAligned ==
  ASSUME pc_if = 0, id_pc = 0, if_id = EmptyIfId, id_ex = EmptyIdEx, btb = EmptyBtb
  PROVE  AddressesHalfwordAligned
BY DEF AddressesHalfwordAligned, EmptyIfId, EmptyIdEx, EmptyBtb

LEMMA AlignedInit == CoreInit => AlignedInv
BY CoreInitTyped, ResetAligned DEF CoreInit, IfStageInit, AlignedInv

LEMMA AlignedStep == AlignedInv /\ [CoreNext]_coreVars => AlignedInv'
<1> SUFFICES ASSUME AlignedInv, [CoreNext]_coreVars PROVE AlignedInv'
  OBVIOUS
<1>1. CoreTypeOK'
  BY CoreStepTyped DEF AlignedInv
<1>2. CASE Tick
  BY <1>1, <1>2, ClockAligned DEF Tick, AlignedInv
<1>3. CASE Reset
  <2>1. /\ pc_if' = 0 /\ id_pc' = 0 /\ btb' = EmptyBtb
        /\ if_id' = EmptyIfId /\ id_ex' = EmptyIdEx
    BY <1>3 DEF Reset, IfStageReset
  <2>2. AddressesHalfwordAligned'
    BY <2>1 DEF AddressesHalfwordAligned, EmptyIfId, EmptyIdEx, EmptyBtb
  <2>3. QED
    BY <1>1, <2>2 DEF AlignedInv
<1>4. CASE UNCHANGED coreVars
  BY <1>1, <1>4 DEF coreVars, ifVars, pipeVars, AlignedInv, AddressesHalfwordAligned
<1>5. QED
  BY <1>2, <1>3, <1>4 DEF CoreNext

\* No address the core fetches, decodes, executes or predicts is ever odd,
\* for every program and every operand a target is computed from (agu.sv
\* 31-36, if_stage.sv 77-91, btb.sv).
THEOREM AddressesHalfwordAlignedAlways == CoreSpec => []AddressesHalfwordAligned
<1>1. CoreInit => AlignedInv
  BY AlignedInit
<1>2. AlignedInv /\ [CoreNext]_coreVars => AlignedInv'
  BY AlignedStep
<1>3. AlignedInv => AddressesHalfwordAligned
  BY DEF AlignedInv
<1>4. QED
  BY <1>1, <1>2, <1>3, PTL DEF CoreSpec

-----------------------------------------------------------------------------
(* Register x0.                                                             *)

ZeroInv == CoreTypeOK /\ rf[REG_ZERO] = 0

\* An operand whose address is x0 is never replaced (fwd.sv 48-56).
LEMMA X0NotForwarded == ASSUME NEW op PROVE Forward(REG_ZERO, op) = op
BY DEF Forward, compute_fwd_ctrl, compute_mux_fwd_ctrl

LEMMA ZeroInvInit == CoreInit => ZeroInv
BY CoreInitTyped, ZeroIsRegAddr DEF CoreInit, EmptyRf, ZeroInv

LEMMA ZeroInvStep == ZeroInv /\ [CoreNext]_coreVars => ZeroInv'
<1> SUFFICES ASSUME ZeroInv, [CoreNext]_coreVars PROVE ZeroInv'
  OBVIOUS
<1>1. CoreTypeOK'
  BY CoreStepTyped DEF ZeroInv
<1>2. CASE Tick
  <2>1. /\ mem_wb.reg_write_en \in BOOLEAN /\ mem_wb.rd_addr \in RegAddr
        /\ mem_wb.alu_result \in Data /\ rf \in RegisterFile
    BY DEF ZeroInv, CoreTypeOK, MemWbReg
  <2>2. rf'[REG_ZERO] = rf[REG_ZERO]
    BY <1>2, <2>1, RegisterWriteTyped DEF Tick, Clock, RfUpdate, wb_data_out, wb_mux
  <2>3. QED
    BY <1>1, <2>2 DEF ZeroInv
<1>3. CASE Reset
  BY <1>1, <1>3, ZeroIsRegAddr DEF Reset, EmptyRf, ZeroInv
<1>4. CASE UNCHANGED coreVars
  BY <1>1, <1>4 DEF coreVars, pipeVars, ZeroInv
<1>5. QED
  BY <1>2, <1>3, <1>4 DEF CoreNext

\* x0 holds zero and is never the target of a forwarded value, whatever is
\* in flight towards it (rf.sv 45-58, fwd.sv 38-59).
THEOREM X0ReadsZeroAlways == CoreSpec => []X0ReadsZero
<1>1. ZeroInv => X0ReadsZero
  BY X0NotForwarded DEF ZeroInv, X0ReadsZero, op_a_fwd, op_b_fwd
<1>2. QED
  BY <1>1, ZeroInvInit, ZeroInvStep, PTL DEF CoreSpec

-----------------------------------------------------------------------------
(* What a clock edge may never do.                                          *)

\* A redirect leaves a bubble in decode, and a bubble redirects nothing:
\* two corrections of the program counter are never back to back
\* (core_top.sv 98, pr_if_id.sv 34-36).
THEOREM RedirectsNeverBackToBackAlways == CoreSpec => RedirectsNeverBackToBack
<1>1. Tick /\ ex_mispredict => ~ex_mispredict'
  <2> SUFFICES ASSUME Tick, ex_mispredict PROVE ~ex_mispredict'
    OBVIOUS
  <2>1. if_id' = EmptyIfId
    BY DEF Tick, Clock, PrIfId
  <2>2. instr_id' = ZeroInstr
    BY <2>1 DEF instr_id, EmptyIfId
  <2>3. QED
    BY <2>2, BubbleIsNoControlFlow DEF ex_mispredict, branch, jump
<1>2. QED
  BY <1>1, PTL DEF CoreSpec, RedirectsNeverBackToBack

\* A stall is over after one cycle, unless the stalled instruction is a load
\* that overwrites a register it names, and then it is not: the stalled load
\* is in EX by then and stalls the copy of itself still in decode (core_top.sv
\* 165-168, hdu.sv 49-55).
THEOREM StallOutlastsCycleOnlyOnOwnSourceAlways ==
  CoreSpec => StallOutlastsCycleOnlyOnOwnSource
<1>1. Tick /\ hdu_stall /\ ~ex_mispredict
        => (hdu_stall' <=> OverwritesOwnSource(instr_id))
  <2> SUFFICES ASSUME Tick, hdu_stall, ~ex_mispredict
               PROVE  hdu_stall' <=> OverwritesOwnSource(instr_id)
    OBVIOUS
  <2>1. instr_id' = instr_id
    BY DEF Tick, Clock, PrIfId, instr_id
  <2>2. id_ex'.mem_to_reg = mem_to_reg(instr_id) /\ id_ex'.rd_addr = instr_id.rd
    BY DEF Tick, Clock, PrIdEx, DecodedInstr
  <2>3. QED
    BY <2>1, <2>2 DEF hdu_stall, hdu_stall_o, OverwritesOwnSource, mem_to_reg
<1>2. QED
  BY <1>1, PTL DEF CoreSpec, StallOutlastsCycleOnlyOnOwnSource
=============================================================================
