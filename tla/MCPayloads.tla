----------------------------- MODULE MCPayloads -----------------------------
(***************************************************************************)
(* The core on the test payloads of sim/*.mem, as their comments give them *)
(* in assembler, and on short programs of the same kind, on words of 16    *)
(* bits so that every constant of a payload fits. Each definition below    *)
(* states what a comment, a payload or the scoreboard says of the core;    *)
(* the core does not do it.                                                *)
(***************************************************************************)
EXTENDS CoreTrace, MCAsm

\* sim/hazard_raw.mem
HazardRaw == {Load(<<addi(1, 0, 10), add(4, 1, 1), add(5, 2, 4)>>)}

\* "Consumes x1 immediately (Expected x4 = 20)" (sim/hazard_raw.mem:4): the
\* forwarding unit compares the source fields of the instruction behind
\* (core_top.sv 194-195), so add reads the x1 of before the addi.
ConsumesNewX1 ==
  slot_wb.valid /\ Holds(slot_wb) = add(4, 1, 1) => wb_data_out = 20

\* Two links of a list followed through one register.
FollowList == {Load(<<lw(1, 2, 0), lw(1, 1, 0)>>)}

\* "Consumes x1 instantly. HDU must stall 1 cycle" (sim/hazard_load.mem:4):
\* the load that is stalled on the first enters EX all the same, and from
\* there stalls its own copy in decode, for ever.
LoadUseStallEnds == hdu_stall ~> ~hdu_stall

\* A jump to the instruction behind it, after which x2 holds that address.
JumpAndLink == {Load(<<addi(1, 0, 8), Word("OP_JAL", 2, 0, 0, 4, 0)>>)}

\* "expected_data = tx.pc + 4; // Link register data calculation"
\* (dv/env/core_scoreboard.sv:132), for a jump whose reg_we_o the control unit
\* raises (cu.sv 111-117): whatever follows the jal at 4 finds its link in x2.
\* The jump redirects from decode and is squashed there by its own flush
\* (core_top.sv 98, 168), so it reaches no stage that could write.
JumpWritesItsLink == slot_wb.valid /\ slot_wb.pc = 8 => rf[2] = 8

\* A store between two unrelated instructions.
StoreAlone == {Load(<<addi(1, 0, 4), nop, nop, nop, sw(1, 1, 8)>>)}

\* "Store: rs2 -> Mem[rs1 + imm]" (rtl/id/cu/cu.sv:91): the strobe is
\* raised from decode, two cycles before the address and data it goes with.
StrobeGoesWithItsStore ==
  dmem_we_o => slot_mem.valid /\ mem_we(Holds(slot_mem))

\* sim/hazard_control.mem
HazardControl ==
  {Load(<<addi(1, 0, 5), addi(2, 0, 5), beq(1, 2, 8), addi(3, 0, 100),
          addi(4, 0, 512)>>)}

\* "branch to PC + 8" (sim/hazard_control.mem:5): the target is built from
\* the address and operand of the instruction ahead of the branch.
BranchGoesToPcPlusOffset ==
  [][Tick /\ branch(instr_id) /\ ex_mispredict
       => pc_if' = ToData(pc_id + imm_gen(instr_id))]_traceVars
=============================================================================
