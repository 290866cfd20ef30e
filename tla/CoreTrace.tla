------------------------------ MODULE CoreTrace -----------------------------
(***************************************************************************)
(* The core with a history of what is in flight: for every stage after     *)
(* fetch, the address of the instruction it holds, or none. The history    *)
(* only watches: a step of it is a step of Core, and it follows the        *)
(* stall and flush connections of core_top, never the data of a register.  *)
(*                                                                         *)
(* With it one can say of a register what instruction it belongs to;       *)
(* CoreCommits compares what the pipeline commits with the reference model *)
(* of the test bench.                                                      *)
(***************************************************************************)
EXTENDS Core

VARIABLES slot_id, slot_ex, slot_mem, slot_wb

slots     == <<slot_id, slot_ex, slot_mem, slot_wb>>
traceVars == <<coreVars, slots>>

Bubble   == [valid |-> FALSE, pc |-> 0]
Holds(s) == Fetch(s.pc)        \* the instruction of a valid slot

SlotsEmpty ==
  /\ slot_id = Bubble
  /\ slot_ex = Bubble
  /\ slot_mem = Bubble
  /\ slot_wb = Bubble

TraceInit == CoreInit /\ SlotsEmpty

TraceTick ==
  /\ Tick
  /\ slot_id' = CASE ex_mispredict -> Bubble
                  [] ~ex_mispredict /\ ~hdu_stall -> [valid |-> TRUE, pc |-> pc_if]
                  [] ~ex_mispredict /\ hdu_stall  -> slot_id
  /\ slot_ex' = IF ex_mispredict THEN Bubble ELSE slot_id
  /\ slot_mem' = slot_ex
  /\ slot_wb' = slot_mem

TraceReset ==
  /\ Reset
  /\ slot_id' = Bubble
  /\ slot_ex' = Bubble
  /\ slot_mem' = Bubble
  /\ slot_wb' = Bubble

TraceNext == TraceTick \/ TraceReset

TraceSpec     == TraceInit /\ [][TraceNext]_traceVars
FairTraceSpec == TraceSpec /\ WF_traceVars(TraceTick)

-----------------------------------------------------------------------------

\* The history is sound: decode holds the word at its slot's address or a
\* bubble, and EX holds what decode made of its own slot's instruction, after
\* every overlap of stalls and redirects (pr_if_id.sv 30-41, pr_id_ex.sv
\* 42-71, with the stall and flush inputs core_top.sv gives them).
SlotsNameWhatStagesHold ==
  /\ if_id = IF slot_id.valid
             THEN [pc |-> slot_id.pc, instr |-> Holds(slot_id)] ELSE EmptyIfId
  /\ slot_ex.valid => /\ id_ex.pc = slot_ex.pc
                      /\ id_ex.alu_op = alu_ctrl(Holds(slot_ex))

(***************************************************************************)
(* Destination and write enable travel with their own instruction through  *)
(* every pipeline register: a stage that will write a register holds an    *)
(* instruction of the program that writes that register, and a stage whose *)
(* instruction was squashed writes nothing (pr_id_ex.sv, pr_ex_mem.sv,     *)
(* pr_mem_wb.sv as core_top.sv connects them).                             *)
(***************************************************************************)
WritesAs(reg, slot) ==
  /\ reg.reg_write_en <=> slot.valid /\ reg_we(Holds(slot))
  /\ reg.mem_to_reg <=> slot.valid /\ mem_to_reg(Holds(slot))
  /\ slot.valid => reg.rd_addr = Holds(slot).rd

WritesBelongToTheirInstruction ==
  /\ WritesAs(id_ex, slot_ex)
  /\ WritesAs(ex_mem, slot_mem)
  /\ WritesAs(mem_wb, slot_wb)

(***************************************************************************)
(* The instruction stream is broken only where the program can turn. What  *)
(* decode holds is the word EX holds, issued twice by a stall, or the one  *)
(* behind it, unless one of those two words is a branch or jump. A branch  *)
(* once taken stays predicted, taken or not (core_top.sv 98 corrects only  *)
(* taken ones), and a prediction that meets a stall drops the word it was  *)
(* made for (if_stage.sv 81-86): both break the stream, but no stall,      *)
(* prediction or redirect ever drops or inserts a word where every         *)
(* instruction in sight is a plain one.                                    *)
(***************************************************************************)
MayTurn(pc) == branch(Fetch(pc)) \/ jump(Fetch(pc))

StreamBreaksOnlyAtControlFlow ==
  /\ slot_id.valid
  /\ slot_ex.valid
  /\ slot_id.pc \notin {slot_ex.pc, ToData(slot_ex.pc + 4)}
  => MayTurn(slot_ex.pc) \/ MayTurn(ToData(slot_ex.pc + 4))

=============================================================================
