------------------------------ MODULE IfStage -------------------------------
(***************************************************************************)
(* The fetch stage (rtl/if/if_stage.sv): the program counter               *)
(* (rtl/if/pc/pc.sv), the direct-mapped branch target buffer               *)
(* (rtl/if/btb/btb.sv) and the stage's own copy of the IF/ID program       *)
(* counter, which is what the buffer is trained with.                      *)
(*                                                                         *)
(* A clock edge is IfStageClock(stall, mispredict, corr): the arguments    *)
(* are the stage's input ports, with flush_i tied to ex_mispredict_i as    *)
(* core_top ties them. Next drives the ports with every value, Core.tla    *)
(* with the signals of the pipeline.                                       *)
(*                                                                         *)
(* Left out: the stage's instruction ROM and id_instr_o, which core_top    *)
(* leaves unconnected and nothing reads.                                   *)
(***************************************************************************)
EXTENDS RiscvTypes

CONSTANT BTB_DEPTH   \* entries of the buffer: a power of two (16 in core_top)

ASSUME BtbDepthAssumption == BTB_DEPTH \in Nat \ {0}

VARIABLES
  pc_if,    \* u_pc.pc_o: the address being fetched
  btb,      \* u_btb.mem
  id_pc     \* id_pc_o: the address of the instruction in decode, 0 if flushed

ifVars == <<pc_if, btb, id_pc>>

BtbIndex(pc) == (pc \div 4) % BTB_DEPTH      \* pc[IDX_WIDTH+1:2]
BtbIndices   == 0 .. BTB_DEPTH - 1
BtbEntry     == [valid : BOOLEAN, tag : Data, target : Data]
EmptyBtb     == [i \in BtbIndices |-> [valid |-> FALSE, tag |-> 0, target |-> 0]]

\* A lookup that does not compare the tag.
BtbHitUntagged(pc) == btb[BtbIndex(pc)].valid

btb_hit(pc)    == btb[BtbIndex(pc)].valid /\ btb[BtbIndex(pc)].tag = pc
btb_target(pc) == btb[BtbIndex(pc)].target

\* An incrementer one bit too wide.
PcPlus4Wide(pc) == pc + 4

pc_plus4(pc) == ToData(pc + 4)

\* A redirect beats a prediction, a prediction beats a stall.
pc_next(stall, mispredict, corr) ==
  IF mispredict THEN corr
  ELSE IF btb_hit(pc_if) THEN btb_target(pc_if)
  ELSE IF stall THEN pc_if
  ELSE pc_plus4(pc_if)

\* The buffer trained with the address being fetched.
BtbTrainFetchPc(mispredict, corr) ==
  btb' = IF mispredict
         THEN [btb EXCEPT ![BtbIndex(pc_if)] =
                 [valid |-> TRUE, tag |-> pc_if, target |-> corr]]
         ELSE btb

BtbUpdate(mispredict, corr) ==
  btb' = IF mispredict
         THEN [btb EXCEPT ![BtbIndex(id_pc)] =
                 [valid |-> TRUE, tag |-> id_pc, target |-> corr]]
         ELSE btb

IdPcUpdate(stall, mispredict) ==
  id_pc' = CASE mispredict          -> 0
             [] ~mispredict /\ ~stall -> pc_if
             [] ~mispredict /\ stall  -> id_pc

IfStageInit ==
  /\ pc_if = 0
  /\ btb = EmptyBtb
  /\ id_pc = 0

IfStageClock(stall, mispredict, corr) ==
  /\ pc_if' = pc_next(stall, mispredict, corr)
  /\ BtbUpdate(mispredict, corr)
  /\ IdPcUpdate(stall, mispredict)

IfStageReset ==
  /\ pc_if' = 0
  /\ btb' = EmptyBtb
  /\ id_pc' = 0

-----------------------------------------------------------------------------
(* The stage on its own, its ports driven with every value.                 *)

IfStageNext ==
  \/ \E stall, mispredict \in BOOLEAN, corr \in Data :
        IfStageClock(stall, mispredict, corr)
  \/ IfStageReset

IfStageSpec == IfStageInit /\ [][IfStageNext]_ifVars

-----------------------------------------------------------------------------

\* The program counters are words and the buffer is a function of its index.
IfStageTypeOK ==
  /\ pc_if \in Data
  /\ btb \in [BtbIndices -> BtbEntry]
  /\ id_pc \in Data

(***************************************************************************)
(* What the stage promises (FetchUnit.tla): its predictions are the valid  *)
(* entries of the buffer, each found under its own index.                  *)
(***************************************************************************)
PredictedPcs == {pc \in Data : btb_hit(pc)}

Promise == INSTANCE FetchUnit WITH
             fetch_pc    <- pc_if,
             decode_pc   <- id_pc,
             predictions <- [pc \in PredictedPcs |-> btb_target(pc)]

\* A direct-mapped buffer with full tags behaves as a predictor that never
\* predicts anything but the last target resolved for the very address it is
\* asked about: an entry another branch has displaced is forgotten, never
\* answered with that branch's target (btb.sv lines 55-83, if_stage.sv 77-91).
PredictsOnlyLastTarget == Promise!Spec
=============================================================================
