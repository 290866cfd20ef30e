--------------------------- MODULE IfStageProofs ----------------------------
(***************************************************************************)
(* Theorems about the fetch stage, for every word width and buffer depth:  *)
(* its registers keep their types, and its buffer implements the predictor *)
(* of FetchUnit.                                                           *)
(***************************************************************************)
EXTENDS IfStage, ExecuteProofs

\* A lookup is always inside the buffer.
LEMMA IndexInRange == ASSUME NEW pc \in Data PROVE BtbIndex(pc) \in BtbIndices
<1>1. pc \div 4 \in Int
  BY DataIsNat
<1>2. QED
  BY <1>1, BtbDepthAssumption DEF BtbIndex, BtbIndices

\* The next address is a word, whichever of the four sources gives it
\* (if_stage.sv 77-91).
LEMMA NextPcInData ==
  ASSUME IfStageTypeOK, NEW stall, NEW mispredict, NEW corr \in Data
  PROVE  pc_next(stall, mispredict, corr) \in Data
<1>1. pc_plus4(pc_if) \in Data
  BY ToDataInData, DataIsNat DEF pc_plus4, IfStageTypeOK
<1>2. btb_target(pc_if) \in Data
  BY IndexInRange DEF btb_target, IfStageTypeOK, BtbEntry
<1>3. QED
  BY <1>1, <1>2 DEF pc_next, IfStageTypeOK

\* A clock edge with any word on the correction port keeps the types: the
\* pipeline uses this fact with its own signals on the ports.
LEMMA IfStageClockTyped ==
  ASSUME IfStageTypeOK, NEW stall \in BOOLEAN, NEW mispredict \in BOOLEAN,
         NEW corr \in Data, IfStageClock(stall, mispredict, corr)
  PROVE  IfStageTypeOK'
<1>1. pc_if' \in Data
  BY NextPcInData DEF IfStageClock
<1>2. btb' \in [BtbIndices -> BtbEntry]
  <2>1. BtbIndex(id_pc) \in BtbIndices /\ id_pc \in Data
    BY IndexInRange DEF IfStageTypeOK
  <2>2. [valid |-> TRUE, tag |-> id_pc, target |-> corr] \in BtbEntry
    BY <2>1 DEF BtbEntry
  <2>3. QED
    BY <2>1, <2>2 DEF IfStageClock, BtbUpdate, IfStageTypeOK
<1>3. id_pc' \in Data
  BY ZeroIsData DEF IfStageClock, IdPcUpdate, IfStageTypeOK
<1>4. QED
  BY <1>1, <1>2, <1>3 DEF IfStageTypeOK

LEMMA EmptyBtbTyped == EmptyBtb \in [BtbIndices -> BtbEntry]
BY ZeroIsData DEF EmptyBtb, BtbEntry

LEMMA IfStageInitTyped == IfStageInit => IfStageTypeOK
BY ZeroIsData, EmptyBtbTyped DEF IfStageInit, IfStageTypeOK

LEMMA IfStageResetTyped == IfStageReset => IfStageTypeOK'
BY ZeroIsData, EmptyBtbTyped DEF IfStageReset, IfStageTypeOK

LEMMA IfStageStepTyped == IfStageTypeOK /\ [IfStageNext]_ifVars => IfStageTypeOK'
<1> SUFFICES ASSUME IfStageTypeOK, [IfStageNext]_ifVars PROVE IfStageTypeOK'
  OBVIOUS
<1>1. CASE \E stall, mispredict \in BOOLEAN, corr \in Data :
             IfStageClock(stall, mispredict, corr)
  BY <1>1, IfStageClockTyped
<1>2. CASE IfStageReset
  BY <1>2, IfStageResetTyped
<1>3. CASE UNCHANGED ifVars
  BY <1>3 DEF ifVars, IfStageTypeOK
<1>4. QED
  BY <1>1, <1>2, <1>3 DEF IfStageNext

-----------------------------------------------------------------------------

\* The registers of the fetch stage hold words, and the buffer entries of its
\* own depth, on every clock edge and reset (pc.sv, btb.sv, if_stage.sv).
THEOREM IfStageTypeCorrect == IfStageSpec => []IfStageTypeOK
<1>1. IfStageInit => IfStageTypeOK
  BY IfStageInitTyped
<1>2. IfStageTypeOK /\ [IfStageNext]_ifVars => IfStageTypeOK'
  BY IfStageStepTyped
<1>3. QED
  BY <1>1, <1>2, PTL DEF IfStageSpec

-----------------------------------------------------------------------------
(* The refinement. Predictions is what the mapping gives for the abstract   *)
(* predictor's table.                                                       *)

Predictions == [pc \in PredictedPcs |-> btb_target(pc)]

\* Both modules read the same words.
LEMMA PromiseWords ==
  /\ Promise!Data = Data
  /\ \A n : Promise!ToData(n) = ToData(n)
BY DEF Promise!Data, Data, Promise!ToData, ToData, Promise!DataSize, DataSize,
       Promise!HalfRange, HalfRange

\* A fresh buffer predicts nothing.
LEMMA EmptyBtbPredictsNothing ==
  ASSUME btb = EmptyBtb PROVE Predictions = Promise!NoPredictions
<1>1. PredictedPcs = {}
  BY IndexInRange DEF PredictedPcs, btb_hit, EmptyBtb
<1>2. QED
  BY <1>1 DEF Predictions, Promise!NoPredictions

\* Training replaces what the one entry predicted, and keeps the rest: the
\* addresses that stay predicted are those of the other entries (btb.sv 78-82).
LEMMA TrainingIsRedirect ==
  ASSUME IfStageTypeOK, NEW stall \in BOOLEAN, NEW corr \in Data,
         IfStageClock(stall, TRUE, corr)
  PROVE  Promise!Redirect(corr)
<1> DEFINE kept == {pc \in PredictedPcs : BtbIndex(pc) # BtbIndex(id_pc)}
<1>1. pc_if' = corr /\ id_pc' = 0
  BY DEF IfStageClock, pc_next, IdPcUpdate
<1>2. btb' = [btb EXCEPT ![BtbIndex(id_pc)] =
                [valid |-> TRUE, tag |-> id_pc, target |-> corr]]
  BY DEF IfStageClock, BtbUpdate
<1>3. id_pc \in Data /\ btb \in [BtbIndices -> BtbEntry]
  BY DEF IfStageTypeOK
<1>4. ASSUME NEW pc \in Data
      PROVE  /\ btb_hit(pc)' <=> pc = id_pc \/ pc \in kept
             /\ btb_target(pc)' = IF BtbIndex(pc) = BtbIndex(id_pc)
                                  THEN corr ELSE btb_target(pc)
  <2>1. BtbIndex(pc) \in BtbIndices /\ BtbIndex(id_pc) \in BtbIndices
    BY <1>3, IndexInRange
  <2>2. btb'[BtbIndex(pc)] = IF BtbIndex(pc) = BtbIndex(id_pc)
                             THEN [valid |-> TRUE, tag |-> id_pc, target |-> corr]
                             ELSE btb[BtbIndex(pc)]
    BY <1>2, <1>3, <2>1
  <2>3. btb_target(pc)' = btb'[BtbIndex(pc)].target
    BY DEF btb_target, BtbIndex
  <2>4. btb_hit(pc)' <=> btb'[BtbIndex(pc)].valid /\ btb'[BtbIndex(pc)].tag = pc
    BY DEF btb_hit, BtbIndex
  <2>5. pc \in kept <=> btb_hit(pc) /\ BtbIndex(pc) # BtbIndex(id_pc)
    BY DEF PredictedPcs
  <2>6. QED
    BY <2>2, <2>3, <2>4, <2>5 DEF btb_hit, btb_target
<1>5. PredictedPcs' = kept \cup {id_pc}
  BY <1>3, <1>4 DEF PredictedPcs
<1>6. Predictions' = [pc \in kept \cup {id_pc} |->
                        IF pc = id_pc THEN corr ELSE Predictions[pc]]
  <2>1. \A pc \in kept \cup {id_pc} : pc \in Data
    BY <1>3 DEF PredictedPcs
  <2>2. \A pc \in kept : pc \in PredictedPcs /\ BtbIndex(pc) # BtbIndex(id_pc)
    OBVIOUS
  <2>3. \A pc \in kept \cup {id_pc} :
          btb_target(pc)' = IF pc = id_pc THEN corr ELSE Predictions[pc]
    BY <1>4, <2>1, <2>2 DEF Predictions
  <2>4. Predictions' = [pc \in PredictedPcs' |-> btb_target(pc)']
    BY DEF Predictions
  <2>5. QED
    BY <1>5, <2>3, <2>4
<1>7. kept \in SUBSET (DOMAIN Predictions \ {id_pc})
  BY DEF Predictions
<1>8. QED
  BY <1>1, <1>6, <1>7 DEF Promise!Redirect, Predictions

\* With no correction the table stays, and the address moves as predicted, or
\* on to the next word, or not at all (if_stage.sv 81-91 and 120-123).
LEMMA UncorrectedStep ==
  ASSUME IfStageTypeOK, NEW stall \in BOOLEAN, NEW corr \in Data,
         IfStageClock(stall, FALSE, corr)
  PROVE  [Promise!Next]_(Promise!fetchVars)
<1>1. UNCHANGED btb
  BY DEF IfStageClock, BtbUpdate
<1>2. Predictions' = Predictions
  BY <1>1 DEF Predictions, PredictedPcs, btb_hit, btb_target, BtbIndex
<1>3. pc_if \in DOMAIN Predictions <=> btb_hit(pc_if)
  BY DEF Predictions, PredictedPcs, IfStageTypeOK
<1>4. id_pc' = IF stall THEN id_pc ELSE pc_if
  BY DEF IfStageClock, IdPcUpdate
<1>5. CASE btb_hit(pc_if)
  <2>1. pc_if' = Predictions[pc_if]
    BY <1>3, <1>5 DEF IfStageClock, pc_next, Predictions
  <2>2. Promise!FollowPrediction(stall)
    BY <1>2, <1>3, <1>4, <1>5, <2>1 DEF Promise!FollowPrediction, Predictions
  <2>3. QED
    BY <2>2 DEF Promise!Next
<1>6. CASE ~btb_hit(pc_if) /\ ~stall
  <2>1. pc_if' = ToData(pc_if + 4)
    BY <1>6 DEF IfStageClock, pc_next, pc_plus4
  <2>2. Promise!FetchNext
    BY <1>2, <1>3, <1>4, <1>6, <2>1, PromiseWords DEF Promise!FetchNext, Predictions
  <2>3. QED
    BY <2>2 DEF Promise!Next
<1>7. CASE ~btb_hit(pc_if) /\ stall
  <2>1. pc_if' = pc_if /\ id_pc' = id_pc
    BY <1>4, <1>7 DEF IfStageClock, pc_next
  <2>2. QED
    BY <1>2, <2>1 DEF Promise!fetchVars, Predictions
<1>8. QED
  BY <1>5, <1>6, <1>7

LEMMA RefinementStep ==
  IfStageTypeOK /\ [IfStageNext]_ifVars => [Promise!Next]_(Promise!fetchVars)
<1> SUFFICES ASSUME IfStageTypeOK, [IfStageNext]_ifVars
             PROVE  [Promise!Next]_(Promise!fetchVars)
  OBVIOUS
<1>1. ASSUME NEW stall \in BOOLEAN, NEW corr \in Data,
             IfStageClock(stall, TRUE, corr)
      PROVE  Promise!Next
  BY <1>1, TrainingIsRedirect, PromiseWords DEF Promise!Next
<1>2. ASSUME NEW stall \in BOOLEAN, NEW corr \in Data,
             IfStageClock(stall, FALSE, corr)
      PROVE  [Promise!Next]_(Promise!fetchVars)
  BY <1>2, UncorrectedStep
<1>3. CASE IfStageReset
  <2>1. Predictions' = Promise!NoPredictions
    <3>1. btb' = EmptyBtb
      BY <1>3 DEF IfStageReset
    <3>2. PredictedPcs' = {}
      BY <3>1, IndexInRange DEF PredictedPcs, btb_hit, EmptyBtb, BtbIndex
    <3>3. QED
      BY <3>2 DEF Predictions, Promise!NoPredictions
  <2>2. Promise!Reset
    BY <1>3, <2>1 DEF IfStageReset, Promise!Reset, Predictions
  <2>3. QED
    BY <2>2 DEF Promise!Next
<1>4. CASE UNCHANGED ifVars
  <2>1. Predictions' = Predictions
    BY <1>4 DEF ifVars, Predictions, PredictedPcs, btb_hit, btb_target, BtbIndex
  <2>2. QED
    BY <1>4, <2>1 DEF ifVars, Promise!fetchVars, Predictions
<1>5. QED
  BY <1>1, <1>2, <1>3, <1>4 DEF IfStageNext

\* The direct-mapped, tagged buffer is a predictor that only ever answers the
\* last target resolved for the very address it is asked about, however the
\* ports are driven: the theorem behind PredictsOnlyLastTarget.
THEOREM IfStageImplementsFetchUnit == IfStageSpec => PredictsOnlyLastTarget
<1>1. IfStageInit => Promise!Init
  BY EmptyBtbPredictsNothing DEF IfStageInit, Promise!Init, Predictions
<1>2. IfStageTypeOK /\ [IfStageNext]_ifVars => [Promise!Next]_(Promise!fetchVars)
  BY RefinementStep
<1>3. IfStageSpec => []IfStageTypeOK
  BY IfStageTypeCorrect
<1>4. QED
  BY <1>1, <1>2, <1>3, PTL DEF IfStageSpec, PredictsOnlyLastTarget, Promise!Spec
=============================================================================
