------------------------------ MODULE MCUnits -------------------------------
(***************************************************************************)
(* The parts of the core on their own, ports driven with every value: the  *)
(* combinational units on every pair of operands of every arithmetic       *)
(* instruction, the load-store unit on every store to every word, the      *)
(* fetch stage on a buffer of two entries that branches share. They have   *)
(* no state in common, so a behaviour drives one of them and lets the      *)
(* others rest.                                                            *)
(***************************************************************************)
EXTENDS Units, LoadStore, IfStage

VARIABLE unit   \* the one that is driven

ArithmeticRests == tx = (CHOOSE t \in ArithTx : TRUE) /\ op_a = 0 /\ op_b = 0
LoadStoreRests  == mem = (CHOOSE w \in Word : TRUE) /\ stored = NoStore
FetchRests      == IfStageInit

PartsInit ==
  \/ unit = "arithmetic" /\ UnitsInit /\ LoadStoreRests /\ FetchRests
  \/ unit = "load_store" /\ LoadStoreInit /\ ArithmeticRests /\ FetchRests
  \/ unit = "fetch" /\ IfStageInit /\ ArithmeticRests /\ LoadStoreRests

PartsNext ==
  /\ UNCHANGED unit
  /\ \/ unit = "arithmetic" /\ UnitsNext /\ UNCHANGED <<lsuVars, ifVars>>
     \/ unit = "load_store" /\ LoadStoreNext /\ UNCHANGED <<unitVars, ifVars>>
     \/ unit = "fetch" /\ IfStageNext /\ UNCHANGED <<unitVars, lsuVars>>

PartsSpec == PartsInit /\ [][PartsNext]_<<unit, unitVars, lsuVars, ifVars>>
=============================================================================
