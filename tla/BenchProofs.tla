----------------------------- MODULE BenchProofs -----------------------------
(***************************************************************************)
(* The handshake of sequence and driver, for every length of a sequence    *)
(* and every delay of a timed test.                                        *)
(***************************************************************************)
EXTENDS Bench, TLAPS

(* Where the test, its sequence and the driver are decides each other, so   *)
(* that neither an item nor the objection is dropped out of turn.           *)
Turns ==
  /\ runner = "raise" => sequence = "idle"
  /\ runner = "dropped" /\ test = "test_random" => sequence = "ended"
  /\ run_phase = "passed" => runner = "dropped"
  /\ sequence = "ended" => items_done = num_instructions
  /\ sequence \in {"start_item", "granted", "sent", "wait_for_item_done"}
       => items_done < num_instructions

HeldInStep ==
  /\ driver \in {"drive_transaction", "item_done"} <=> sequence = "wait_for_item_done"
  /\ driver \in {"get_next_item", "drive_transaction", "item_done"} => rst_n = 1

(* A random run, once reset is over, has an item in the driver's hands at   *)
(* every edge: nobody else it could be waiting for is left. So items and    *)
(* edges are counted off against each other, but for the one the driver is  *)
(* about to report. Until then no item has been granted, and nothing moves  *)
(* before the test has raised its objection.                                *)
ResetPending ==
  rst_n = 0 =>
    /\ edges <= RESET_EDGES /\ items_done = 0
    /\ sequence \in {"idle", "next", "start_item"}

Started ==
  /\ runner = "raise" => rst_n = 0
  /\ driver = "none" <=> ~is_active
  /\ ~is_active => runner = "raise"
  /\ test = "test_random" /\ runner # "raise" => sequence # "idle"
  /\ sequence \in {"granted", "sent"} => driver = "get_next_item"

EdgesCounted ==
  test = "test_random" /\ rst_n = 1 =>
    edges = RESET_EDGES + items_done + (IF driver = "item_done" THEN 1 ELSE 0)

BenchInv ==
  BenchTypeOK /\ Turns /\ HeldInStep /\ ResetPending /\ Started /\ EdgesCounted

LEMMA LengthsArePositive ==
  ASSUME BenchTypeOK
  PROVE  /\ num_instructions \in Nat \ {0} /\ RESET_EDGES \in Nat /\ MAX_EDGES \in Nat
         /\ RESET_EDGES + num_instructions < MAX_EDGES
BY BenchAssumption DEF BenchTypeOK

LEMMA BenchInvInit == BenchInit => BenchInv
<1>1. \A n \in NumInstructions : n \in Nat \ {0}
  BY BenchAssumption
<1>2. MAX_EDGES \in Nat /\ RESET_EDGES \in Nat
  BY BenchAssumption
<1>3. QED
  BY <1>1, <1>2 DEF BenchInit, BenchInv, BenchTypeOK, Turns, HeldInStep,
                      ResetPending, Started, EdgesCounted

LEMMA DriverKeepsInv == ASSUME BenchInv, Driver PROVE BenchInv'
<1>. USE LengthsArePositive DEF BenchInv, BenchTypeOK, Turns, HeldInStep,
           ResetPending, Started, EdgesCounted, config, busPins
<1>1. CASE ResetSignals
  BY <1>1 DEF ResetSignals
<1>2. CASE DriverSeesReset
  BY <1>2 DEF DriverSeesReset
<1>3. CASE Grant
  BY <1>3 DEF Grant
<1>4. CASE DriveTransaction
  BY <1>4 DEF DriveTransaction
<1>5. CASE ItemDone
  BY <1>5 DEF ItemDone
<1>6. QED
  BY <1>1, <1>2, <1>3, <1>4, <1>5 DEF Driver

LEMMA SequenceKeepsInv == ASSUME BenchInv, Sequence PROVE BenchInv'
<1>. USE LengthsArePositive DEF BenchInv, BenchTypeOK, Turns, HeldInStep,
           ResetPending, Started, EdgesCounted, config, busPins
<1>1. CASE StartItem
  BY <1>1 DEF StartItem
<1>2. CASE FinishItem
  BY <1>2 DEF FinishItem
<1>3. CASE BodyEnds
  BY <1>3 DEF BodyEnds
<1>4. QED
  BY <1>1, <1>2, <1>3 DEF Sequence

LEMMA RunnerKeepsInv == ASSUME BenchInv, Runner PROVE BenchInv'
<1>. USE LengthsArePositive DEF BenchInv, BenchTypeOK, Turns, HeldInStep,
           ResetPending, Started, EdgesCounted, config, busPins
<1>1. CASE BuildPhase
  BY <1>1 DEF BuildPhase
<1>2. CASE RaiseObjection
  BY <1>2 DEF RaiseObjection
<1>3. CASE DropObjection
  BY <1>3 DEF DropObjection, WindowOver
<1>4. CASE EndRun
  BY <1>4 DEF EndRun
<1>5. QED
  BY <1>1, <1>2, <1>3, <1>4 DEF Runner

LEMMA TimeKeepsInv == ASSUME BenchInv, MonitorSeesReset \/ CoreTb PROVE BenchInv'
<1>. USE LengthsArePositive DEF BenchInv, BenchTypeOK, Turns, HeldInStep,
           ResetPending, Started, EdgesCounted, config, busPins
<1>1. CASE MonitorSeesReset
  BY <1>1 DEF MonitorSeesReset
<1>2. CASE EndOfReset
  <2>1. driver # "item_done" /\ runner # "raise"
    BY <1>2 DEF EndOfReset, Ready
  <2>2. ResetPending' /\ Started' /\ EdgesCounted'
    BY <1>2, <2>1 DEF EndOfReset
  <2>3. QED
    BY <1>2, <2>2 DEF EndOfReset
<1>3. CASE ClockEdge
  <2>1. edges' \in 0 .. MAX_EDGES
    BY <1>3, BenchAssumption DEF ClockEdge
  <2>4. ASSUME test = "test_random", rst_n = 1 PROVE driver = "drive_transaction"
    BY <1>3, <2>4 DEF ClockEdge, Ready
  <2>5. ASSUME rst_n = 0 PROVE ResetPending' /\ Started' /\ EdgesCounted'
    BY <1>3, <2>5 DEF ClockEdge
  <2>6. ASSUME rst_n = 1 PROVE ResetPending' /\ Started' /\ EdgesCounted'
    <3>1. test = "test_random" => edges < MAX_EDGES
      BY <2>4, <2>6
    <3>2. QED
      BY <1>3, <2>4, <2>6, <3>1 DEF ClockEdge
  <2>7. ResetPending' /\ Started' /\ EdgesCounted'
    BY <2>5, <2>6
  <2>2. collected' \in Nat /\ imem_valid' \in {"x", "0", "1"}
    BY <1>3 DEF ClockEdge
  <2>3. QED
    BY <1>3, <2>1, <2>2, <2>7 DEF ClockEdge
<1>4. QED
  BY <1>1, <1>2, <1>3 DEF CoreTb

LEMMA BenchInvStep == BenchInv /\ [BenchNext]_benchVars => BenchInv'
<1>1. CASE UNCHANGED benchVars
  BY <1>1 DEF benchVars, config, busPins, BenchInv, BenchTypeOK, Turns, HeldInStep,
              ResetPending, Started, EdgesCounted
<1>2. QED
  BY <1>1, DriverKeepsInv, SequenceKeepsInv, RunnerKeepsInv, TimeKeepsInv DEF BenchNext

LEMMA BenchInvAlways == BenchSpec => []BenchInv
BY BenchInvInit, BenchInvStep, PTL DEF BenchSpec

-----------------------------------------------------------------------------

\* Every process is where it can be, and no item is done that was not asked for
\* (random_instr_seq.sv 40-51, mem_driver.sv 36-65).
THEOREM BenchTypeCorrect == BenchSpec => []BenchTypeOK
<1>1. BenchInv => BenchTypeOK
  BY DEF BenchInv
<1>2. QED
  BY <1>1, BenchInvAlways, PTL

\* Item for item the sequence keeps up with the clock, from the end of reset to
\* the end of the run, however long both are (mem_driver.sv 43-47, 58-60).
THEOREM OneItemPerEdgeAlways == BenchSpec => []OneItemPerEdge
<1>1. BenchInv => OneItemPerEdge
  <2> SUFFICES ASSUME BenchInv, test = "test_random",
                      run_phase = "passed" \/ (Running /\ ~Ready /\ sequence = "wait_for_item_done")
               PROVE  items_done = edges - RESET_EDGES
    BY DEF OneItemPerEdge
  <2> USE LengthsArePositive DEF BenchInv, BenchTypeOK, Turns, HeldInStep, ResetPending, EdgesCounted
  <2>1. rst_n = 1 /\ driver # "item_done"
    BY DEF Ready
  <2>2. QED
    BY <2>1
<1>2. QED
  BY <1>1, BenchInvAlways, PTL

\* The driver has an item in hand exactly while the sequence waits for it, and a
\* random run ends with every item done (mem_driver.sv 39-48,
\* random_instr_seq.sv 40-48, test_random.sv 34-45).
THEOREM HandshakeInStepAlways == BenchSpec => []HandshakeInStep
<1>1. BenchInv => HandshakeInStep
  BY DEF BenchInv, Turns, HeldInStep, HandshakeInStep
<1>2. QED
  BY <1>1, BenchInvAlways, PTL
=============================================================================
