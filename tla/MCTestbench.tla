---------------------------- MODULE MCTestbench -----------------------------
(***************************************************************************)
(* The two halves of the test bench. They meet in the analysis port only,  *)
(* and nobody drives imem_valid (mem_driver.sv 50-65), so nothing passes   *)
(* it: a behaviour is a run of the active half, or one of the passive half *)
(* fed any instructions while the bench is over.                           *)
(***************************************************************************)
EXTENDS MCBench, MCScoreboard

VARIABLE half   \* the one that is followed

\* The end of test_smoke in a passive bench: no driver, so no way on.
BenchIsOver ==
  /\ test = "test_smoke" /\ is_active = FALSE /\ num_instructions = 1
  /\ edges = 0 /\ rst_n = 0 /\ imem_valid = "x" /\ drv_cb = "none"
  /\ driver = "none" /\ monitor = "wait_reset" /\ sequence = "idle" /\ runner = "raise"
  /\ items_done = 0 /\ collected = 0
  /\ run_phase = "fatal"

TestbenchInit ==
  \/ half = "active" /\ BenchInit /\ ScoreboardInit
  \/ half = "passive" /\ BenchIsOver /\ ScoreboardInit

TestbenchNext ==
  /\ UNCHANGED half
  /\ \/ half = "active" /\ BenchNext /\ UNCHANGED scoreboardVars
     \/ half = "passive" /\ ScoreboardNext /\ UNCHANGED benchVars

TestbenchSpec ==
  TestbenchInit /\ [][TestbenchNext]_<<half, benchVars, scoreboardVars>> /\ BenchFairness
=============================================================================
