------------------------------ MODULE MCBench -------------------------------
(***************************************************************************)
(* Every test of tests/ with the delays of the code, in rising edges of    *)
(* the 20 ns clock, and random sequences of one to five items.             *)
(***************************************************************************)
EXTENDS Bench

MCWindows ==
  [t \in {"test_smoke", "test_c_runtime", "test_hazards"} |-> IF t = "test_hazards" THEN 20 ELSE 25]

\* test_hazards "validates that structural stalls and bypasses clear cleanly"
\* (tests/test_hazards.sv:7), the scoreboard "Perform[s] Self-Checking Functional
\* Verification" (env/core_scoreboard.sv:144): a run that passes has checked an
\* instruction. But nobody drives imem_valid high (mem_driver.sv 50-65), and the
\* monitor samples valid cycles only (mem_monitor.sv 68).
PassedRunsChecked == run_phase = "passed" => collected > 0
=============================================================================
