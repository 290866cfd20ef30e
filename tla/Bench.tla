------------------------------- MODULE Bench --------------------------------
(***************************************************************************)
(* The test bench as its processes: the clock and reset of core_tb.sv, a   *)
(* test (tests/), its sequence (env/sequences/random_instr_seq.sv), the    *)
(* sequencer's handshake, the driver and the monitor (env/memory_agent/).  *)
(* What the scoreboard does with a transaction is in Scoreboard.tla.       *)
(*                                                                         *)
(* Simulation time stands still while a process can run; then comes the    *)
(* next event of core_tb, the rising clock edge or the end of reset.       *)
(***************************************************************************)
EXTENDS Integers

CONSTANTS
  NumInstructions,   \* lengths of random sequences (5000 to 15000)
  RESET_EDGES,       \* rising edges before rst_n rises: #40ns
  Windows,           \* timed test -> rising edges in its delay
  MAX_EDGES          \* edges are counted up to here: more than any run takes

ASSUME BenchAssumption ==
  /\ NumInstructions \subseteq Nat \ {0}
  /\ RESET_EDGES \in Nat
  /\ "test_random" \notin DOMAIN Windows
  /\ MAX_EDGES \in Nat
  /\ \A t \in DOMAIN Windows : Windows[t] \in 0 .. MAX_EDGES - 1
  /\ \A n \in NumInstructions : RESET_EDGES + n < MAX_EDGES

VARIABLES
  test,              \* +UVM_TESTNAME
  is_active,         \* of the agent: whether driver and sequencer are built
  num_instructions,
  edges, rst_n,      \* core_tb
  imem_valid,        \* the pin; "x" until it is driven
  drv_cb,            \* what the driver's clocking block puts on it next
  driver, monitor, sequence, runner,   \* where each process is
  items_done,
  collected,         \* transactions the monitor has broadcast
  run_phase          \* "build", "running", then how the simulation ended

busPins  == <<edges, rst_n, imem_valid, drv_cb>>
config   == <<test, is_active, num_instructions>>
benchVars == <<config, busPins, driver, monitor, sequence, runner, items_done, collected,
               run_phase>>

Tests == {"test_random"} \cup DOMAIN Windows

Running == run_phase = "running"

BenchInit ==
  /\ test \in Tests /\ is_active \in BOOLEAN /\ num_instructions \in NumInstructions
  /\ edges = 0 /\ rst_n = 0 /\ imem_valid = "x" /\ drv_cb = "none"
  /\ driver = IF is_active THEN "reset_signals" ELSE "none"
  /\ monitor = "wait_reset"
  /\ sequence = "idle"
  /\ runner = "raise"
  /\ items_done = 0 /\ collected = 0
  /\ run_phase = "build"

-----------------------------------------------------------------------------
(* Before time starts: build_phase of the monitor, and of the driver if it  *)
(* is built. core_tb publishes a virtual core_if, they look for one of      *)
(* their modport; whether that is the same type is the simulator's choice.  *)

BuildPhase ==
  /\ run_phase = "build"
  /\ \E vif_found \in BOOLEAN : run_phase' = IF vif_found THEN "running" ELSE "fatal"
  /\ UNCHANGED <<config, busPins, driver, monitor, sequence, runner, items_done, collected>>

-----------------------------------------------------------------------------
(* The driver: run_phase of mem_driver.                                     *)

ResetSignals ==
  /\ Running /\ driver = "reset_signals"
  /\ drv_cb' = "0"
  /\ driver' = "wait_reset"
  /\ UNCHANGED <<config, edges, rst_n, imem_valid, monitor, sequence, runner, items_done,
                 collected, run_phase>>

\* A driver that does not wait for the end of reset.
DriverIgnoresReset ==
  /\ Running /\ driver = "wait_reset"
  /\ driver' = "get_next_item"
  /\ UNCHANGED <<config, busPins, monitor, sequence, runner, items_done, collected, run_phase>>

DriverSeesReset ==
  /\ Running /\ driver = "wait_reset" /\ rst_n = 1
  /\ driver' = "get_next_item"
  /\ UNCHANGED <<config, busPins, monitor, sequence, runner, items_done, collected, run_phase>>

\* get_next_item arbitrates among the sequences that have asked.
Grant ==
  /\ Running /\ driver = "get_next_item" /\ sequence = "start_item"
  /\ sequence' = "granted"
  /\ UNCHANGED <<config, busPins, driver, monitor, runner, items_done, collected, run_phase>>

\* Driving without a clock edge.
DriveTransactionAtOnce ==
  /\ Running /\ driver = "get_next_item" /\ sequence = "sent"
  /\ sequence' = "wait_for_item_done"
  /\ driver' = "item_done"
  /\ UNCHANGED <<config, busPins, monitor, runner, items_done, collected, run_phase>>

\* The item arrives, and the driver waits for a clock edge: it drives nothing.
DriveTransaction ==
  /\ Running /\ driver = "get_next_item" /\ sequence = "sent"
  /\ sequence' = "wait_for_item_done"
  /\ driver' = "drive_transaction"
  /\ UNCHANGED <<config, busPins, monitor, runner, items_done, collected, run_phase>>

\* The loop goes on without telling the sequencer.
ItemDoneForgotten ==
  /\ Running /\ driver = "item_done"
  /\ driver' = "get_next_item"
  /\ UNCHANGED <<config, busPins, monitor, sequence, runner, items_done, collected, run_phase>>

ItemDone ==
  /\ Running /\ driver = "item_done"
  /\ driver' = "get_next_item"
  /\ sequence' = "next"
  /\ items_done' = items_done + 1
  /\ UNCHANGED <<config, busPins, monitor, runner, collected, run_phase>>

-----------------------------------------------------------------------------
(* The sequence: body of random_instr_seq.                                  *)

\* One item too many.
StartItemInclusive ==
  /\ Running /\ sequence = "next" /\ items_done <= num_instructions
  /\ sequence' = "start_item"
  /\ UNCHANGED <<config, busPins, driver, monitor, runner, items_done, collected, run_phase>>

StartItem ==
  /\ Running /\ sequence = "next" /\ items_done < num_instructions
  /\ sequence' = "start_item"
  /\ UNCHANGED <<config, busPins, driver, monitor, runner, items_done, collected, run_phase>>

\* randomize, whose constraints always have a solution, and send_request.
FinishItem ==
  /\ Running /\ sequence = "granted"
  /\ sequence' = "sent"
  /\ UNCHANGED <<config, busPins, driver, monitor, runner, items_done, collected, run_phase>>

BodyEnds ==
  /\ Running /\ sequence = "next" /\ items_done >= num_instructions
  /\ sequence' = "ended"
  /\ UNCHANGED <<config, busPins, driver, monitor, runner, items_done, collected, run_phase>>

-----------------------------------------------------------------------------
(* The test: run_phase of test_random, or of one that loads a program (the  *)
(* driver's load_backdoor_program is empty) and waits.                      *)

RaiseObjection ==
  /\ Running /\ runner = "raise"
  /\ IF is_active
     THEN /\ runner' = "objects"
          /\ sequence' = IF test = "test_random" THEN "next" ELSE "idle"
          /\ UNCHANGED run_phase
     ELSE /\ run_phase' = "fatal"       \* no sequencer, or no driver
          /\ UNCHANGED <<runner, sequence>>
  /\ UNCHANGED <<config, busPins, driver, monitor, items_done, collected>>

WindowOver == test # "test_random" /\ edges = Windows[test]

\* The objection of a timed test is the only one dropped.
DropObjectionTimed ==
  /\ Running /\ runner = "objects"
  /\ WindowOver
  /\ runner' = "dropped"
  /\ UNCHANGED <<config, busPins, driver, monitor, sequence, items_done, collected, run_phase>>

DropObjection ==
  /\ Running /\ runner = "objects"
  /\ sequence = "ended" \/ WindowOver
  /\ runner' = "dropped"
  /\ UNCHANGED <<config, busPins, driver, monitor, sequence, items_done, collected, run_phase>>

\* No objection is left: the phase ends, its processes are killed, and
\* report_phase finds no mismatch.
EndRun ==
  /\ Running /\ runner = "dropped"
  /\ run_phase' = "passed"
  /\ UNCHANGED <<config, busPins, driver, monitor, sequence, runner, items_done, collected>>

-----------------------------------------------------------------------------

MonitorSeesReset ==
  /\ Running /\ monitor = "wait_reset" /\ rst_n = 1
  /\ monitor' = "collect_transaction"
  /\ UNCHANGED <<config, busPins, driver, sequence, runner, items_done, collected, run_phase>>

\* A process that can run without waiting for core_tb.
Ready ==
  \/ driver \in {"reset_signals", "item_done"}
  \/ driver = "wait_reset" /\ rst_n = 1
  \/ monitor = "wait_reset" /\ rst_n = 1
  \/ driver = "get_next_item" /\ sequence \in {"start_item", "sent"}
  \/ sequence \in {"next", "granted"}
  \/ runner \in {"raise", "dropped"}
  \/ runner = "objects" /\ (sequence = "ended" \/ WindowOver)

EndOfReset ==
  /\ Running /\ ~Ready
  /\ rst_n = 0 /\ edges = RESET_EDGES
  /\ rst_n' = 1
  /\ UNCHANGED <<config, edges, imem_valid, drv_cb, driver, monitor, sequence, runner, items_done,
                 collected, run_phase>>

\* A rising edge: the monitor samples the pin as it was, the clocking block
\* drives it, and drive_transaction goes on.
ClockEdge ==
  /\ Running /\ ~Ready
  /\ ~(rst_n = 0 /\ edges = RESET_EDGES)
  /\ edges' = IF edges < MAX_EDGES THEN edges + 1 ELSE edges
  /\ collected' = collected +
       (IF monitor = "collect_transaction" /\ imem_valid = "1" THEN 1 ELSE 0)
  /\ imem_valid' = IF drv_cb = "none" THEN imem_valid ELSE drv_cb
  /\ drv_cb' = "none"
  /\ driver' = IF driver = "drive_transaction" THEN "item_done" ELSE driver
  /\ UNCHANGED <<config, rst_n, monitor, sequence, runner, items_done, run_phase>>

Driver   == ResetSignals \/ DriverSeesReset \/ Grant \/ DriveTransaction \/ ItemDone
Sequence == StartItem \/ FinishItem \/ BodyEnds
Runner   == BuildPhase \/ RaiseObjection \/ DropObjection \/ EndRun
CoreTb   == EndOfReset \/ ClockEdge

BenchNext == Driver \/ Sequence \/ Runner \/ MonitorSeesReset \/ CoreTb

BenchSpec == BenchInit /\ [][BenchNext]_benchVars

\* The simulator runs every process that can run, and time goes on.
BenchFairness ==
  /\ WF_benchVars(Driver) /\ WF_benchVars(Sequence) /\ WF_benchVars(Runner)
  /\ WF_benchVars(MonitorSeesReset) /\ WF_benchVars(CoreTb)

-----------------------------------------------------------------------------

\* Every process is where it can be, and no item is done that was not asked for
\* (random_instr_seq.sv 40-51, mem_driver.sv 36-65).
BenchTypeOK ==
  /\ test \in Tests /\ is_active \in BOOLEAN /\ num_instructions \in NumInstructions
  /\ edges \in 0 .. MAX_EDGES /\ rst_n \in {0, 1}
  /\ imem_valid \in {"x", "0", "1"} /\ drv_cb \in {"none", "0", "1"}
  /\ driver \in {"none", "reset_signals", "wait_reset", "get_next_item", "drive_transaction",
                 "item_done"}
  /\ monitor \in {"wait_reset", "collect_transaction"}
  /\ sequence \in {"idle", "next", "start_item", "granted", "sent", "wait_for_item_done", "ended"}
  /\ runner \in {"raise", "objects", "dropped"}
  /\ items_done \in 0 .. num_instructions /\ collected \in Nat
  /\ run_phase \in {"build", "running", "passed", "fatal"}

\* The driver holds an item exactly while its sequence waits for it to be done,
\* so no item is lost, taken twice or taken during reset, and the phase ends
\* with none in flight (mem_driver.sv 39-48, random_instr_seq.sv 40-48).
HandshakeInStep ==
  /\ driver \in {"drive_transaction", "item_done"} <=> sequence = "wait_for_item_done"
  /\ driver \in {"get_next_item", "drive_transaction", "item_done"} => rst_n = 1
  /\ run_phase = "passed" /\ test = "test_random" =>
       items_done = num_instructions /\ sequence = "ended"

\* An item takes one clock period, from the first edge after reset on: whenever
\* time is about to pass, every edge so far has finished one, and so has the
\* whole run (mem_driver.sv 43-47, 58-60).
OneItemPerEdge ==
  /\ test = "test_random"
  /\ run_phase = "passed" \/ (Running /\ ~Ready /\ sequence = "wait_for_item_done")
  => items_done = edges - RESET_EDGES

\* Every item the sequence starts is finished (random_instr_seq.sv 40-48 with
\* mem_driver.sv 43-47).
EveryItemFinishes ==
  \A n \in NumInstructions :
    (sequence = "start_item" /\ items_done = n - 1) ~> (items_done = n)

\* Every test comes to its end, whichever way its objection is dropped, or is not
\* run at all (test_random.sv 34-45, test_smoke.sv 30-48, mem_monitor.sv 37-46).
EveryRunEnds == <>(run_phase \in {"passed", "fatal"})
=============================================================================
