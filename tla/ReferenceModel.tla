--------------------------- MODULE ReferenceModel ---------------------------
(***************************************************************************)
(* The reference model of the test bench (dv/env/core_scoreboard.sv): one  *)
(* instruction at a time, in program order, over a mirror of the register  *)
(* file. It has no pipeline: an instruction reads what every instruction   *)
(* before it has written.                                                  *)
(*                                                                         *)
(* The scoreboard takes the word a load wrote as right and never looks at  *)
(* where a branch or jump goes, so either may be any word here.            *)
(***************************************************************************)
EXTENDS Decode, ExpectedArith

VARIABLES
  imem,                 \* the program
  register_file_mirror,
  tx_pc                 \* the address of the next transaction

refVars == <<imem, register_file_mirror, tx_pc>>

Fetch(pc) == imem[(pc \div 4) % NUM_REGISTERS]

\* The value written back, bus_data being what a load brings.
expected_data(tx, bus_data) ==
  CASE tx.opcode = "OP_R_TYPE" ->
         expected_arith(tx, register_file_mirror[tx.rs1], register_file_mirror[tx.rs2])
    [] tx.opcode = "OP_I_TYPE" ->
         expected_arith(tx, register_file_mirror[tx.rs1], imm_gen(tx))
    [] tx.opcode = "OP_LUI"    -> imm_gen(tx)
    [] tx.opcode = "OP_AUIPC"  -> ToData(tx_pc + imm_gen(tx))
    [] tx.opcode = "OP_LOAD"   -> bus_data
    [] tx.opcode \in {"OP_JAL", "OP_JALR"} -> ToData(tx_pc + 4)

is_writeback_instr(tx) ==
  /\ tx.opcode \notin {"OP_STORE", "OP_BRANCH", "OP_OTHER"}
  /\ tx.rd # REG_ZERO

IsControlFlow(tx) == tx.opcode \in {"OP_BRANCH", "OP_JAL", "OP_JALR"}

\* One transaction that matches. The mirror is only written when the core wrote
\* the expected word: a mismatch is an error of the bench and no step here.
Retire(bus_data) ==
  LET tx == Fetch(tx_pc)
  IN  /\ register_file_mirror' =
           IF is_writeback_instr(tx)
           THEN [register_file_mirror EXCEPT ![tx.rd] = expected_data(tx, bus_data)]
           ELSE register_file_mirror
      /\ IF IsControlFlow(tx) THEN tx_pc' \in Data ELSE tx_pc' = ToData(tx_pc + 4)
      /\ UNCHANGED imem

EmptyMirror == [r \in RegAddr |-> 0]

\* The core is reset: the bench starts over.
Restart ==
  /\ register_file_mirror' = EmptyMirror
  /\ tx_pc' = 0
  /\ UNCHANGED imem

Init ==
  /\ register_file_mirror = EmptyMirror
  /\ tx_pc = 0

Next == (\E bus_data \in Data : Retire(bus_data)) \/ Restart

Spec == Init /\ [][Next]_refVars
=============================================================================
