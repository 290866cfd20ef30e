----------------------------- MODULE Scoreboard -----------------------------
(***************************************************************************)
(* The passive half of the test bench: the monitor and the scoreboard      *)
(* (dv/env/core_scoreboard.sv) behind its analysis port, on any sequence   *)
(* of instructions of a core that writes the right word or another one.    *)
(*                                                                         *)
(* A transaction's pc and wb_data take every value of small sets: the      *)
(* monitor leaves both unassigned, which the two-state simulator of        *)
(* sim/run_regression.sh makes 0, and the scoreboard's contract is a word  *)
(* captured from the core.                                                 *)
(***************************************************************************)
EXTENDS Monitor, ExpectedArith

CONSTANTS
  Words,        \* instructions on the bus
  Pcs,          \* their addresses
  WbData,       \* what a core that errs may write
  MAX_INSTRS    \* bound of the run

ASSUME ScoreboardAssumption ==
  /\ Words \subseteq Instr /\ Pcs \subseteq Data /\ WbData \subseteq Data
  /\ MAX_INSTRS \in Nat

VARIABLES
  tx,           \* the transaction broadcast last
  register_file_mirror, match_count, mismatch_count, completed_instrs,
  status,       \* of the run: "running", then what report_phase makes of it
  dut,          \* ghost: the core's registers
  spoiled,      \* ghost: registers whose last write was reported
  erred         \* ghost: the core has written a wrong word

counters == <<match_count, mismatch_count, completed_instrs>>
scoreboardVars == <<tx, register_file_mirror, counters, status, dut, spoiled, erred>>

\* The value a transaction is expected to write, over a register file.
expected_data(t, regs) ==
  CASE t.opcode = "OP_R_TYPE" -> expected_arith(t, regs[t.rs1], regs[t.rs2])
    [] t.opcode = "OP_I_TYPE" -> expected_arith(t, regs[t.rs1], t.imm)
    [] t.opcode = "OP_LUI"    -> t.imm
    [] t.opcode = "OP_AUIPC"  -> ToData(t.pc + t.imm)
    [] t.opcode = "OP_LOAD"   -> t.wb_data
    [] t.opcode \in {"OP_JAL", "OP_JALR"} -> ToData(t.pc + 4)
    [] t.opcode \in {"OP_STORE", "OP_BRANCH", "OP_OTHER"} -> REG_ZERO

WritebackOpcodes ==
  {"OP_R_TYPE", "OP_I_TYPE", "OP_LUI", "OP_AUIPC", "OP_LOAD", "OP_JAL", "OP_JALR"}

\* x0 written like any other register.
IsWritebackX0(t) == t.opcode \in WritebackOpcodes

is_writeback_instr(t) == t.opcode \in WritebackOpcodes /\ t.rd # REG_ZERO

Mismatches(t) == is_writeback_instr(t) /\ t.wb_data # expected_data(t, register_file_mirror)
Matches(t)    == is_writeback_instr(t) /\ t.wb_data = expected_data(t, register_file_mirror)

EmptyMirror == [r \in RegAddr |-> REG_ZERO]

\* write: the mirror only advances on a match.
Score(t) ==
  /\ completed_instrs' = completed_instrs + 1
  /\ mismatch_count' = mismatch_count + (IF Mismatches(t) THEN 1 ELSE 0)
  /\ match_count' = match_count + (IF Matches(t) THEN 1 ELSE 0)
  /\ register_file_mirror' =
       IF Matches(t)
       THEN [register_file_mirror EXCEPT ![t.rd] = expected_data(t, register_file_mirror)]
       ELSE register_file_mirror

-----------------------------------------------------------------------------
(* The core, as far as the checker can be right or wrong about it: the      *)
(* registers it has written, and the word the instruction set asks for over *)
(* those registers, with the core's own immediate.                          *)

CoreWrites(instr) == reg_we(instr) /\ instr.rd # REG_ZERO

Architectural(instr, pc, wb_data) ==
  expected_data([Transaction(instr, pc, wb_data) EXCEPT !.imm = imm_gen(instr)], dut)

\* A load's word is taken as given: the scoreboard has no memory.
Right(instr, pc, wb_data) == wb_data = Architectural(instr, pc, wb_data)

Observe(instr, pc, wb_data) ==
  /\ dut' = IF CoreWrites(instr) THEN [dut EXCEPT ![instr.rd] = wb_data] ELSE dut
  /\ erred' = (erred \/ (CoreWrites(instr) /\ ~Right(instr, pc, wb_data)))
  /\ spoiled' = IF Mismatches(Transaction(instr, pc, wb_data)) THEN spoiled \cup {instr.rd}
                ELSE IF Matches(Transaction(instr, pc, wb_data)) THEN spoiled \ {instr.rd}
                ELSE spoiled

NoTransaction == Transaction(ZeroInstr, 0, 0)

ScoreboardInit ==
  /\ tx = NoTransaction
  /\ register_file_mirror = EmptyMirror
  /\ match_count = 0 /\ mismatch_count = 0 /\ completed_instrs = 0
  /\ status = "running"
  /\ dut = EmptyMirror
  /\ spoiled = {}
  /\ erred = FALSE

\* A valid word is sampled, decoded and handed to the scoreboard.
Write(instr, pc, wb_data) ==
  /\ status = "running"
  /\ completed_instrs < MAX_INSTRS
  /\ tx' = Transaction(instr, pc, wb_data)
  /\ Score(Transaction(instr, pc, wb_data))
  /\ Observe(instr, pc, wb_data)
  /\ UNCHANGED status

\* A run that checked something is a good one.
ReportAnyMatch ==
  /\ status = "running"
  /\ status' = IF mismatch_count > match_count THEN "failed" ELSE "passed"
  /\ UNCHANGED <<tx, register_file_mirror, counters, dut, spoiled, erred>>

report_phase ==
  /\ status = "running"
  /\ status' = IF mismatch_count > 0 THEN "failed" ELSE "passed"
  /\ UNCHANGED <<tx, register_file_mirror, counters, dut, spoiled, erred>>

ScoreboardNext ==
  \/ \E instr \in Words, pc \in Pcs :
       \E wb_data \in WbData \cup {Architectural(instr, pc, 0)} : Write(instr, pc, wb_data)
  \/ report_phase

ScoreboardSpec == ScoreboardInit /\ [][ScoreboardNext]_scoreboardVars

-----------------------------------------------------------------------------

\* Every variable has its type, every immediate is a word, and no transaction
\* is counted twice.
ScoreboardTypeOK ==
  /\ register_file_mirror \in [RegAddr -> Data]
  /\ match_count \in Nat /\ mismatch_count \in Nat /\ completed_instrs \in Nat
  /\ match_count + mismatch_count <= completed_instrs
  /\ status \in {"running", "passed", "failed"}
  /\ dut \in [RegAddr -> Data]
  /\ spoiled \subseteq RegAddr
  /\ erred \in BOOLEAN
  /\ tx.imm \in Data /\ tx.pc \in Data /\ tx.wb_data \in Data

\* The mirror holds the core's registers, all but those whose last write was
\* reported as a mismatch; x0 is never among them and stays zero
\* (core_scoreboard.sv 144-154).
MirrorFollowsTheCore ==
  /\ \A r \in RegAddr \ spoiled : register_file_mirror[r] = dut[r]
  /\ REG_ZERO \notin spoiled /\ register_file_mirror[REG_ZERO] = 0

\* The registers an expected value is computed from.
Sources(instr) ==
  CASE instr.opcode = "OP_R_TYPE" -> {instr.rs1, instr.rs2}
    [] instr.opcode = "OP_I_TYPE" -> {instr.rs1}
    [] instr.opcode \notin {"OP_R_TYPE", "OP_I_TYPE"} -> {}

\* An instruction that reads no spoiled register is held to what the core's own
\* registers and immediate generator make right, so one mismatch is passed on
\* to readers of its register only (core_scoreboard.sv 66-142 with
\* mem_monitor.sv 80-128 against imm_gen.sv 27-64).
OnlyReadersOfSpoiledAreMisjudged ==
  \A instr \in Words, pc \in Pcs, wb_data \in WbData :
    CoreWrites(instr) /\ Sources(instr) \cap spoiled = {} =>
      expected_data(Transaction(instr, pc, wb_data), register_file_mirror) =
        Architectural(instr, pc, wb_data)

\* The verdict is exact: the run passes only if the core never wrote a wrong
\* word, and fails only if it did, though mismatches behind the first may be
\* false alarms or hide errors (core_scoreboard.sv 145-154, 166-168).
VerdictIsExact ==
  /\ status = "passed" => ~erred
  /\ status = "failed" => erred

\* The immediate the monitor "[r]econstruct[s]" (mem_monitor.sv 80) from an
\* instruction is the one the core works with, two decoders written apart
\* (mem_monitor.sv 90-128, imm_gen.sv 23-75), but for the offsets of branches and
\* jal: those the monitor gets wrong, as BackwardOffsetsLoseTheirSign proves.
\* R-type has none in the core.
ImmediatesAsTheCore ==
  tx.opcode \notin {"OP_BRANCH", "OP_JAL", "OP_R_TYPE"} => tx.imm = imm_gen(tx)
=============================================================================
