---------------------------- MODULE CoreCommits -----------------------------
(***************************************************************************)
(* The core against the reference model of the test bench: what it writes  *)
(* back, in what order, as long as no instruction gets in another's way.   *)
(*                                                                         *)
(* A branch or jump that redirects is squashed in decode, and the word     *)
(* behind it is flushed: it writes nothing, but the reference model takes  *)
(* it in its turn. So the history goes on with such a branch, through the  *)
(* stages that its bubble takes: turn_ex, turn_mem, turn_wb.               *)
(***************************************************************************)
EXTENDS CoreTrace

VARIABLES turn_ex, turn_mem, turn_wb

turns      == <<turn_ex, turn_mem, turn_wb>>
commitVars == <<traceVars, turns>>

CommitInit ==
  /\ TraceInit
  /\ turn_ex = Bubble
  /\ turn_mem = Bubble
  /\ turn_wb = Bubble

CommitTick ==
  /\ TraceTick
  /\ turn_ex' = IF ex_mispredict THEN slot_id ELSE Bubble
  /\ turn_mem' = turn_ex
  /\ turn_wb' = turn_mem

CommitReset ==
  /\ TraceReset
  /\ turn_ex' = Bubble
  /\ turn_mem' = Bubble
  /\ turn_wb' = Bubble

CommitNext == CommitTick \/ CommitReset
CommitSpec == CommitInit /\ [][CommitNext]_commitVars

-----------------------------------------------------------------------------
(***************************************************************************)
(* When one instruction is in another's way. The distances are those of    *)
(* the pipeline: decode reads while the three instructions ahead have not  *)
(* written yet, the forwarding unit looks at the source fields of the      *)
(* instruction behind the one in EX, and a load stalls whoever is right    *)
(* behind it and names its register, read or not. Only instructions whose  *)
(* word the scoreboard computes itself need what they read.                *)
(***************************************************************************)
Writes(instr, r)   == reg_we(instr) /\ r # REG_ZERO /\ instr.rd = r
ReadsFirst(instr)  == instr.opcode \in {"OP_R_TYPE", "OP_I_TYPE"}
ReadsSecond(instr) == instr.opcode = "OP_R_TYPE"

ReadsPast(instr, older) ==
  /\ ReadsFirst(instr) => ~Writes(older, instr.rs1)
  /\ ReadsSecond(instr) => ~Writes(older, instr.rs2)

NamesNothingOf(instr, older) ==
  ~Writes(older, instr.rs1) /\ ~Writes(older, instr.rs2)

KeepsClearOfNext(instr, older) ==
  /\ ReadsPast(instr, older)
  /\ mem_to_reg(older) => NamesNothingOf(instr, older)

\* What the core does not do as the scoreboard expects: set one bit for a
\* comparison that holds (alu.sv 81), and write a link (core_top.sv 98).
SetsLessThan(instr) ==
  instr.opcode \in {"OP_R_TYPE", "OP_I_TYPE"} /\ instr.funct3 \in {F3_SLT, F3_SLTU}
WritesLink(instr)   == jump(instr) /\ instr.rd # REG_ZERO
AsExpected(instr)   == ~SetsLessThan(instr) /\ ~WritesLink(instr)

\* The instruction in decode is in nobody's way, and nobody in its.
NothingInTheWay ==
  slot_id.valid =>
    /\ AsExpected(Holds(slot_id))
    /\ slot_ex.valid => KeepsClearOfNext(Holds(slot_id), Holds(slot_ex))
    /\ \A s \in {slot_mem, slot_wb} :
         s.valid => NamesNothingOf(Holds(slot_id), Holds(s))

\* Any program, for as long as nothing is in the way.
ClearTick == NothingInTheWay /\ CommitTick
ClearSpec == CommitInit /\ [][ClearTick \/ CommitReset]_commitVars

\* Straight-line programs that keep clear by themselves. The instruction n
\* words before the one at index k:
Before(program, k, n) == program[(k + (NUM_REGISTERS - 1) * n) % NUM_REGISTERS]

HazardFree(program) ==
  \A k \in 0 .. NUM_REGISTERS - 1 :
    /\ ~branch(program[k]) /\ ~jump(program[k])
    /\ AsExpected(program[k])
    /\ KeepsClearOfNext(program[k], Before(program, k, 1))
    /\ \A n \in 2 .. 3 : NamesNothingOf(program[k], Before(program, k, n))

\* An address has bits for the program's words and their bytes, so the program
\* comes round where the program counter does.
ASSUME AddressAssumption == DATA_WIDTH >= 4

\* A program that HazardFree says to be free of hazards, by looking at its
\* words alone, never has an instruction in another's way: not at the seam where
\* the program counter comes round, and not after any reset (core_top.sv,
\* if_stage.sv 77-91, imem.sv).
HazardFreeKeepsClear == NothingInTheWay \/ ~HazardFree(imem)

\* The whole runs of such programs.
HazardFreeInit == CommitInit /\ HazardFree(imem)
HazardFreeSpec == HazardFreeInit /\ [][CommitNext]_commitVars

-----------------------------------------------------------------------------
\* What is in flight in a later stage, be it on its way as a turn; and the next
\* instruction to be retired, the oldest in flight.
Flying(slot, turn) == IF turn.valid THEN turn ELSE slot

InEx  == Flying(slot_ex, turn_ex)
InMem == Flying(slot_mem, turn_mem)
InWb  == Flying(slot_wb, turn_wb)

RetirePc ==
  IF InWb.valid THEN InWb.pc
  ELSE IF InMem.valid THEN InMem.pc
  ELSE IF InEx.valid THEN InEx.pc
  ELSE IF slot_id.valid THEN slot_id.pc
  ELSE pc_if

Reference == INSTANCE ReferenceModel WITH
               imem <- imem,
               register_file_mirror <- rf,
               tx_pc <- RetirePc

\* As long as nothing is in the way the pipeline commits, write by write and in
\* program order, what the scoreboard's one-at-a-time reference model commits
\* (core_scoreboard.sv 52-158): whatever it predicted and wherever it turned,
\* nothing but a branch or jump breaks the order, and of the words fetched
\* behind one that redirects none is committed.
CommitsAsReference == Reference!Spec
=============================================================================
