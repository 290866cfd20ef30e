--------------------------- MODULE CoreTraceProofs ---------------------------
(***************************************************************************)
(* Theorems about what is in flight, for every program and word width: the *)
(* history is sound (a slot names the instruction its stage holds), what a *)
(* stage will write is what its instruction writes, and jumps squash       *)
(* themselves; where the stream of instructions may break; and that the    *)
(* pipeline implements the reference model as long as no instruction gets  *)
(* in another's way, which straight-line programs can be read for.         *)
(***************************************************************************)
EXTENDS CoreCommits, CoreProofs

\* A jump squashes itself: the flush it raises in decode is its own, so no stage
\* behind ever holds one (core_top.sv 98 and 168). That is a step of the proofs
\* and a fault of the core, which run JumpLink shows: the link is lost.
JumpsStopInDecode ==
  \A s \in {slot_ex, slot_mem, slot_wb} : s.valid => ~jump(Holds(s))

\* The three facts need each other: what a stage writes is what its slot
\* says only because decode holds its own slot's instruction, and jumps stay
\* behind only because the flush looks at that same instruction.
TraceInv ==
  /\ SlotsNameWhatStagesHold
  /\ WritesBelongToTheirInstruction
  /\ JumpsStopInDecode

\* SlotsNameWhatStagesHold, one stage at a time.
DecodeSlotSound ==
  if_id = IF slot_id.valid
          THEN [pc |-> slot_id.pc, instr |-> Holds(slot_id)] ELSE EmptyIfId

ExSlotSound ==
  slot_ex.valid => /\ id_ex.pc = slot_ex.pc
                   /\ id_ex.alu_op = alu_ctrl(Holds(slot_ex))

LEMMA BubbleDecodesToNothing ==
  /\ ~reg_we(ZeroInstr) /\ ~mem_to_reg(ZeroInstr)
  /\ ~branch(ZeroInstr) /\ ~jump(ZeroInstr)
BY DEF ZeroInstr, reg_we, mem_to_reg, branch, jump

LEMMA TickDecodeSlot == ASSUME TraceInv, TraceTick PROVE DecodeSlotSound'
<1>1. imem' = imem
  BY DEF TraceTick, Tick, Clock
<1>2. CASE ex_mispredict
  <2>1. if_id' = EmptyIfId /\ slot_id' = Bubble
    BY <1>2 DEF TraceTick, Tick, Clock, PrIfId
  <2>2. QED
    BY <2>1 DEF DecodeSlotSound, Bubble, EmptyIfId
<1>3. CASE ~ex_mispredict /\ ~hdu_stall
  <2>1. /\ if_id' = [pc |-> pc_if, instr |-> Fetch(pc_if)]
        /\ slot_id' = [valid |-> TRUE, pc |-> pc_if]
    BY <1>3 DEF TraceTick, Tick, Clock, PrIfId
  <2>2. QED
    BY <1>1, <2>1 DEF DecodeSlotSound, Holds, Fetch
<1>4. CASE ~ex_mispredict /\ hdu_stall
  <2>1. if_id' = if_id /\ slot_id' = slot_id
    BY <1>4 DEF TraceTick, Tick, Clock, PrIfId
  <2>2. QED
    BY <1>1, <2>1 DEF TraceInv, SlotsNameWhatStagesHold, DecodeSlotSound, Holds, Fetch, EmptyIfId
<1>5. QED
  BY <1>2, <1>3, <1>4

\* What reaches EX is the decoded instruction of decode's slot, or nothing.
LEMMA TickExSlot ==
  ASSUME TraceInv, TraceTick
  PROVE  /\ ExSlotSound'
         /\ WritesAs(id_ex, slot_ex)'
         /\ slot_ex'.valid => ~jump(Holds(slot_ex)')
<1>1. imem' = imem
  BY DEF TraceTick, Tick, Clock
<1>2. CASE ex_mispredict
  <2>1. id_ex' = EmptyIdEx /\ slot_ex' = Bubble
    BY <1>2 DEF TraceTick, Tick, Clock, PrIdEx
  <2>2. QED
    BY <2>1 DEF ExSlotSound, WritesAs, EmptyIdEx, Bubble
<1>3. CASE ~ex_mispredict /\ slot_id.valid
  <2>1. slot_ex' = slot_id /\ id_ex' = DecodedInstr
    BY <1>3 DEF TraceTick, Tick, Clock, PrIdEx
  <2>2. /\ instr_id = Holds(slot_id) /\ pc_id = slot_id.pc
        /\ Holds(slot_ex)' = Holds(slot_id)
    BY <1>1, <1>3, <2>1 DEF TraceInv, SlotsNameWhatStagesHold, instr_id, pc_id,
                            Holds, Fetch
  <2>3. /\ id_ex'.reg_write_en = reg_we(instr_id)
        /\ id_ex'.mem_to_reg = mem_to_reg(instr_id)
        /\ id_ex'.rd_addr = instr_id.rd
        /\ id_ex'.pc = pc_id /\ id_ex'.alu_op = alu_ctrl(instr_id)
    BY <2>1 DEF DecodedInstr
  <2>4. ~jump(instr_id)
    BY <1>3 DEF ex_mispredict
  <2>5. QED
    BY <1>3, <2>1, <2>2, <2>3, <2>4 DEF ExSlotSound, WritesAs
<1>4. CASE ~ex_mispredict /\ ~slot_id.valid
  <2>1. slot_ex' = slot_id /\ id_ex' = DecodedInstr
    BY <1>4 DEF TraceTick, Tick, Clock, PrIdEx
  <2>2. instr_id = ZeroInstr
    BY <1>4 DEF TraceInv, SlotsNameWhatStagesHold, EmptyIfId, instr_id
  <2>3. ~id_ex'.reg_write_en /\ ~id_ex'.mem_to_reg
    BY <2>1, <2>2, BubbleDecodesToNothing DEF DecodedInstr
  <2>4. QED
    BY <1>4, <2>1, <2>3 DEF ExSlotSound, WritesAs
<1>5. QED
  BY <1>2, <1>3, <1>4

\* EX and MEM hand on the controls with the slot they belong to.
LEMMA TickLaterSlots ==
  ASSUME TraceInv, TraceTick
  PROVE  /\ WritesAs(ex_mem, slot_mem)' /\ WritesAs(mem_wb, slot_wb)'
         /\ slot_mem'.valid => ~jump(Holds(slot_mem)')
         /\ slot_wb'.valid => ~jump(Holds(slot_wb)')
<1>1. imem' = imem /\ slot_mem' = slot_ex /\ slot_wb' = slot_mem
  BY DEF TraceTick, Tick, Clock
<1>2. Holds(slot_mem)' = Holds(slot_ex) /\ Holds(slot_wb)' = Holds(slot_mem)
  BY <1>1 DEF Holds, Fetch
<1>3. /\ ex_mem'.reg_write_en = id_ex.reg_write_en /\ ex_mem'.rd_addr = id_ex.rd_addr
      /\ ex_mem'.mem_to_reg = id_ex.mem_to_reg
  BY DEF TraceTick, Tick, Clock, PrExMem
<1>4. /\ mem_wb'.reg_write_en = ex_mem.reg_write_en /\ mem_wb'.rd_addr = ex_mem.rd_addr
      /\ mem_wb'.mem_to_reg = ex_mem.mem_to_reg
  BY DEF TraceTick, Tick, Clock, PrMemWb
<1>5. /\ WritesAs(id_ex, slot_ex) /\ WritesAs(ex_mem, slot_mem)
      /\ slot_ex.valid => ~jump(Holds(slot_ex))
      /\ slot_mem.valid => ~jump(Holds(slot_mem))
  BY DEF TraceInv, WritesBelongToTheirInstruction, JumpsStopInDecode
<1>6. QED
  BY <1>1, <1>2, <1>3, <1>4, <1>5 DEF WritesAs

LEMMA TickTrace == ASSUME TraceInv, TraceTick PROVE TraceInv'
BY TickDecodeSlot, TickExSlot, TickLaterSlots
   DEF TraceInv, SlotsNameWhatStagesHold, DecodeSlotSound, ExSlotSound,
       WritesBelongToTheirInstruction, JumpsStopInDecode

LEMMA EmptyTrace ==
  ASSUME SlotsEmpty, if_id = EmptyIfId, id_ex = EmptyIdEx, ex_mem = EmptyExMem,
         mem_wb = EmptyMemWb
  PROVE  TraceInv
BY DEF SlotsEmpty, Bubble, EmptyIdEx, EmptyExMem, EmptyMemWb, TraceInv,
       SlotsNameWhatStagesHold, WritesBelongToTheirInstruction, WritesAs, JumpsStopInDecode

LEMMA ResetTrace == ASSUME TraceReset PROVE TraceInv'
<1>1. /\ slot_id' = Bubble /\ slot_ex' = Bubble
      /\ slot_mem' = Bubble /\ slot_wb' = Bubble
  BY DEF TraceReset
<1>2. /\ if_id' = EmptyIfId /\ id_ex' = EmptyIdEx
      /\ ex_mem' = EmptyExMem /\ mem_wb' = EmptyMemWb
  BY DEF TraceReset, Reset
<1>3. SlotsNameWhatStagesHold'
  BY <1>1, <1>2 DEF SlotsNameWhatStagesHold, Bubble, EmptyIfId
<1>4. WritesBelongToTheirInstruction'
  BY <1>1, <1>2 DEF WritesBelongToTheirInstruction, WritesAs, Bubble, EmptyIdEx,
                    EmptyExMem, EmptyMemWb
<1>5. JumpsStopInDecode'
  BY <1>1 DEF JumpsStopInDecode, Bubble
<1>6. QED
  BY <1>3, <1>4, <1>5 DEF TraceInv

LEMMA TraceInvInit == TraceInit => TraceInv
BY EmptyTrace DEF TraceInit, CoreInit

LEMMA TraceInvStep == TraceInv /\ [TraceNext]_traceVars => TraceInv'
<1> SUFFICES ASSUME TraceInv, [TraceNext]_traceVars PROVE TraceInv'
  OBVIOUS
<1>1. CASE TraceTick
  BY <1>1, TickTrace
<1>2. CASE TraceReset
  BY <1>2, ResetTrace
<1>3. CASE UNCHANGED traceVars
  BY <1>3 DEF traceVars, coreVars, ifVars, pipeVars, slots, TraceInv, SlotsNameWhatStagesHold,
              WritesBelongToTheirInstruction, WritesAs, JumpsStopInDecode, Holds, Fetch,
              EmptyIfId
<1>4. QED
  BY <1>1, <1>2, <1>3 DEF TraceNext

LEMMA TraceInvAlways == TraceSpec => []TraceInv
BY TraceInvInit, TraceInvStep, PTL DEF TraceSpec

\* The history is sound in every program: a slot names the instruction that its
\* stage holds (pr_if_id.sv, pr_id_ex.sv).
THEOREM SlotsNameWhatStagesHoldAlways == TraceSpec => []SlotsNameWhatStagesHold
<1>1. TraceInv => SlotsNameWhatStagesHold
  BY DEF TraceInv
<1>2. QED
  BY <1>1, TraceInvAlways, PTL

\* Every stage that will write a register holds an instruction of the program
\* that writes that register, and a squashed instruction writes nothing, for
\* every program, whatever stalls and redirects (rtl/pr, core_top.sv).
THEOREM WritesBelongToTheirInstructionAlways ==
  TraceSpec => []WritesBelongToTheirInstruction
<1>1. TraceInv => WritesBelongToTheirInstruction
  BY DEF TraceInv
<1>2. QED
  BY <1>1, TraceInvAlways, PTL

-----------------------------------------------------------------------------
(* The stream. That EX and decode hold neighbours depends on what fetch was *)
(* about to do a cycle earlier: the address it holds follows decode's, or a *)
(* prediction or a lost word stands between them. A prediction is a turn of *)
(* the program because the buffer predicts only control flow.               *)

FetchFollowsDecode ==
  slot_id.valid /\ pc_if # ToData(slot_id.pc + 4)
    => MayTurn(slot_id.pc) \/ MayTurn(ToData(slot_id.pc + 4))

StreamInv == DecodeInv /\ FetchFollowsDecode /\ StreamBreaksOnlyAtControlFlow

LEMMA HitMayTurn == ASSUME DecodeInv, btb_hit(pc_if) PROVE MayTurn(pc_if)
<1>1. BtbIndex(pc_if) \in BtbIndices
  BY IndexInRange DEF DecodeInv, CoreTypeOK, IfStageTypeOK
<1>2. QED
  BY <1>1 DEF DecodeInv, BtbPredictsOnlyControlFlow, btb_hit, MayTurn

LEMMA TickFetchFollows ==
  ASSUME StreamInv, TraceTick PROVE FetchFollowsDecode'
<1>1. \A pc : MayTurn(pc)' = MayTurn(pc)
  BY DEF TraceTick, Tick, Clock, MayTurn, Fetch
<1>2. \A pc : ToData(pc)' = ToData(pc)
  BY DEF ToData
<1>3. pc_if' = pc_next(hdu_stall, ex_mispredict, target_addr_ex)
  BY DEF TraceTick, Tick, Clock, IfStageClock
<1>4. CASE ex_mispredict
  BY <1>4 DEF TraceTick, FetchFollowsDecode, Bubble
<1>5. CASE ~ex_mispredict /\ ~hdu_stall
  <2>1. slot_id' = [valid |-> TRUE, pc |-> pc_if]
    BY <1>5 DEF TraceTick
  <2>2. btb_hit(pc_if) \/ pc_if' = ToData(pc_if + 4)
    BY <1>3, <1>5 DEF pc_next, pc_plus4
  <2>3. QED
    BY <1>1, <1>2, <2>1, <2>2, HitMayTurn DEF FetchFollowsDecode, StreamInv
<1>6. CASE ~ex_mispredict /\ hdu_stall
  <2>1. slot_id' = slot_id
    BY <1>6 DEF TraceTick
  <2>2. btb_hit(pc_if) \/ pc_if' = pc_if
    BY <1>3, <1>6 DEF pc_next
  <2>3. QED
    BY <1>1, <1>2, <2>1, <2>2, HitMayTurn DEF FetchFollowsDecode, StreamInv
<1>7. QED
  BY <1>4, <1>5, <1>6

LEMMA TickStream ==
  ASSUME StreamInv, TraceTick PROVE StreamBreaksOnlyAtControlFlow'
<1>1. \A pc : MayTurn(pc)' = MayTurn(pc)
  BY DEF TraceTick, Tick, Clock, MayTurn, Fetch
<1>2. CASE ex_mispredict
  BY <1>2 DEF TraceTick, StreamBreaksOnlyAtControlFlow, Bubble
<1>3. CASE ~ex_mispredict /\ hdu_stall
  BY <1>3 DEF TraceTick, StreamBreaksOnlyAtControlFlow
<1>4. CASE ~ex_mispredict /\ ~hdu_stall
  <2>1. slot_ex' = slot_id /\ slot_id' = [valid |-> TRUE, pc |-> pc_if]
    BY <1>4 DEF TraceTick
  <2>2. \A pc : ToData(pc)' = ToData(pc)
    BY DEF ToData
  <2>3. QED
    BY <1>1, <2>1, <2>2 DEF StreamInv, FetchFollowsDecode, StreamBreaksOnlyAtControlFlow
<1>5. QED
  BY <1>2, <1>3, <1>4

LEMMA StreamInvInit == TraceInit => StreamInv
BY DecodeInvInit DEF TraceInit, SlotsEmpty, Bubble, StreamInv, FetchFollowsDecode,
                     StreamBreaksOnlyAtControlFlow

LEMMA StreamInvStep == StreamInv /\ [TraceNext]_traceVars => StreamInv'
<1> SUFFICES ASSUME StreamInv, [TraceNext]_traceVars PROVE StreamInv'
  OBVIOUS
<1>1. DecodeInv'
  BY DecodeInvStep DEF StreamInv, TraceNext, TraceTick, TraceReset, CoreNext, traceVars
<1>2. CASE TraceTick
  BY <1>1, <1>2, TickFetchFollows, TickStream DEF StreamInv
<1>3. CASE TraceReset
  BY <1>1, <1>3 DEF TraceReset, Bubble, StreamInv, FetchFollowsDecode,
                    StreamBreaksOnlyAtControlFlow
<1>4. CASE UNCHANGED traceVars
  BY <1>1, <1>4 DEF traceVars, coreVars, ifVars, slots, StreamInv, FetchFollowsDecode,
                    StreamBreaksOnlyAtControlFlow, MayTurn, Fetch
<1>5. QED
  BY <1>2, <1>3, <1>4 DEF TraceNext

\* In every program, at every width and depth, decode and EX hold the same word
\* or neighbours unless one of the words in sight is a branch or jump
\* (if_stage.sv 77-91, core_top.sv 98, pr_if_id.sv, pr_id_ex.sv).
THEOREM StreamBreaksOnlyAtControlFlowAlways ==
  TraceSpec => []StreamBreaksOnlyAtControlFlow
<1>1. StreamInv => StreamBreaksOnlyAtControlFlow
  BY DEF StreamInv
<1>2. QED
  BY <1>1, StreamInvInit, StreamInvStep, PTL DEF TraceSpec
-----------------------------------------------------------------------------
(* The pipeline against the reference model, for as long as nothing is in   *)
(* the way. Nothing stalls; what is in flight, turns included, is in the    *)
(* order of the program; and what a slot will commit is the same over the   *)
(* registers of now as over those it will be committed to, since none of    *)
(* the instructions still to be written back touches what it reads.         *)

Slot == [valid : BOOLEAN, pc : Data]

SlotsTyped ==
  /\ slot_id \in Slot /\ slot_ex \in Slot /\ slot_mem \in Slot /\ slot_wb \in Slot
  /\ turn_ex \in Slot /\ turn_mem \in Slot /\ turn_wb \in Slot

\* Where the program goes after the word at pc.
Follows(pc, next) == next = ToData(pc + 4) \/ MayTurn(pc)

InOrder ==
  /\ slot_id.valid  => Follows(slot_id.pc, pc_if)
  /\ slot_ex.valid  => slot_id.valid /\ Follows(slot_ex.pc, slot_id.pc)
  /\ slot_mem.valid => InEx.valid /\ Follows(slot_mem.pc, InEx.pc)
  /\ slot_wb.valid  => InMem.valid /\ Follows(slot_wb.pc, InMem.pc)

\* A stage never holds both, and what turned writes nothing in either model.
TurnsWriteNothing(slot, turn) ==
  turn.valid => ~slot.valid /\ MayTurn(turn.pc) /\ ~WritesLink(Holds(turn))

TurnsSquashed ==
  /\ TurnsWriteNothing(slot_ex, turn_ex)
  /\ TurnsWriteNothing(slot_mem, turn_mem)
  /\ TurnsWriteNothing(slot_wb, turn_wb)

SlotReadsPast(s, older) ==
  s.valid /\ older.valid => ReadsPast(Holds(s), Holds(older))

ReadPast ==
  /\ SlotReadsPast(slot_ex, slot_mem)
  /\ SlotReadsPast(slot_ex, slot_wb)
  /\ SlotReadsPast(slot_mem, slot_wb)

SlotAsExpected(s) == s.valid => AsExpected(Holds(s))

AllAsExpected ==
  SlotAsExpected(slot_ex) /\ SlotAsExpected(slot_mem) /\ SlotAsExpected(slot_wb)

\* What an instruction computes from a register file, and the instructions
\* whose word the scoreboard computes as well.
ComputedWord(instr) == instr.opcode \in AluOpcodes \cup {"OP_LUI", "OP_AUIPC"}

Computes(s, regs) ==
  alu_result(alu_ctrl(Holds(s)), operand_a(Holds(s), s.pc, regs), operand_b(Holds(s), regs))

OperandsCurrent ==
  slot_ex.valid => /\ id_ex.reg_data1 = operand_a(Holds(slot_ex), slot_ex.pc, rf)
                   /\ id_ex.reg_data2 = operand_b(Holds(slot_ex), rf)

ResultsCurrent ==
  /\ slot_mem.valid /\ ComputedWord(Holds(slot_mem)) =>
       ex_mem.alu_result = Computes(slot_mem, rf)
  /\ slot_wb.valid /\ ComputedWord(Holds(slot_wb)) =>
       mem_wb.alu_result = Computes(slot_wb, rf)

ClearInv ==
  /\ DecodeInv /\ rf[REG_ZERO] = 0
  /\ TraceInv
  /\ SlotsTyped
  /\ InOrder
  /\ TurnsSquashed
  /\ ReadPast
  /\ AllAsExpected
  /\ OperandsCurrent
  /\ ResultsCurrent

-----------------------------------------------------------------------------
(* One clock edge with nothing in the way: who is in flight.                *)

LEMMA WordsStay ==
  ASSUME TraceTick
  PROVE  /\ imem' = imem
         /\ \A pc : Fetch(pc)' = Fetch(pc) /\ MayTurn(pc)' = MayTurn(pc)
                    /\ ToData(pc)' = ToData(pc)
BY DEF TraceTick, Tick, Clock, Fetch, MayTurn, ToData

LEMMA NothingStalls ==
  ASSUME ClearInv, NothingInTheWay
  PROVE  ~hdu_stall
<1> SUFFICES ASSUME id_ex.mem_to_reg, id_ex.rd_addr # REG_ZERO,
                    id_ex.rd_addr \in {instr_id.rs1, instr_id.rs2}
             PROVE  FALSE
  BY DEF hdu_stall, hdu_stall_o
<1>1. /\ slot_ex.valid /\ mem_to_reg(Holds(slot_ex)) /\ reg_we(Holds(slot_ex))
      /\ id_ex.rd_addr = Holds(slot_ex).rd
  BY DEF ClearInv, TraceInv, WritesBelongToTheirInstruction, WritesAs, mem_to_reg, reg_we
<1>2. slot_id.valid
  BY <1>1 DEF ClearInv, InOrder
<1>3. instr_id = Holds(slot_id)
  BY <1>2 DEF ClearInv, TraceInv, SlotsNameWhatStagesHold, instr_id
<1>4. NamesNothingOf(instr_id, Holds(slot_ex))
  BY <1>1, <1>2, <1>3 DEF NothingInTheWay, KeepsClearOfNext
<1>5. QED
  BY <1>1, <1>4 DEF NamesNothingOf, Writes

\* Only what decode holds can redirect, and it is a branch or jump.
LEMMA RedirectMayTurn ==
  ASSUME ClearInv, ex_mispredict
  PROVE  slot_id.valid /\ MayTurn(slot_id.pc)
<1>1. branch(instr_id) \/ jump(instr_id)
  BY DEF ex_mispredict
<1>2. slot_id.valid
  BY <1>1, BubbleIsNoControlFlow
     DEF ClearInv, TraceInv, SlotsNameWhatStagesHold, instr_id, EmptyIfId
<1>3. instr_id = Fetch(slot_id.pc)
  BY <1>2 DEF ClearInv, TraceInv, SlotsNameWhatStagesHold, instr_id, Holds
<1>4. QED
  BY <1>1, <1>2, <1>3 DEF MayTurn

LEMMA ClearEdge ==
  ASSUME ClearInv, ClearTick
  PROVE  /\ slot_id' = IF ex_mispredict THEN Bubble ELSE [valid |-> TRUE, pc |-> pc_if]
         /\ slot_ex' = IF ex_mispredict THEN Bubble ELSE slot_id
         /\ turn_ex' = IF ex_mispredict THEN slot_id ELSE Bubble
         /\ slot_mem' = slot_ex /\ turn_mem' = turn_ex
         /\ slot_wb' = slot_mem /\ turn_wb' = turn_mem
<1>1. ~hdu_stall
  BY NothingStalls DEF ClearTick
<1>2. QED
  BY <1>1 DEF ClearTick, CommitTick, TraceTick

\* Redirected or not, all that is in flight moves on by one stage.
LEMMA FlightMovesOn ==
  ASSUME ClearInv, ClearTick
  PROVE  InEx' = slot_id /\ InMem' = InEx /\ InWb' = InMem
<1>1. ex_mispredict => slot_id.valid
  BY RedirectMayTurn
<1>2. InEx' = slot_id
  BY <1>1, ClearEdge DEF InEx, Flying, Bubble
<1>3. QED
  BY <1>2, ClearEdge DEF InEx, InMem, InWb, Flying

LEMMA TypedSlots ==
  ASSUME ClearInv, ClearTick
  PROVE  SlotsTyped'
<1>1. Data' = Data
  BY DEF Data
<1>2. pc_if \in Data
  BY DEF ClearInv, DecodeInv, CoreTypeOK, IfStageTypeOK
<1>3. Bubble \in Slot /\ [valid |-> TRUE, pc |-> pc_if] \in Slot
  BY <1>2, ZeroIsData DEF Bubble, Slot
<1>4. QED
  BY <1>3, ClearEdge DEF ClearInv, SlotsTyped, Slot

LEMMA StaysInOrder ==
  ASSUME ClearInv, ClearTick
  PROVE  InOrder'
<1>1. \A pc, next : Follows(pc, next)' = Follows(pc, next)
  BY WordsStay DEF ClearTick, CommitTick, Follows
<1>2. slot_id'.valid => Follows(slot_id'.pc, pc_if')
  <2> SUFFICES ASSUME ~ex_mispredict PROVE Follows(pc_if, pc_if')
    BY ClearEdge DEF Bubble
  <2>1. ~hdu_stall
    BY NothingStalls DEF ClearTick
  <2>2. pc_if' = pc_next(hdu_stall, ex_mispredict, target_addr_ex)
    BY DEF ClearTick, CommitTick, TraceTick, Tick, Clock, IfStageClock
  <2>3. btb_hit(pc_if) \/ pc_if' = ToData(pc_if + 4)
    BY <2>1, <2>2 DEF pc_next, pc_plus4
  <2>4. QED
    BY <2>3, HitMayTurn DEF ClearInv, Follows
<1>3. slot_ex'.valid => slot_id'.valid /\ Follows(slot_ex'.pc, slot_id'.pc)
  BY ClearEdge DEF ClearInv, InOrder, Bubble
<1>4. slot_mem'.valid => InEx'.valid /\ Follows(slot_mem'.pc, InEx'.pc)
  BY ClearEdge, FlightMovesOn DEF ClearInv, InOrder
<1>5. slot_wb'.valid => InMem'.valid /\ Follows(slot_wb'.pc, InMem'.pc)
  BY ClearEdge, FlightMovesOn DEF ClearInv, InOrder
<1>6. QED
  BY <1>1, <1>2, <1>3, <1>4, <1>5 DEF InOrder

LEMMA TurnsStaySquashed ==
  ASSUME ClearInv, ClearTick
  PROVE  TurnsSquashed'
<1>1. \A pc : Fetch(pc)' = Fetch(pc) /\ MayTurn(pc)' = MayTurn(pc)
  BY WordsStay DEF ClearTick, CommitTick
<1>2. ex_mispredict => /\ slot_id.valid /\ MayTurn(slot_id.pc)
                       /\ ~WritesLink(Fetch(slot_id.pc))
  BY RedirectMayTurn DEF ClearTick, NothingInTheWay, AsExpected, Holds
<1>3. \A instr : WritesLink(instr)' = WritesLink(instr)
  BY DEF WritesLink, jump
<1>4. TurnsWriteNothing(slot_ex, turn_ex)'
  BY <1>1, <1>2, <1>3, ClearEdge DEF TurnsWriteNothing, Bubble, Holds
<1>5. TurnsWriteNothing(slot_mem, turn_mem)' /\ TurnsWriteNothing(slot_wb, turn_wb)'
  BY <1>1, <1>3, ClearEdge DEF ClearInv, TurnsSquashed, TurnsWriteNothing, Holds
<1>6. QED
  BY <1>4, <1>5 DEF TurnsSquashed

LEMMA StaysReadPast ==
  ASSUME ClearInv, ClearTick
  PROVE  ReadPast' /\ AllAsExpected'
<1>1. \A pc : Fetch(pc)' = Fetch(pc)
  BY WordsStay DEF ClearTick, CommitTick
<1>2. SlotReadsPast(slot_ex, slot_mem)'
  BY <1>1, ClearEdge
     DEF ClearTick, NothingInTheWay, KeepsClearOfNext, SlotReadsPast, ReadsPast, Bubble, Holds
<1>3. SlotReadsPast(slot_ex, slot_wb)'
  BY <1>1, ClearEdge
     DEF ClearTick, NothingInTheWay, NamesNothingOf, SlotReadsPast, ReadsPast, Bubble, Holds
<1>4. SlotReadsPast(slot_mem, slot_wb)'
  BY <1>1, ClearEdge DEF ClearInv, ReadPast, SlotReadsPast, Holds
<1>5. AllAsExpected'
  BY <1>1, ClearEdge
     DEF ClearTick, NothingInTheWay, ClearInv, AllAsExpected, SlotAsExpected, Bubble, Holds
<1>6. QED
  BY <1>2, <1>3, <1>4, <1>5 DEF ReadPast

-----------------------------------------------------------------------------
(* The same edge on the data: what one instruction writes, those behind it  *)
(* do not read in the pipeline's way.                                       *)

\* A register that the instruction written back does not write reads as before.
LEMMA WriteBackMisses ==
  ASSUME ClearInv, NEW dmem_rdata \in DmemData, Clock(dmem_rdata),
         NEW r \in RegAddr, slot_wb.valid => ~Writes(Holds(slot_wb), r)
  PROVE  rf_read(rf', r) = rf_read(rf, r)
<1>1. rf \in [RegAddr -> Data] /\ mem_wb.rd_addr \in RegAddr
  BY DEF ClearInv, DecodeInv, CoreTypeOK, RegisterFile, MemWbReg
<1>2. rf' = rf_write(rf, mem_wb.reg_write_en, mem_wb.rd_addr, wb_data_out)
  BY DEF Clock, RfUpdate
<1>3. /\ mem_wb.reg_write_en <=> slot_wb.valid /\ reg_we(Holds(slot_wb))
      /\ slot_wb.valid => mem_wb.rd_addr = Holds(slot_wb).rd
  BY DEF ClearInv, TraceInv, WritesBelongToTheirInstruction, WritesAs
<1>4. mem_wb.reg_write_en /\ mem_wb.rd_addr # REG_ZERO => mem_wb.rd_addr # r
  BY <1>3 DEF Writes
<1>5. QED
  BY <1>1, <1>2, <1>4 DEF rf_write, rf_read

\* No operand of the instruction in EX is replaced: the two instructions ahead
\* of it write no register that the one in decode names.
LEMMA NothingForwarded ==
  ASSUME ClearInv, NothingInTheWay, slot_ex.valid
  PROVE  op_a_fwd = id_ex.reg_data1 /\ op_b_fwd = id_ex.reg_data2
<1>1. slot_id.valid
  BY DEF ClearInv, InOrder
<1>2. instr_id = Holds(slot_id)
  BY <1>1 DEF ClearInv, TraceInv, SlotsNameWhatStagesHold, instr_id
<1>3. /\ slot_mem.valid => NamesNothingOf(instr_id, Holds(slot_mem))
      /\ slot_wb.valid => NamesNothingOf(instr_id, Holds(slot_wb))
  BY <1>1, <1>2 DEF NothingInTheWay
<1>4. ASSUME NEW r \in {instr_id.rs1, instr_id.rs2}
      PROVE  /\ ~(ex_mem.reg_write_en /\ ex_mem.rd_addr # REG_ZERO /\ ex_mem.rd_addr = r)
             /\ ~(mem_wb.reg_write_en /\ mem_wb.rd_addr # REG_ZERO /\ mem_wb.rd_addr = r)
  <2>1. WritesAs(ex_mem, slot_mem) /\ WritesAs(mem_wb, slot_wb)
    BY DEF ClearInv, TraceInv, WritesBelongToTheirInstruction
  <2>2. QED
    BY <1>3, <2>1 DEF NamesNothingOf, Writes, WritesAs
<1>5. ASSUME NEW r \in {instr_id.rs1, instr_id.rs2}, NEW op PROVE Forward(r, op) = op
  BY <1>4 DEF Forward, compute_fwd_ctrl, compute_mux_fwd_ctrl
<1>6. QED
  BY <1>5 DEF op_a_fwd, op_b_fwd

\* Only the registers an instruction reads decide what it computes: LUI passes
\* operand B through, AUIPC adds to its own address.
LEMMA ComputesFromWhatItReads ==
  ASSUME NEW s, ComputedWord(Holds(s)), NEW regs, NEW regs2,
         ReadsFirst(Holds(s)) =>
           rf_read(regs2, Holds(s).rs1) = rf_read(regs, Holds(s).rs1),
         ReadsSecond(Holds(s)) =>
           rf_read(regs2, Holds(s).rs2) = rf_read(regs, Holds(s).rs2)
  PROVE  Computes(s, regs2) = Computes(s, regs)
<1> DEFINE instr == Holds(s)
<1> HIDE DEF instr
<1>1. instr.opcode \in {"OP_R_TYPE", "OP_I_TYPE", "OP_LUI", "OP_AUIPC"}
  BY DEF ComputedWord, AluOpcodes, instr
<1>2. operand_b(instr, regs2) = operand_b(instr, regs)
  BY <1>1 DEF operand_b, alu_src, ReadsSecond, instr
<1>3. CASE instr.opcode = "OP_LUI"
  <2>1. alu_ctrl(instr) = "ALU_COPY_B"
    BY <1>3 DEF alu_ctrl, AluOpcodes
  <2>2. QED
    BY <1>2, <2>1 DEF Computes, alu_result, instr
<1>4. CASE instr.opcode # "OP_LUI"
  <2>1. operand_a(instr, s.pc, regs2) = operand_a(instr, s.pc, regs)
    BY <1>1, <1>4 DEF operand_a, ReadsFirst, instr
  <2>2. QED
    BY <1>2, <2>1 DEF Computes, instr
<1>5. QED
  BY <1>3, <1>4

\* So the write-back of an edge changes nothing of what a slot computes.
LEMMA WriteBackKeepsResult ==
  ASSUME ClearInv, NEW dmem_rdata \in DmemData, Clock(dmem_rdata),
         NEW s, s.pc \in Data, ComputedWord(Holds(s)),
         slot_wb.valid => ReadsPast(Holds(s), Holds(slot_wb))
  PROVE  Computes(s, rf') = Computes(s, rf)
<1>1. Holds(s) \in Instr
  BY FetchTyped DEF ClearInv, DecodeInv, Holds
<1>2. Holds(s).rs1 \in RegAddr /\ Holds(s).rs2 \in RegAddr
  BY <1>1 DEF Instr
<1>3. ReadsFirst(Holds(s)) => rf_read(rf', Holds(s).rs1) = rf_read(rf, Holds(s).rs1)
  BY <1>2, WriteBackMisses DEF ReadsPast
<1>4. ReadsSecond(Holds(s)) => rf_read(rf', Holds(s).rs2) = rf_read(rf, Holds(s).rs2)
  BY <1>2, WriteBackMisses DEF ReadsPast
<1>5. QED
  BY <1>3, <1>4, ComputesFromWhatItReads

LEMMA OperandsStayCurrent ==
  ASSUME ClearInv, ClearTick
  PROVE  OperandsCurrent'
<1>1. PICK dmem_rdata \in DmemData : Clock(dmem_rdata)
  BY DEF ClearTick, CommitTick, TraceTick, Tick
<1> SUFFICES ASSUME slot_id.valid, ~ex_mispredict
             PROVE  /\ id_ex'.reg_data1 = operand_a(Holds(slot_id), slot_id.pc, rf')
                    /\ id_ex'.reg_data2 = operand_b(Holds(slot_id), rf')
  <2>1. slot_ex'.valid => ~ex_mispredict /\ slot_ex' = slot_id
    BY ClearEdge DEF Bubble
  <2>2. \A pc : Fetch(pc)' = Fetch(pc)
    BY WordsStay DEF ClearTick, CommitTick
  <2>3. slot_ex'.valid => Holds(slot_ex)' = Holds(slot_id) /\ slot_ex'.pc = slot_id.pc
    BY <2>1, <2>2 DEF Holds
  <2>4. /\ operand_a(Holds(slot_ex), slot_ex.pc, rf)'
             = operand_a(Holds(slot_ex)', slot_ex'.pc, rf')
        /\ operand_b(Holds(slot_ex), rf)' = operand_b(Holds(slot_ex)', rf')
    BY DEF operand_a, operand_b, rf_read, alu_src, imm_gen, ImmS, ImmB, ImmU, ImmJ, ImmI,
           SignExtend, ToData
  <2>5. QED
    BY <2>1, <2>3, <2>4 DEF OperandsCurrent
<1>2. instr_id = Holds(slot_id) /\ pc_id = slot_id.pc
  BY DEF ClearInv, TraceInv, SlotsNameWhatStagesHold, instr_id, pc_id, Holds
<1>3. Holds(slot_id).rs1 \in RegAddr /\ Holds(slot_id).rs2 \in RegAddr
  <2>1. Holds(slot_id) \in Instr
    BY FetchTyped DEF ClearInv, DecodeInv, SlotsTyped, Slot, Holds
  <2>2. QED
    BY <2>1 DEF Instr
<1>4. /\ rf_read(rf', Holds(slot_id).rs1) = rf_read(rf, Holds(slot_id).rs1)
      /\ rf_read(rf', Holds(slot_id).rs2) = rf_read(rf, Holds(slot_id).rs2)
  BY <1>1, <1>3, WriteBackMisses DEF ClearTick, NothingInTheWay, NamesNothingOf
<1>5. id_ex' = DecodedInstr
  BY <1>1 DEF Clock, PrIdEx
<1>6. QED
  BY <1>2, <1>4, <1>5 DEF DecodedInstr, operand_a, operand_b

LEMMA ResultsStayCurrent ==
  ASSUME ClearInv, ClearTick
  PROVE  ResultsCurrent'
<1>1. PICK dmem_rdata \in DmemData : Clock(dmem_rdata)
  BY DEF ClearTick, CommitTick, TraceTick, Tick
<1>2. slot_ex.pc \in Data /\ slot_mem.pc \in Data
  BY DEF ClearInv, SlotsTyped, Slot
<1>3. ASSUME slot_ex.valid, ComputedWord(Holds(slot_ex))
      PROVE  ex_mem'.alu_result = Computes(slot_ex, rf')
  <2>1. slot_wb.valid => ReadsPast(Holds(slot_ex), Holds(slot_wb))
    BY <1>3 DEF ClearInv, ReadPast, SlotReadsPast
  <2>2. ex_mem'.alu_result = alu_result(id_ex.alu_op, id_ex.reg_data1, id_ex.reg_data2)
    BY <1>1, <1>3, NothingForwarded DEF ClearTick, Clock, PrExMem, alu_result_ex
  <2>3. id_ex.alu_op = alu_ctrl(Holds(slot_ex))
    BY <1>3 DEF ClearInv, TraceInv, SlotsNameWhatStagesHold
  <2>4. ex_mem'.alu_result = Computes(slot_ex, rf)
    BY <1>3, <2>2, <2>3 DEF ClearInv, OperandsCurrent, Computes
  <2>5. QED
    BY <1>1, <1>2, <1>3, <2>1, <2>4, WriteBackKeepsResult
<1>4. ASSUME slot_mem.valid, ComputedWord(Holds(slot_mem))
      PROVE  mem_wb'.alu_result = Computes(slot_mem, rf')
  <2>1. slot_wb.valid => ReadsPast(Holds(slot_mem), Holds(slot_wb))
    BY <1>4 DEF ClearInv, ReadPast, SlotReadsPast
  <2>2. mem_wb'.alu_result = ex_mem.alu_result
    BY <1>1 DEF Clock, PrMemWb
  <2>3. QED
    BY <1>1, <1>2, <1>4, <2>1, <2>2, WriteBackKeepsResult DEF ClearInv, ResultsCurrent
<1>5. imem' = imem /\ slot_mem' = slot_ex /\ slot_wb' = slot_mem
  BY ClearEdge, WordsStay DEF ClearTick, CommitTick
<1>6. QED
  BY <1>3, <1>4, <1>5 DEF ResultsCurrent, Computes, ComputedWord, Holds, Fetch

LEMMA ClearInvTick == ClearInv /\ ClearTick => ClearInv'
<1> SUFFICES ASSUME ClearInv, ClearTick PROVE ClearInv'
  OBVIOUS
<1>1. TraceTick /\ CoreNext
  BY DEF ClearTick, CommitTick, TraceTick, CoreNext
<1>2. DecodeInv' /\ rf'[REG_ZERO] = 0
  BY <1>1, DecodeInvStep, ZeroInvStep DEF ClearInv, DecodeInv, ZeroInv
<1>3. TraceInv'
  BY <1>1, TickTrace DEF ClearInv
<1>4. QED
  BY <1>2, <1>3, TypedSlots, StaysInOrder, TurnsStaySquashed, StaysReadPast,
     OperandsStayCurrent, ResultsStayCurrent DEF ClearInv

LEMMA EmptyFlight ==
  ASSUME slot_id = Bubble, slot_ex = Bubble, slot_mem = Bubble, slot_wb = Bubble,
         turn_ex = Bubble, turn_mem = Bubble, turn_wb = Bubble
  PROVE  /\ SlotsTyped /\ InOrder /\ TurnsSquashed /\ ReadPast /\ AllAsExpected
         /\ OperandsCurrent /\ ResultsCurrent
<1>1. Bubble \in Slot /\ ~Bubble.valid
  BY ZeroIsData DEF Bubble, Slot
<1>2. QED
  BY <1>1 DEF SlotsTyped, InOrder, TurnsSquashed, TurnsWriteNothing, ReadPast, SlotReadsPast,
              AllAsExpected, SlotAsExpected, OperandsCurrent, ResultsCurrent

LEMMA ClearInvInit == CommitInit => ClearInv
<1> SUFFICES ASSUME CommitInit PROVE ClearInv
  OBVIOUS
<1>1. DecodeInv /\ rf[REG_ZERO] = 0 /\ TraceInv
  BY DecodeInvInit, ZeroInvInit, TraceInvInit DEF CommitInit, TraceInit, ZeroInv
<1>2. QED
  BY <1>1, EmptyFlight DEF ClearInv, CommitInit, TraceInit, SlotsEmpty

LEMMA ClearInvReset == ClearInv /\ CommitReset => ClearInv'
<1> SUFFICES ASSUME ClearInv, CommitReset PROVE ClearInv'
  OBVIOUS
<1>1. TraceReset /\ CoreNext
  BY DEF CommitReset, TraceReset, CoreNext
<1>2. DecodeInv' /\ rf'[REG_ZERO] = 0
  BY <1>1, DecodeInvStep, ZeroInvStep DEF ClearInv, DecodeInv, ZeroInv
<1>3. TraceInv'
  BY <1>1, ResetTrace
<1>4. /\ slot_id' = Bubble /\ slot_ex' = Bubble /\ slot_mem' = Bubble /\ slot_wb' = Bubble
      /\ turn_ex' = Bubble /\ turn_mem' = Bubble /\ turn_wb' = Bubble
  BY DEF CommitReset, TraceReset
<1>5. Bubble \in Slot /\ ~Bubble.valid
  BY ZeroIsData DEF Bubble, Slot
<1>6. SlotsTyped'
  BY <1>4, <1>5 DEF SlotsTyped, Slot, Data
<1>7. InOrder' /\ TurnsSquashed' /\ ReadPast' /\ AllAsExpected'
  BY <1>4, <1>5 DEF InOrder, TurnsSquashed, TurnsWriteNothing, ReadPast, SlotReadsPast,
                    AllAsExpected, SlotAsExpected
<1>8. OperandsCurrent' /\ ResultsCurrent'
  BY <1>4, <1>5 DEF OperandsCurrent, ResultsCurrent
<1>9. QED
  BY <1>2, <1>3, <1>6, <1>7, <1>8 DEF ClearInv

LEMMA ClearInvStep == ClearInv /\ [ClearTick \/ CommitReset]_commitVars => ClearInv'
<1> SUFFICES ASSUME ClearInv, UNCHANGED commitVars PROVE ClearInv'
  BY ClearInvTick, ClearInvReset
<1>1. UNCHANGED traceVars /\ UNCHANGED coreVars
  BY DEF commitVars, traceVars
<1>2. DecodeInv' /\ rf'[REG_ZERO] = 0
  BY <1>1, DecodeInvStep, ZeroInvStep DEF ClearInv, DecodeInv, ZeroInv
<1>3. TraceInv'
  BY <1>1, TraceInvStep DEF ClearInv
<1>4. /\ imem' = imem /\ pc_if' = pc_if /\ rf' = rf
      /\ id_ex' = id_ex /\ ex_mem' = ex_mem /\ mem_wb' = mem_wb
      /\ slot_id' = slot_id /\ slot_ex' = slot_ex
      /\ slot_mem' = slot_mem /\ slot_wb' = slot_wb
      /\ turn_ex' = turn_ex /\ turn_mem' = turn_mem /\ turn_wb' = turn_wb
  BY DEF commitVars, traceVars, coreVars, ifVars, pipeVars, slots, turns
<1>5. SlotsTyped' /\ AllAsExpected' /\ ReadPast'
  BY <1>4 DEF ClearInv, SlotsTyped, Slot, Data, AllAsExpected, SlotAsExpected, ReadPast,
              SlotReadsPast, Holds, Fetch
<1>6. InOrder' /\ TurnsSquashed'
  BY <1>4 DEF ClearInv, InOrder, Follows, ToData, InEx, InMem, Flying, TurnsSquashed,
              TurnsWriteNothing, MayTurn, Holds, Fetch
<1>7. OperandsCurrent' /\ ResultsCurrent'
  BY <1>4 DEF ClearInv, OperandsCurrent, ResultsCurrent, ComputedWord, Computes, Holds, Fetch
<1>8. QED
  BY <1>2, <1>3, <1>5, <1>6, <1>7 DEF ClearInv
-----------------------------------------------------------------------------
(* The refinement. The reference model is an instance: its operators are    *)
(* those of Decode and ExpectedArith over the same words.                   *)

LEMMA ReferenceWords ==
  /\ Reference!Data = Data /\ Reference!NUM_REGISTERS = NUM_REGISTERS
  /\ Reference!REG_ZERO = REG_ZERO /\ Reference!RegAddr = RegAddr
  /\ \A n : Reference!ToData(n) = ToData(n)
BY DEF Reference!Data, Data, Reference!ToData, ToData, Reference!DataSize, DataSize,
       Reference!HalfRange, HalfRange, Reference!NUM_REGISTERS, NUM_REGISTERS,
       Reference!DATA_WIDTH_BITS, DATA_WIDTH_BITS, Reference!clog2, clog2,
       Reference!REG_ZERO, REG_ZERO, Reference!RegAddr, RegAddr

LEMMA ReferenceImmediates == ASSUME NEW instr PROVE Reference!imm_gen(instr) = imm_gen(instr)
<1>1. \A bits, n : Reference!SignExtend(bits, n) = SignExtend(bits, n)
  BY DEF Reference!SignExtend, SignExtend
<1>2. Reference!ImmI(instr) = ImmI(instr) /\ Reference!ImmS(instr) = ImmS(instr)
  BY <1>1 DEF Reference!ImmI, ImmI, Reference!ImmS, ImmS
<1>3. Reference!ImmB(instr) = ImmB(instr)
  BY <1>1 DEF Reference!ImmB, ImmB
<1>4. Reference!ImmU(instr) = ImmU(instr)
  BY <1>1 DEF Reference!ImmU, ImmU
<1>5. Reference!ImmJ(instr) = ImmJ(instr)
  BY <1>1 DEF Reference!ImmJ, ImmJ
<1>6. QED
  BY <1>2, <1>3, <1>4, <1>5, ReferenceWords DEF Reference!imm_gen, imm_gen

LEMMA ReferenceBitwise ==
  ASSUME NEW a, NEW b
  PROVE  /\ Reference!AndWord(a, b) = AndWord(a, b)
         /\ Reference!OrWord(a, b) = OrWord(a, b)
         /\ Reference!XorWord(a, b) = XorWord(a, b)
<1>1. \A bits : Reference!WordOf(bits) = WordOf(bits)
  BY DEF Reference!WordOf, WordOf, Reference!LeadingBit, LeadingBit, Reference!DataSize,
         DataSize, Reference!HalfRange, HalfRange, Reference!Cardinality, Cardinality
<1>2. QED
  BY <1>1 DEF Reference!AndWord, AndWord, Reference!OrWord, OrWord, Reference!XorWord, XorWord,
              Reference!BitIndices, BitIndices, Reference!Bit, Bit

LEMMA ReferenceArith ==
  ASSUME NEW tx, NEW a, NEW b
  PROVE  Reference!expected_arith(tx, a, b) = expected_arith(tx, a, b)
<1>1. /\ Reference!ShiftLeft(a, Reference!Shamt(b)) = ShiftLeft(a, Shamt(b))
      /\ Reference!ShiftRightLogic(a, Reference!Shamt(b)) = ShiftRightLogic(a, Shamt(b))
      /\ Reference!ShiftRightArith(a, Reference!Shamt(b)) = ShiftRightArith(a, Shamt(b))
  BY ReferenceWords
     DEF Reference!ShiftLeft, ShiftLeft, Reference!ShiftRightLogic, ShiftRightLogic,
         Reference!ShiftRightArith, ShiftRightArith, Reference!Shamt, Shamt,
         Reference!Signed, Signed, Reference!DataSize, DataSize, Reference!HalfRange, HalfRange
<1>2. \A x : Reference!Signed(x) = Signed(x)
  BY DEF Reference!Signed, Signed, Reference!DataSize, DataSize, Reference!HalfRange, HalfRange
<1>3. QED
  BY <1>1, <1>2, ReferenceWords, ReferenceBitwise
     DEF Reference!expected_arith, expected_arith, Reference!F7_VARIANT, F7_VARIANT,
         Reference!F3_ADD_SUB, F3_ADD_SUB, Reference!F3_SLL, F3_SLL, Reference!F3_SLT, F3_SLT,
         Reference!F3_SLTU, F3_SLTU, Reference!F3_XOR, F3_XOR, Reference!F3_SRL_SRA, F3_SRL_SRA,
         Reference!F3_OR, F3_OR, Reference!F3_AND, F3_AND

\* What the pipeline is about to write back is what the reference model computes
\* for the same instruction from the same register file; of a load the reference
\* model takes the word that was written (core_scoreboard.sv 125-128).
LEMMA WritesTheExpectedWord ==
  ASSUME ClearInv, slot_wb.valid, Reference!is_writeback_instr(Holds(slot_wb))
  PROVE  wb_data_out = Reference!expected_data(Holds(slot_wb), wb_data_out)
<1> DEFINE tx == Holds(slot_wb)
<1>1. tx \in Instr /\ ~SetsLessThan(tx) /\ ~jump(tx)
  BY FetchTyped
     DEF ClearInv, DecodeInv, SlotsTyped, Slot, AllAsExpected, SlotAsExpected, AsExpected,
         TraceInv, JumpsStopInDecode, Holds
<1>2. RetirePc = slot_wb.pc
  BY DEF ClearInv, TurnsSquashed, TurnsWriteNothing, RetirePc, InWb, Flying
<1>3. ComputedWord(tx) => wb_data_out = Computes(slot_wb, rf)
  BY DEF ClearInv, ResultsCurrent, wb_data_out, wb_mux
<1>4. rf_read(rf, tx.rs1) = rf[tx.rs1] /\ rf_read(rf, tx.rs2) = rf[tx.rs2]
  BY DEF ClearInv, rf_read
<1>5. tx.opcode \in {"OP_R_TYPE", "OP_I_TYPE", "OP_LUI", "OP_AUIPC", "OP_LOAD"}
  BY <1>1 DEF Instr, Opcodes, jump, Reference!is_writeback_instr
<1> HIDE DEF tx
<1>6. CASE tx.opcode \in AluOpcodes
  <2>1. tx.funct3 \in 0 .. 7 /\ tx.funct3 \notin {F3_SLT, F3_SLTU}
    BY <1>1, <1>6 DEF Instr, SetsLessThan, AluOpcodes
  <2>2. operand_a(tx, slot_wb.pc, rf) = rf[tx.rs1]
    BY <1>4, <1>6 DEF operand_a, AluOpcodes
  <2>3. operand_b(tx, rf) = IF tx.opcode = "OP_I_TYPE" THEN imm_gen(tx) ELSE rf[tx.rs2]
    BY <1>4, <1>6 DEF operand_b, alu_src, AluOpcodes
  <2>4. Computes(slot_wb, rf) = expected_arith(tx, operand_a(tx, slot_wb.pc, rf),
                                               operand_b(tx, rf))
    BY <1>6, <2>1, ArithmeticInstructions DEF Computes, tx
  <2>5. wb_data_out = Computes(slot_wb, rf)
    BY <1>3, <1>6 DEF ComputedWord
  <2>6. QED
    BY <1>6, <2>2, <2>3, <2>4, <2>5, ReferenceArith, ReferenceImmediates
       DEF Reference!expected_data, AluOpcodes, tx
<1>7. CASE tx.opcode = "OP_LUI"
  <2>1. alu_ctrl(tx) = "ALU_COPY_B" /\ operand_b(tx, rf) = imm_gen(tx)
    BY <1>7 DEF alu_ctrl, AluOpcodes, operand_b, alu_src
  <2>2. Computes(slot_wb, rf) = imm_gen(tx)
    BY <2>1 DEF Computes, alu_result, tx
  <2>3. QED
    BY <1>3, <1>7, <2>2, ReferenceImmediates DEF ComputedWord, Reference!expected_data, tx
<1>8. CASE tx.opcode = "OP_AUIPC"
  <2>1. /\ alu_ctrl(tx) = "ALU_ADD" /\ operand_b(tx, rf) = imm_gen(tx)
        /\ operand_a(tx, slot_wb.pc, rf) = slot_wb.pc
    BY <1>8 DEF alu_ctrl, AluOpcodes, operand_b, alu_src, operand_a
  <2>2. Computes(slot_wb, rf) = ToData(slot_wb.pc + imm_gen(tx))
    BY <2>1 DEF Computes, alu_result, tx
  <2>3. QED
    BY <1>2, <1>3, <1>8, <2>2, ReferenceImmediates, ReferenceWords
       DEF ComputedWord, Reference!expected_data, tx
<1>9. CASE tx.opcode = "OP_LOAD"
  BY <1>9 DEF Reference!expected_data, tx
<1>10. QED
  BY <1>5, <1>6, <1>7, <1>8, <1>9 DEF AluOpcodes, tx

\* Seen from the oldest, the flight is the same before and after an edge, but
\* for the one that is retired.
LEMMA NextToRetire ==
  ASSUME ClearInv, ClearTick
  PROVE  /\ RetirePc' = IF InMem.valid THEN InMem.pc
                        ELSE IF InEx.valid THEN InEx.pc
                        ELSE IF slot_id.valid THEN slot_id.pc
                        ELSE pc_if
         /\ RetirePc' \in Data
<1>1. ~slot_id.valid => slot_id' = [valid |-> TRUE, pc |-> pc_if]
  BY ClearEdge, RedirectMayTurn
<1>2. RetirePc' = IF InMem.valid THEN InMem.pc
                  ELSE IF InEx.valid THEN InEx.pc
                  ELSE IF slot_id.valid THEN slot_id.pc
                  ELSE pc_if
  BY <1>1, FlightMovesOn DEF RetirePc
<1>3. pc_if \in Data
  BY DEF ClearInv, DecodeInv, CoreTypeOK, IfStageTypeOK
<1>4. slot_id.pc \in Data /\ InEx.pc \in Data /\ InMem.pc \in Data
  BY DEF ClearInv, SlotsTyped, Slot, InEx, InMem, Flying
<1>5. QED
  BY <1>2, <1>3, <1>4

\* An edge at which an instruction is written back is one transaction of the
\* reference model; so is one at which a turn reaches write-back, and any other
\* edge is none.
LEMMA EdgeRetires ==
  ASSUME ClearInv, ClearTick, slot_wb.valid
  PROVE  \E bus_data \in Reference!Data : Reference!Retire(bus_data)
<1> DEFINE tx == Holds(slot_wb)
<1>1. PICK dmem_rdata \in DmemData : Clock(dmem_rdata)
  BY DEF ClearTick, CommitTick, TraceTick, Tick
<1>2. tx \in Instr /\ ~jump(tx)
  BY FetchTyped DEF ClearInv, DecodeInv, SlotsTyped, Slot, TraceInv, JumpsStopInDecode, Holds
<1>3. RetirePc = slot_wb.pc
  BY DEF ClearInv, TurnsSquashed, TurnsWriteNothing, RetirePc, InWb, Flying
<1>4. RetirePc' = InMem.pc /\ Follows(slot_wb.pc, InMem.pc) /\ RetirePc' \in Data
  BY NextToRetire DEF ClearInv, InOrder
<1>5. tx = Reference!Fetch(RetirePc)
  BY <1>3, ReferenceWords DEF Reference!Fetch, Holds, Fetch
<1>6. IF Reference!IsControlFlow(tx) THEN RetirePc' \in Reference!Data
      ELSE RetirePc' = Reference!ToData(RetirePc + 4)
  <2>1. MayTurn(slot_wb.pc) => Reference!IsControlFlow(tx)
    BY DEF MayTurn, branch, jump, Reference!IsControlFlow, Holds
  <2>2. QED
    BY <1>3, <1>4, <2>1, ReferenceWords DEF Follows
<1>7. rf' = IF Reference!is_writeback_instr(tx)
            THEN [rf EXCEPT ![tx.rd] = Reference!expected_data(tx, wb_data_out)] ELSE rf
  <2>1. rf' = rf_write(rf, mem_wb.reg_write_en, mem_wb.rd_addr, wb_data_out)
    BY <1>1 DEF Clock, RfUpdate
  <2>2. mem_wb.reg_write_en = reg_we(tx) /\ mem_wb.rd_addr = tx.rd
    BY DEF ClearInv, DecodeInv, CoreTypeOK, MemWbReg, TraceInv, WritesAs,
           WritesBelongToTheirInstruction, reg_we
  <2>3. Reference!is_writeback_instr(tx) <=> reg_we(tx) /\ tx.rd # REG_ZERO
    BY <1>2, ReferenceWords
       DEF Instr, Opcodes, jump, Reference!is_writeback_instr, reg_we
  <2>4. QED
    BY <2>1, <2>2, <2>3, WritesTheExpectedWord DEF rf_write
<1>8. wb_data_out \in Reference!Data
  BY ReferenceWords DEF ClearInv, DecodeInv, CoreTypeOK, MemWbReg, wb_data_out, wb_mux
<1>9. imem' = imem
  BY WordsStay DEF ClearTick, CommitTick
<1>10. Reference!Retire(wb_data_out)
  BY <1>5, <1>6, <1>7, <1>9, ReferenceWords DEF Reference!Retire
<1>11. QED
  BY <1>8, <1>10

LEMMA NothingWritten ==
  ASSUME ClearInv, ClearTick, ~slot_wb.valid
  PROVE  rf' = rf /\ imem' = imem
<1>1. ~mem_wb.reg_write_en
  BY DEF ClearInv, TraceInv, WritesBelongToTheirInstruction, WritesAs
<1>2. QED
  BY <1>1 DEF ClearTick, CommitTick, TraceTick, Tick, Clock, RfUpdate, rf_write

LEMMA EdgeTurns ==
  ASSUME ClearInv, ClearTick, turn_wb.valid
  PROVE  \E bus_data \in Reference!Data : Reference!Retire(bus_data)
<1> DEFINE tx == Holds(turn_wb)
<1>1. ~slot_wb.valid /\ MayTurn(turn_wb.pc) /\ ~WritesLink(tx)
  BY DEF ClearInv, TurnsSquashed, TurnsWriteNothing
<1>2. RetirePc = turn_wb.pc /\ RetirePc' \in Data
  BY NextToRetire DEF RetirePc, InWb, Flying
<1>3. tx = Reference!Fetch(RetirePc)
  BY <1>2, ReferenceWords DEF Reference!Fetch, Holds, Fetch
<1>4. Reference!IsControlFlow(tx) /\ ~Reference!is_writeback_instr(tx)
  BY <1>1, ReferenceWords DEF MayTurn, WritesLink, branch, jump, Holds,
     Reference!IsControlFlow, Reference!is_writeback_instr
<1>5. Reference!Retire(0)
  BY <1>1, <1>2, <1>3, <1>4, NothingWritten, ReferenceWords DEF Reference!Retire
<1>6. QED
  BY <1>5, ZeroIsData, ReferenceWords

LEMMA EdgeStutters ==
  ASSUME ClearInv, ClearTick, ~slot_wb.valid, ~turn_wb.valid
  PROVE  UNCHANGED Reference!refVars
<1>1. ~InWb.valid
  BY DEF InWb, Flying
<1>2. RetirePc' = RetirePc
  BY <1>1, NextToRetire DEF RetirePc
<1>3. QED
  BY <1>2, NothingWritten DEF Reference!refVars

LEMMA ReferenceStep ==
  ClearInv /\ [ClearTick \/ CommitReset]_commitVars => [Reference!Next]_(Reference!refVars)
<1> SUFFICES ASSUME ClearInv, [ClearTick \/ CommitReset]_commitVars
             PROVE  [Reference!Next]_(Reference!refVars)
  OBVIOUS
<1>1. CASE ClearTick
  BY <1>1, EdgeRetires, EdgeTurns, EdgeStutters DEF Reference!Next
<1>2. CASE CommitReset
  <2>1. imem' = imem /\ rf' = EmptyRf /\ pc_if' = 0
    BY <1>2 DEF CommitReset, TraceReset, Reset, IfStageReset
  <2>2. RetirePc' = 0
    BY <1>2, <2>1 DEF CommitReset, TraceReset, Bubble, RetirePc, InWb, InMem, InEx, Flying
  <2>3. rf' = Reference!EmptyMirror
    BY <2>1, ReferenceWords DEF EmptyRf, Reference!EmptyMirror
  <2>4. QED
    BY <2>1, <2>2, <2>3 DEF Reference!Restart, Reference!Next
<1>3. CASE UNCHANGED commitVars
  BY <1>3 DEF commitVars, traceVars, coreVars, ifVars, pipeVars, slots, turns,
              Reference!refVars, RetirePc, InWb, InMem, InEx, Flying
<1>4. QED
  BY <1>1, <1>2, <1>3

LEMMA ReferenceInit == CommitInit => Reference!Init
<1> SUFFICES ASSUME CommitInit PROVE Reference!Init
  OBVIOUS
<1>1. rf = EmptyRf /\ pc_if = 0
  BY DEF CommitInit, TraceInit, CoreInit, IfStageInit
<1>2. RetirePc = 0
  BY <1>1 DEF CommitInit, TraceInit, SlotsEmpty, Bubble, RetirePc, InWb, InMem, InEx, Flying
<1>3. QED
  BY <1>1, <1>2, ReferenceWords DEF Reference!Init, EmptyRf, Reference!EmptyMirror

\* In every program, branches and jumps included, and for as long as nothing is
\* in the way, the pipeline commits write by write what the scoreboard's
\* one-at-a-time model commits: whatever the buffer predicts, wherever a redirect
\* goes and whenever a reset comes, at every width and depth (core_top.sv and
\* rtl/pr against core_scoreboard.sv 52-158).
THEOREM CommitsAsReferenceAlways == ClearSpec => CommitsAsReference
<1>1. CommitInit => ClearInv /\ Reference!Init
  BY ClearInvInit, ReferenceInit
<1>2. ClearInv /\ [ClearTick \/ CommitReset]_commitVars => ClearInv'
  BY ClearInvStep
<1>3. ClearInv /\ [ClearTick \/ CommitReset]_commitVars
        => [Reference!Next]_(Reference!refVars)
  BY ReferenceStep
<1>4. QED
  BY <1>1, <1>2, <1>3, PTL DEF ClearSpec, CommitsAsReference, Reference!Spec
-----------------------------------------------------------------------------
(* Programs that keep clear by themselves. Nothing stalls and nothing turns *)
(* on one, so the slots hold consecutive words, and the word n slots ahead  *)
(* is the one that HazardFree calls n before.                               *)

Following(pc) == ToData(pc + 4)

IsAddress(pc) == pc \in Data /\ pc % 4 = 0

Behind(s, t) == t.valid => s.valid /\ s.pc = Following(t.pc)

Consecutive ==
  /\ \A pc \in {pc_if, slot_id.pc, slot_ex.pc, slot_mem.pc, slot_wb.pc} : IsAddress(pc)
  /\ slot_id.valid => pc_if = Following(slot_id.pc)
  /\ Behind(slot_id, slot_ex)
  /\ Behind(slot_ex, slot_mem)
  /\ Behind(slot_mem, slot_wb)

StraightInv ==
  /\ TraceInv
  /\ HazardFree(imem)
  /\ \A i \in BtbIndices : ~btb[i].valid
  /\ Consecutive

\* Where a word of the program stands, counted in words from address 0.
Position(pc) == pc \div 4

\* The instruction at q is the nth before the one at p, the program coming round.
NthBefore(q, p, n) ==
  \E rounds \in Int : Position(p) = Position(q) + n - NUM_REGISTERS * rounds

\* Two bits less than the width are enough for a register address.
LEMMA PowerLeavesTwoBits == ASSUME NEW n \in Nat PROVE 2^(n + 2) >= n + 4
<1> DEFINE S == {k \in Nat : 2^(k + 2) >= k + 4}
<1>1. 0 \in S
  <2>1. 0 + 2 = 2
    OBVIOUS
  <2>2. QED
    BY <2>1, PowerValues, SMT
<1>2. ASSUME NEW k \in Nat, k \in S PROVE k + 1 \in S
  <2>1. /\ 2^((k + 2) + 1) = 2 * 2^(k + 2) /\ 2^(k + 2) \in Nat
        /\ 2^(k + 2) >= k + 4
    BY <1>2, PowerDoubles, PowerCountsSets
  <2>2. 2 * 2^(k + 2) >= (k + 1) + 4
    BY <2>1
  <2>3. (k + 2) + 1 = (k + 1) + 2
    OBVIOUS
  <2>4. 2^((k + 1) + 2) >= (k + 1) + 4
    BY <2>1, <2>2, <2>3
  <2>5. QED
    BY <2>4
<1> HIDE DEF S
<1>3. Nat \subseteq S
  BY <1>1, <1>2, Induction
<1>4. QED
  BY <1>3 DEF S

\* The program comes round where the program counter does.
LEMMA ProgramDividesAddresses == DataSize % (4 * NUM_REGISTERS) = 0
<1> DEFINE w == DATA_WIDTH
           k == DATA_WIDTH_BITS
<1>1. w \in Nat /\ w - 4 \in Nat /\ w - 2 \in 0 .. w
  BY DataWidthAssumption, AddressAssumption
<1>2. 2^(w - 2) >= w
  <2>1. (w - 4) + 2 = w - 2 /\ (w - 4) + 4 = w
    BY <1>1
  <2>2. QED
    BY <1>1, <2>1, PowerLeavesTwoBits
<1>3. k \in Nat /\ k <= w - 2
  BY <1>1, <1>2, AddressWidth
<1>4. 2^((k + 1) + 1) = 4 * 2^k /\ 2^k \in Nat \ {0}
  <2>1. k + 1 \in Nat
    BY <1>3
  <2>2. 2^((k + 1) + 1) = 2 * 2^(k + 1)
    BY <2>1, PowerDoubles
  <2>3. 2^(k + 1) = 2 * 2^k /\ 2^k \in Nat \ {0}
    BY <1>3, PowerDoubles, PowerCountsSets
  <2>4. QED
    BY <2>2, <2>3
<1>5. PICK m \in Nat \ {0} : DataSize = 2^((k + 1) + 1) * m
  <2>1. (k + 1) + 1 \in 0 .. w
    BY <1>1, <1>3
  <2>2. QED
    BY <1>1, <2>1, PowerDivides, WordsOfWidth
<1> DEFINE d == 4 * NUM_REGISTERS
<1>6. DataSize = d * m + 0 /\ d \in Nat \ {0} /\ 0 \in 0 .. d - 1
  BY <1>4, <1>5 DEF NUM_REGISTERS
<1> HIDE DEF d
<1>7. DataSize % d = 0
  BY <1>5, <1>6, DivModUnique
<1>8. QED
  BY <1>7 DEF d

LEMMA FollowingIsNext ==
  ASSUME NEW pc, IsAddress(pc)
  PROVE  IsAddress(Following(pc)) /\ NthBefore(pc, Following(pc), 1)
<1> DEFINE rounds == DataSize \div (4 * NUM_REGISTERS)
<1>1. NUM_REGISTERS \in Nat \ {0} /\ DataSize \in Nat \ {0}
  BY PowersArePositive, DataSizePositive
<1>2. rounds \in Int /\ DataSize = 4 * (NUM_REGISTERS * rounds)
  <2>1. 4 * NUM_REGISTERS \in Nat \ {0} /\ DataSize % (4 * NUM_REGISTERS) = 0
    BY <1>1, ProgramDividesAddresses
  <2>2. rounds \in Int /\ DataSize = (4 * NUM_REGISTERS) * rounds + 0
    BY <1>1, <2>1
  <2>3. QED
    BY <1>1, <2>2
<1>3. pc \in Nat /\ pc < DataSize /\ pc % 4 = 0 /\ pc = 4 * Position(pc)
  BY <1>1 DEF IsAddress, Data, Position
<1> HIDE DEF rounds
<1>4. NUM_REGISTERS * rounds \in Int /\ Position(pc) \in Int
  BY <1>1, <1>2, <1>3 DEF Position
<1>5. CASE pc + 4 < DataSize
  <2>1. Following(pc) = pc + 4
    BY <1>1, <1>3, <1>5, ToDataOneTurn DEF Following
  <2>2. Position(pc + 4) = Position(pc) + 1 - NUM_REGISTERS * 0
    BY <1>1, <1>3 DEF Position
  <2>3. NthBefore(pc, pc + 4, 1)
    BY <2>2 DEF NthBefore
  <2>4. IsAddress(pc + 4)
    BY <1>1, <1>3, <1>5 DEF IsAddress, Data
  <2>5. QED
    BY <2>1, <2>3, <2>4
<1>6. CASE pc + 4 = DataSize
  <2>1. Following(pc) = 0
    BY <1>1, <1>3, <1>6, ToDataOneTurn DEF Following
  <2>2. Position(0) = 0 /\ Position(pc) + 1 = NUM_REGISTERS * rounds
    BY <1>1, <1>2, <1>3, <1>4, <1>6 DEF Position
  <2>3. Position(0) = Position(pc) + 1 - NUM_REGISTERS * rounds
    BY <1>4, <2>2
  <2>4. NthBefore(pc, 0, 1)
    BY <1>2, <2>3 DEF NthBefore
  <2>5. IsAddress(0)
    BY ZeroIsData DEF IsAddress
  <2>6. QED
    BY <2>1, <2>4, <2>5
<1>7. pc + 4 <= DataSize
  BY <1>1, <1>2, <1>3, <1>4
<1>8. QED
  BY <1>1, <1>3, <1>5, <1>6, <1>7

LEMMA NthBeforeFollows ==
  ASSUME NEW q, NEW p, IsAddress(q), IsAddress(p), NEW n \in Int, NthBefore(q, p, n)
  PROVE  NthBefore(q, Following(p), n + 1)
<1>1. PICK t \in Int : Position(p) = Position(q) + n - NUM_REGISTERS * t
  BY DEF NthBefore
<1>2. PICK u \in Int : Position(Following(p)) = Position(p) + 1 - NUM_REGISTERS * u
  BY FollowingIsNext DEF NthBefore
<1>3. Position(q) \in Int
  BY DataIsNat DEF IsAddress, Position
<1>4. NUM_REGISTERS * (t + u) = NUM_REGISTERS * t + NUM_REGISTERS * u
      /\ NUM_REGISTERS * t \in Int /\ NUM_REGISTERS * u \in Int /\ t + u \in Int
  BY PowersArePositive
<1>5. Position(Following(p)) = Position(q) + (n + 1) - NUM_REGISTERS * (t + u)
  BY <1>1, <1>2, <1>3, <1>4
<1>6. QED
  BY <1>4, <1>5 DEF NthBefore

\* What HazardFree calls the instruction n before is the one fetched there.
LEMMA BeforeIsFetched ==
  ASSUME NEW q, NEW p, IsAddress(q), IsAddress(p), NEW n \in 1 .. 3, NthBefore(q, p, n)
  PROVE  /\ Position(p) % NUM_REGISTERS \in 0 .. NUM_REGISTERS - 1
         /\ Before(imem, Position(p) % NUM_REGISTERS, n) = Fetch(q)
<1> DEFINE N == NUM_REGISTERS
           a == Position(p)
           b == Position(q)
<1>1. N \in Nat \ {0}
  BY PowersArePositive
<1>2. a \in Nat /\ b \in Nat
  BY DataIsNat DEF IsAddress, Position
<1>3. PICK t \in Int : a = b + n - N * t
  BY DEF NthBefore
<1> DEFINE i == a \div N
           j == b \div N
<1>4. /\ i \in Int /\ a % N \in 0 .. N - 1 /\ a = N * i + (a % N)
      /\ j \in Int /\ b % N \in 0 .. N - 1 /\ b = N * j + (b % N)
  <2>1. ASSUME NEW d \in Nat \ {0}, NEW c \in Nat
        PROVE  c \div d \in Int /\ c % d \in 0 .. d - 1 /\ c = d * (c \div d) + (c % d)
    OBVIOUS
  <2> HIDE DEF N, a, b
  <2>2. QED
    BY <1>1, <1>2, <2>1
<1>5. /\ N * (j + n - t - i) = N * j + N * n - N * t - N * i
      /\ (N - 1) * n = N * n - n
      /\ N * i \in Int /\ N * j \in Int /\ N * n \in Int /\ N * t \in Int
  <2> HIDE DEF N, a, b, i, j
  <2>1. i \in Int /\ j \in Int /\ n \in Int /\ N \in Int
    BY <1>1, <1>4
  <2>2. (N - 1) * n = N * n - n
    BY <2>1
  <2>3. N * (j + n - t - i) = N * j + N * n - N * t - N * i
    BY <2>1
  <2>4. N * i \in Int /\ N * j \in Int /\ N * n \in Int /\ N * t \in Int
    BY <2>1
  <2>5. QED
    BY <2>2, <2>3, <2>4
<1>6. (a % N) + (N - 1) * n = N * (j + n - t - i) + (b % N)
  <2> HIDE DEF N, a, b, i, j
  <2> QED
    BY <1>1, <1>2, <1>3, <1>4, <1>5
<1>7. (N * (j + n - t - i) + (b % N)) % N = b % N
  <2> HIDE DEF N, a, b, i, j
  <2>1. j + n - t - i \in Int
    BY <1>4
  <2>2. QED
    BY <1>1, <1>4, <2>1, DivModUnique
<1>8. Before(imem, a % N, n) = imem[b % N]
  BY <1>6, <1>7 DEF Before
<1>9. QED
  BY <1>4, <1>8 DEF Fetch, Position

\* How far apart the instructions in flight are.
LEMMA SlotsApart ==
  ASSUME Consecutive
  PROVE  /\ slot_ex.valid => slot_id.valid /\ NthBefore(slot_ex.pc, slot_id.pc, 1)
         /\ slot_mem.valid => /\ slot_ex.valid
                              /\ NthBefore(slot_mem.pc, slot_ex.pc, 1)
                              /\ NthBefore(slot_mem.pc, slot_id.pc, 2)
         /\ slot_wb.valid => /\ slot_mem.valid
                             /\ NthBefore(slot_wb.pc, slot_mem.pc, 1)
                             /\ NthBefore(slot_wb.pc, slot_ex.pc, 2)
                             /\ NthBefore(slot_wb.pc, slot_id.pc, 3)
<1>1. /\ IsAddress(slot_id.pc) /\ IsAddress(slot_ex.pc)
      /\ IsAddress(slot_mem.pc) /\ IsAddress(slot_wb.pc)
  BY DEF Consecutive
<1>2. slot_ex.valid => slot_id.valid /\ slot_id.pc = Following(slot_ex.pc)
  BY DEF Consecutive, Behind
<1>3. slot_mem.valid => slot_ex.valid /\ slot_ex.pc = Following(slot_mem.pc)
  BY DEF Consecutive, Behind
<1>4. slot_wb.valid => slot_mem.valid /\ slot_mem.pc = Following(slot_wb.pc)
  BY DEF Consecutive, Behind
<1>5. /\ NthBefore(slot_ex.pc, Following(slot_ex.pc), 1)
      /\ NthBefore(slot_mem.pc, Following(slot_mem.pc), 1)
      /\ NthBefore(slot_wb.pc, Following(slot_wb.pc), 1)
  BY <1>1, FollowingIsNext
<1>6. slot_mem.valid => NthBefore(slot_mem.pc, slot_id.pc, 2)
  BY <1>1, <1>2, <1>3, <1>5, NthBeforeFollows
<1>7. slot_wb.valid => NthBefore(slot_wb.pc, slot_ex.pc, 2)
  BY <1>1, <1>3, <1>4, <1>5, NthBeforeFollows
<1>8. slot_wb.valid => NthBefore(slot_wb.pc, slot_id.pc, 3)
  BY <1>1, <1>2, <1>3, <1>4, <1>7, NthBeforeFollows
<1>9. QED
  BY <1>2, <1>3, <1>4, <1>5, <1>6, <1>7, <1>8

\* What HazardFree says of a pair of words holds of two slots that far apart.
LEMMA HazardFreePair ==
  ASSUME HazardFree(imem), NEW q, NEW p, IsAddress(q), IsAddress(p),
         NEW n \in 1 .. 3, NthBefore(q, p, n)
  PROVE  IF n = 1 THEN KeepsClearOfNext(Fetch(p), Fetch(q))
                  ELSE NamesNothingOf(Fetch(p), Fetch(q))
<1> DEFINE k == Position(p) % NUM_REGISTERS
<1>1. k \in 0 .. NUM_REGISTERS - 1 /\ Before(imem, k, n) = Fetch(q) /\ imem[k] = Fetch(p)
  BY BeforeIsFetched DEF Fetch, Position
<1> HIDE DEF k
<1>2. n # 1 => n \in 2 .. 3
  OBVIOUS
<1>3. QED
  BY <1>1, <1>2 DEF HazardFree

LEMMA PlainInstruction ==
  ASSUME HazardFree(imem), NEW pc, IsAddress(pc)
  PROVE  ~branch(Fetch(pc)) /\ ~jump(Fetch(pc)) /\ AsExpected(Fetch(pc))
<1>1. pc \div 4 \in Int
  BY DataIsNat DEF IsAddress
<1>2. (pc \div 4) % NUM_REGISTERS \in 0 .. NUM_REGISTERS - 1
  BY <1>1, PowersArePositive
<1>3. QED
  BY <1>2 DEF HazardFree, Fetch

LEMMA StraightIsClear == StraightInv => NothingInTheWay
<1> SUFFICES ASSUME StraightInv, slot_id.valid
             PROVE  /\ AsExpected(Holds(slot_id))
                    /\ slot_ex.valid => KeepsClearOfNext(Holds(slot_id), Holds(slot_ex))
                    /\ \A s \in {slot_mem, slot_wb} :
                         s.valid => NamesNothingOf(Holds(slot_id), Holds(s))
  BY DEF NothingInTheWay
<1>1. HazardFree(imem) /\ Consecutive
  BY DEF StraightInv
<1>2. /\ IsAddress(slot_id.pc) /\ IsAddress(slot_ex.pc)
      /\ IsAddress(slot_mem.pc) /\ IsAddress(slot_wb.pc)
  BY <1>1 DEF Consecutive
<1>3. AsExpected(Holds(slot_id))
  BY <1>1, <1>2, PlainInstruction DEF Holds
<1>4. slot_ex.valid => KeepsClearOfNext(Holds(slot_id), Holds(slot_ex))
  BY <1>1, <1>2, SlotsApart, HazardFreePair DEF Holds
<1>5. slot_mem.valid => NamesNothingOf(Holds(slot_id), Holds(slot_mem))
  BY <1>1, <1>2, SlotsApart, HazardFreePair DEF Holds
<1>6. slot_wb.valid => NamesNothingOf(Holds(slot_id), Holds(slot_wb))
  BY <1>1, <1>2, SlotsApart, HazardFreePair DEF Holds
<1>7. QED
  BY <1>3, <1>4, <1>5, <1>6

LEMMA NothingTurns ==
  ASSUME StraightInv
  PROVE  ~ex_mispredict /\ ~btb_hit(pc_if)
<1>1. IsAddress(slot_id.pc) /\ pc_if \in Data
  BY DEF StraightInv, Consecutive, IsAddress
<1>2. instr_id = IF slot_id.valid THEN Fetch(slot_id.pc) ELSE ZeroInstr
  BY DEF StraightInv, TraceInv, SlotsNameWhatStagesHold, instr_id, Holds, EmptyIfId
<1>3. ~branch(instr_id) /\ ~jump(instr_id)
  BY <1>1, <1>2, PlainInstruction, BubbleIsNoControlFlow DEF StraightInv
<1>4. ~btb_hit(pc_if)
  BY <1>1, IndexInRange DEF StraightInv, btb_hit
<1>5. QED
  BY <1>3, <1>4 DEF ex_mispredict

LEMMA StraightDoesNotStall ==
  ASSUME StraightInv
  PROVE  ~hdu_stall
<1> SUFFICES ASSUME id_ex.mem_to_reg, id_ex.rd_addr # REG_ZERO,
                    id_ex.rd_addr \in {instr_id.rs1, instr_id.rs2}
             PROVE  FALSE
  BY DEF hdu_stall, hdu_stall_o
<1>1. /\ slot_ex.valid /\ mem_to_reg(Holds(slot_ex)) /\ reg_we(Holds(slot_ex))
      /\ id_ex.rd_addr = Holds(slot_ex).rd
  BY DEF StraightInv, TraceInv, WritesBelongToTheirInstruction, WritesAs, mem_to_reg, reg_we
<1>2. slot_id.valid
  BY <1>1 DEF StraightInv, Consecutive, Behind
<1>3. instr_id = Holds(slot_id)
  BY <1>2 DEF StraightInv, TraceInv, SlotsNameWhatStagesHold, instr_id
<1>4. NamesNothingOf(instr_id, Holds(slot_ex))
  BY <1>1, <1>2, <1>3, StraightIsClear DEF NothingInTheWay, KeepsClearOfNext
<1>5. QED
  BY <1>1, <1>4 DEF NamesNothingOf, Writes

LEMMA StraightInvTick == StraightInv /\ TraceTick => StraightInv'
<1> SUFFICES ASSUME StraightInv, TraceTick PROVE StraightInv'
  OBVIOUS
<1>1. ~ex_mispredict /\ ~hdu_stall /\ ~btb_hit(pc_if)
  BY NothingTurns, StraightDoesNotStall
<1>2. /\ imem' = imem /\ btb' = btb /\ pc_if' = Following(pc_if)
      /\ slot_id' = [valid |-> TRUE, pc |-> pc_if]
      /\ slot_ex' = slot_id /\ slot_mem' = slot_ex /\ slot_wb' = slot_mem
  BY <1>1 DEF TraceTick, Tick, Clock, IfStageClock, BtbUpdate, pc_next, pc_plus4, Following
<1>3. TraceInv'
  BY TickTrace DEF StraightInv
<1>4. HazardFree(imem)' /\ \A i \in BtbIndices : ~btb'[i].valid
  BY <1>2 DEF StraightInv, HazardFree, Before
<1>5. \A pc : IsAddress(pc)' = IsAddress(pc) /\ Following(pc)' = Following(pc)
  BY DEF IsAddress, Following, ToData, Data
<1>6. IsAddress(Following(pc_if))
  BY FollowingIsNext DEF StraightInv, Consecutive
<1>7. Consecutive'
  BY <1>2, <1>5, <1>6 DEF StraightInv, Consecutive, Behind
<1>8. QED
  BY <1>3, <1>4, <1>7 DEF StraightInv, BtbIndices

LEMMA StraightInvInit == HazardFreeInit => StraightInv
<1> SUFFICES ASSUME HazardFreeInit PROVE StraightInv
  OBVIOUS
<1>1. TraceInv
  BY TraceInvInit DEF HazardFreeInit, CommitInit
<1>2. btb = EmptyBtb /\ pc_if = 0 /\ SlotsEmpty
  BY DEF HazardFreeInit, CommitInit, TraceInit, CoreInit, IfStageInit
<1>3. QED
  BY <1>1, <1>2, ZeroIsData
     DEF HazardFreeInit, StraightInv, EmptyBtb, Consecutive, Behind, IsAddress, SlotsEmpty, Bubble

LEMMA StraightInvStep == StraightInv /\ [CommitNext]_commitVars => StraightInv'
<1> SUFFICES ASSUME StraightInv, [CommitNext]_commitVars PROVE StraightInv'
  OBVIOUS
<1>1. CASE CommitTick
  BY <1>1, StraightInvTick DEF CommitTick
<1>2. CASE CommitReset
  <2>1. TraceReset
    BY <1>2 DEF CommitReset
  <2>2. /\ imem' = imem /\ btb' = EmptyBtb /\ pc_if' = 0
        /\ slot_id' = Bubble /\ slot_ex' = Bubble /\ slot_mem' = Bubble /\ slot_wb' = Bubble
    BY <2>1 DEF TraceReset, Reset, IfStageReset
  <2>3. HazardFree(imem)' /\ \A i \in BtbIndices : ~btb'[i].valid
    BY <2>2 DEF StraightInv, HazardFree, Before, EmptyBtb
  <2>4. Consecutive'
    BY <2>2, ZeroIsData DEF Consecutive, Behind, IsAddress, Data, Bubble
  <2>5. QED
    BY <2>1, <2>3, <2>4, ResetTrace DEF StraightInv, BtbIndices
<1>3. CASE UNCHANGED commitVars
  <2>1. UNCHANGED traceVars /\ UNCHANGED <<imem, btb, pc_if>> /\ UNCHANGED slots
    BY <1>3 DEF commitVars, traceVars, coreVars, ifVars
  <2>2. TraceInv'
    BY <2>1, TraceInvStep DEF StraightInv
  <2>3. HazardFree(imem)' /\ \A i \in BtbIndices : ~btb'[i].valid
    BY <2>1 DEF StraightInv, HazardFree, Before
  <2>4. Consecutive'
    BY <2>1 DEF slots, StraightInv, Consecutive, Behind, IsAddress, Following, ToData, Data
  <2>5. QED
    BY <2>2, <2>3, <2>4 DEF StraightInv, BtbIndices
<1>4. QED
  BY <1>1, <1>2, <1>3 DEF CommitNext

LEMMA StraightAlwaysClear == HazardFreeSpec => []NothingInTheWay
BY StraightInvInit, StraightInvStep, StraightIsClear, PTL DEF HazardFreeSpec

\* In every program HazardFree accepts, at every width and depth and however
\* often it is reset, nothing is ever in the way (core_top.sv, if_stage.sv 77-91,
\* imem.sv).
THEOREM HazardFreeKeepsClearAlways == CommitSpec => []HazardFreeKeepsClear
<1> DEFINE IfFree == HazardFree(imem) => StraightInv
<1>1. CommitInit => IfFree
  BY StraightInvInit DEF HazardFreeInit
<1>2. IfFree /\ [CommitNext]_commitVars => IfFree'
  <2> SUFFICES ASSUME IfFree, [CommitNext]_commitVars, HazardFree(imem)'
               PROVE  StraightInv'
    OBVIOUS
  <2>1. imem' = imem
    BY DEF CommitNext, CommitTick, CommitReset, TraceTick, TraceReset, Tick, Clock, Reset,
           commitVars, traceVars, coreVars, ifVars
  <2>2. HazardFree(imem)
    BY <2>1 DEF HazardFree, Before
  <2>3. QED
    BY <2>2, StraightInvStep
<1>3. IfFree => HazardFreeKeepsClear
  BY StraightIsClear DEF HazardFreeKeepsClear
<1> HIDE DEF IfFree
<1>4. QED
  BY <1>1, <1>2, <1>3, PTL DEF CommitSpec

\* So on every such program, with nothing asked of its run, the pipeline commits
\* what the scoreboard's model commits.
THEOREM HazardFreeCommitsAsReference == HazardFreeSpec => CommitsAsReference
<1>1. HazardFreeInit => CommitInit
  BY DEF HazardFreeInit
<1>2. NothingInTheWay /\ [CommitNext]_commitVars => [ClearTick \/ CommitReset]_commitVars
  BY DEF CommitNext, ClearTick
<1>3. HazardFreeSpec => ClearSpec
  BY <1>1, <1>2, StraightAlwaysClear, PTL DEF HazardFreeSpec, ClearSpec
<1>4. QED
  BY <1>3, CommitsAsReferenceAlways
=============================================================================
