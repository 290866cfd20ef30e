# Verification of riscv-core

TLA+ models of the RV32I pipeline of this repository (`src/rtl`), of its test bench
(`src/dv`: processes, monitor, scoreboard) and of the register back door in C that the bench's
UVM brings along (`src/dv/uvm/.../dpi/uvm_hdl*`); TLC runs on small instances; and TLAPS
proofs for every word width, buffer depth, program, instruction stream and delay.

    tlc -workers 2 -config MCCore.cfg MCCore      # one run
    tlapm CoreProofs.tla                          # one module's proofs

Paths below are relative to `src/`.

## 1. The system

### Components

| Component | State | Operations | Interacts with |
|---|---|---|---|
| Types package `rtl/common/riscv_types_pkg.sv` | none | widths, opcodes, enums | everyone |
| Fetch stage `rtl/if/if_stage.sv`, `pc/pc.sv`, `btb/btb.sv` | program counter; branch target buffer (valid, tag, target); its own copy `id_pc_o` of the decode address | advance, predict, stall, redirect, train the buffer | asked by EX for redirects, by the HDU to stall; gives the address to the memory |
| Instruction memory `rtl/if/imem/imem.sv` | the program | combinational read | fetch |
| Decode `rtl/id/*` | register file | decode, immediates, hazard detection, read ports, write port | reads EX's destination (HDU), written by WB |
| Execute `rtl/ex/*` | none | ALU, branch comparison, target address, forwarding multiplexers | reads MEM and WB (forwarding), redirects fetch |
| Memory stage `rtl/mem/*` | none | byte enables, lane shifts, extension | data bus |
| Write-back `rtl/wb/*` | none | selects the word written | register file, forwarding |
| Pipeline registers `rtl/pr/*` | four registers | load, flush, stall, reset | neighbours |
| Core `rtl/core_top.sv` | none of its own | the wiring, and `ex_mispredict` | all of the above |
| Monitor `dv/env/memory_agent/mem_monitor.sv` | none | decodes a valid word into a transaction | samples the bus, feeds the scoreboard |
| Scoreboard `dv/env/core_scoreboard.sv` | register mirror, counters | predict, compare, advance the mirror, report | monitor |
| Driver, sequencer, agent `dv/env/memory_agent/*` | who holds the item | reset the pins, take an item, drive, done | sequence, core's ports |
| Tests, sequences `dv/tests`, `dv/env/sequences` | objections, items to go | raise, run, drop | agent |
| Clock and reset `dv/core_tb.sv` | clock, reset | tick, release reset | everyone |
| Payloads, scripts `sim/*` | programs | - | memory, simulator |
| Back door `dv/uvm/1800.2-2017-1.0/src/dpi/uvm_hdl*` | one static flag; what is forced | check, read, deposit, force, release, force for a time | simulator's object database (VPI, FLI, VHPI, mhpi), tests |
| Rest of UVM `dv/uvm` | - | third-party library | bench |

### What is hard here

Everything happens at one clock edge: the difficulty is never a data race, it is
*which cycle* a signal belongs to. Five instructions are in flight; a signal taken
from one stage and used with another's data is wrong only for some neighbours.

* Redirect, prediction and stall compete for the next fetch address, and the same
  stall and flush reach two copies of the decode address in two modules.
* A stall holds fetch and decode but not EX; a redirect empties decode and EX but not
  what is older.
* Forwarding, the branch comparison, the branch target and the store strobe take
  their halves from different stages.
* The buffer is trained from one register, the branch that trains it decoded from
  another, and it is never told that a prediction failed.
* x0 is protected in four places; the sign tests of overflow and comparisons, the
  alignment of computed targets and the lane arithmetic of the LSU have edges.
* Liveness: the load-use stall is released only by the pipeline moving on.

The bench has two more kinds. Its processes hand items over in four steps around a clock
edge, and end a run by an objection; and its checker keeps a state of its own, the
mirror, that goes stale at the first mismatch. The back door takes ranges apart into
bits, in place in the caller's path, with a static flag for memory between calls;
stops half way when a bit does not exist; reassembles values wider than 32 bits; and
is called by timed tasks that overlap.

`PROJECT.json` lists each of these at its line with the properties aimed at it.

### What makes each component correct

* *Fetch*: it goes where it is told (redirect first), else to the last target of exactly
  this address, else ahead; no plain instruction is predicted to jump.
* *Pipeline registers*: an instruction's address, word, destination and enables travel
  together or are squashed together; nothing squashed writes.
* *Hazard unit*: every stall ends, and in one cycle.
* *Units*: flags, comparisons and shifts are those of the integers and of the scoreboard.
* *LSU*: a load returns what a store of its kind put there; no other byte changes.
* *Core*: what is committed is what one-instruction-at-a-time execution commits.
* *Monitor and scoreboard*: a right core passes, a wrong one fails, and one mismatch is
  passed on only to who reads its register.
* *Bench*: every item is done once, every run ends, and something has been checked by then
  (the last is false, see below).
* *Back door*: a call reaches the bits it names and no other, reads what is there, says
  whether it succeeded, and leaves nothing forced that nobody holds.

## 2. The modules

| Module | Models | EXTENDS |
|---|---|---|
| `RiscvTypes` | the package; an instruction word is a record of its fields | Integers |
| `Decode` | control unit, immediate generator, HDU, register file, operand muxes | RiscvTypes |
| `Execute` | ALU, comparator, address generator, forwarding unit and muxes | RiscvTypes |
| `IfStage` | the fetch stage: program counter, buffer, `id_pc_o` | RiscvTypes |
| `FetchUnit` | abstract predictor: remembers the last target of *every* address | - |
| `Core` | `core_top`: one step per clock edge, asynchronous reset | IfStage, Decode, Execute |
| `ExpectedArith` | the scoreboard's arithmetic, written apart from the ALU's | Execute |
| `ReferenceModel` | the scoreboard as an abstract specification of the core: one instruction at a time over the register mirror | Decode, ExpectedArith |
| `CoreTrace` | Core with the address of what each stage holds | Core |
| `CoreCommits` | the history goes on with branches that redirect, through the stages their bubbles take; `NothingInTheWay`, `HazardFree`; the refinement mapping to `ReferenceModel` | CoreTrace |
| `Units` | the ALU, comparator and decoder driven by a bench | Decode, ExpectedArith |
| `LoadStore` | `lsu.sv` over byte lanes, in front of a memory with byte enables | Integers |
| `Monitor` | the monitor's decoder and immediates | Decode |
| `Scoreboard` | monitor and scoreboard behind any core, right or wrong: counters, mirror, mismatch path, verdict | Monitor, ExpectedArith |
| `Bench` | driver, sequence, test, monitor, clock and reset as processes | Integers |
| `HdlSim` | what the back door stands on: paths, objects, values in chunks | Integers |
| `HdlQuesta`, `HdlXcelium`, `HdlVcs` | the three C backends, function by function; VCS is three builds | HdlSim |
| `HdlBackdoor` | one of the backends compiled in, calls in any order, timed forces, the design's own writes | HdlSim, instances of the three |
| `MC*` | instances for TLC; `MCAsm` is their assembler, `MCPayloads` the programs of `sim/*.mem` | |
| `*Proofs` | the theorems | their module, TLAPS |

State and code. `pc_if`, `btb`, `id_pc` are the registers of `if_stage`; `if_id`,
`id_ex`, `ex_mem`, `mem_wb`, `rf` those of `pr/*` and `id/rf`. A wire of `core_top` is an
operator over them with the wire's own name (`hdu_stall`, `ex_mispredict`,
`target_addr_ex`, `wb_data_out`, ...). One step `Clock` is a rising edge: every register takes
the value of its inputs in the *current* state, so each register has one operator
(`PrIfId`, `PrIdEx`, ..., `RfUpdate`) and `Clock` is their conjunction. `Reset` is the asynchronous
reset, possible in every state. `Tick` chooses what the data memory answers.

Connections are those of `core_top`, not those the stages' names suggest: `stall_i` of
`pr_id_ex` and `flush_i`/`stall_i` of the later registers are tied to 0, the forwarding
unit compares decode's source fields, the address generator reads EX's address and
operand B, the comparator is fixed to `BC_BEQ`, `wb_sel_i` to `WB_ALU`, the LSU to
`LSU_WORD`, and the store strobe comes from decode.

In `Scoreboard` the core is a ghost: the registers it has written (`dut`) and whether it ever
wrote a wrong word (`erred`), the right word being the scoreboard's own evaluation over the
core's registers with the core's own immediate (`imm_gen`). `Bench` gives every process a
program counter variable (`driver`, `monitor`, `sequence`, `runner`); a process that can run runs before time
passes (`Ready`), as a simulator schedules, and time is the next event of `core_tb`. In
`Hdl*` a backend's function is an operator from the object, the path and the caller's value
to an answer: result, object, value, the static flag, whether the simulation was ended.
A DPI call takes no simulation time, so it is one step of `HdlBackdoor`; each call of
a backend is the *set* of its possible answers, more than one where C leaves it to
chance (a variable read before it is assigned, a function that ends without a
return, memory read after it was freed).

Definitions named for a fault (`PrIfIdNoFlush`, `BtbHitUntagged`, `AguUnaligned`, ...) are not
used by the models. Each is a plausible wrong version of the definition that follows
it, kept to show that the property named with it in `PROJECT.json` notices the difference.

### Abstractions

* `DATA_WIDTH` is a parameter (32 in the code). An instruction stays a record of its
  fields whatever the width; register numbers and the memory's index shrink with it
  (`NUM_REGISTERS` is the width rounded up to a power of two, as in the package). U-type immediates are shifted by
  12 and vanish at widths up to 12; the theorems are for every width.
* Opcodes the package does not name are one value, `OP_OTHER`: every unit falls into its
  default case on them.
* The instruction memory is a constant function addressed as `imem.sv` addresses its
  array. Its index has log2(DATA_WIDTH) bits, so only 32 of its 1024 words are reachable
  and programs wrap around; the model keeps this.
* The data memory is external: it answers any word of `DmemData` at each cycle.
* Left out: the ROM and `id_instr_o` inside `if_stage` (unconnected in `core_top`), the HDU's
  `pc_write_o` and `if_id_write_o` (negations of `stall_o`, unconnected), the ALU flags in the
  core (unconnected there, modelled in `Units`).
* A transaction's `pc` and `wb_data`, which the monitor never assigns, take every value of
  small sets; a load's word is taken as given, by the scoreboard as by the model.
* Items carry nothing: nobody drives them. Counts of 5,000 to 15,000 are 1 to 5.
* The back door's chunk is `CHUNK` bits (32) and a value `MAX_CHUNKS` of them (32, for
  `UVM_HDL_MAX_WIDTH` = 1024). One object is in view, and a path names it, a bit, a range or
  nothing. The simulators are external and assumed to do what the C code relies on: a deposit
  leaves forced bits alone, a released variable keeps its value, and under VCSMX a
  string shorter than the object is a number.

## 3. What the runs show

| Run | Question | Instance |
|---|---|---|
| `MCCore` | decode holds what was fetched and both copies of its address agree; the buffer predicts only control flow; every stage's register belongs to one instruction; the stream breaks only at control flow; no odd address; x0; redirects never back to back; how long a stall lasts, and that it ends | W = 4, all programs of four instructions out of a list of ten and a list of eight, 538,711 states |
| `MCCoreCommits` | as long as no instruction is in another's way the pipeline *implements* the scoreboard's model (refinement): branches and jumps that go ahead, back, to themselves or to the middle of a word, predictions right and wrong, loads; and on straight-line programs whose words `HazardFree` accepts nothing ever is in the way | W = 5, 8 registers, buffer of 2, 3,208 hazard-free programs and those that turn, 1,595,284 states |
| `MCUnits` | the parts of the core, each on its own: overflow, comparisons, logic bit by bit, and ALU against scoreboard; stored at the base reads back, and no byte outside the unit changes; the fetch stage implements `FetchUnit`: a hit is always the last target of exactly that address | W = 4, all operands; two byte values, one negative; buffer of 2; 141,416 states |
| `MCTestbench` | the active half: driver and sequence in step, one item per edge, every item and every run ends; the passive half: the mirror is the core's register file but for spoiled registers; who is misjudged after a mismatch; the verdict; the monitor's immediates against the core's | every test, the delays of the code in clock edges, 1 to 5 items, active and passive agent; W = 16, every sequence of up to four of 17 instructions, right or wrong; 121,789 states |
| `MCHdl` | the back door: calls stay in their bits, write and read what they say, agree with the path check, leave nothing forced unaccounted for; timed forces let go and end | chunks of 2 bits, values of 4; objects of 1, 3, 4 and 5 bits in either language, 5 builds with Questa's buffers of 5 and 4 elements, two overlapping tasks, 30,879 states |

The bounds. The interesting distance between two instructions is at most four stages, so
a program of four words that wraps around puts every instruction of the list in front
of every other at every distance. Two buffer entries are enough for two branches to
share an entry and for two not to. Two answers of the data memory, an even and an odd
one of different sign, are enough because its words only reach data (and one at width 5, where what a load brings is never
written: `wb_sel_i` is tied to the ALU). The list of
`MCCore` has one instruction of every kind that drives a different control signal, a
write to x0, an odd constant, and a load that overwrites its own source; the second list
has loads and stores of both registers and no load that stalls itself for ever.
`MCTestbench`: four instructions are a mismatch, a reader it spoils, a write that repairs it
and a reader after that; the words have forward and backward constants in every
format; lengths of items are below, at and above the delay of reset; items do not differ,
and what happens to one happens at one edge, so more of them repeat the same steps.
`MCHdl`: widths below a chunk, of one and a half chunks, of two and above the value;
ranges both ways round, of bits that exist and that do not; the properties look at every
call on every path with every sample value in every reachable state, so the calls
that only change the object in ways other calls do are made with one value.
`MCUnits` and `MCTestbench` put parts side by side that do not interact: a behaviour drives one of them
from one of its initial states and lets the others rest, so the states add up and do not multiply. The two
halves of the bench would meet in the monitor's analysis port, through which nothing comes (`SilentPass`).

Deadlock is checked where the clock can always tick or a port can always be driven; the test bench and the
back door have runs that end (`report_phase`, the dropped objection, `tf_dofinish`), and it is not checked there.

Fairness. `FairTraceSpec` adds weak fairness of the clock edge, nothing else: the
bench's clock (`dv/core_tb.sv`) is a `forever` loop. No fairness is asked of the memory's
answers, and `Reset` may still come at any time, which ends a stall too; the mutant
of `EveryStallEnds` shows that the property does not hold because of it.

`BenchFairness` is weak fairness of each process and of time: a simulator runs every process
that can run, and then advances. `FairSpec` of the back door is weak fairness of the end of
each delay; nothing else has to happen, and the property allows for a backend that ended
the simulation meanwhile.

Two properties describe what is left of a promise that the code does not keep whole.
`OnlyReadersOfSpoiledAreMisjudged` with `VerdictIsExact`: after a mismatch the mirror is
stale, so later messages may be false alarms or hide errors, but the verdict of the
run is right, since nothing is misjudged before the first true mismatch. `ReadsWhatIsThere`
names its exceptions: VHDL objects of more than one chunk come back in the wrong order under
Questa and fast VCSMX, and under VCSMX unless their chunks are full; under Xcelium a read of one
reads its elements after they are freed and frees them again (`uvm_hdl_xcelium.c:527`), so it ends the
simulation or comes back with any bits behind the first chunk; and release and read of a range of
Verilog bits is left out (section 4).

Before time starts, `build_phase` of the monitor and the driver look the virtual interface up and end the
run if it is not there. `core_tb.sv:74` publishes a `virtual core_if`; they ask for a `virtual core_if.monitor`
and a `virtual core_if.driver`. Whether that finds anything depends on whether the simulator takes a modport
for a type of its own, so `BuildPhase` goes either way, and `EveryRunEnds` allows for a run that is not started.

`EveryStallEnds` has a precondition, `NoSelfLoad`: no load overwrites a register it
names. Without it the property is false, see `LoadUseStall`.

`NothingInTheWay` is asked of a run, of what is in flight. It says that no operand is written by any of
the three instructions ahead (reads precede writes in decode, and the forwarding unit does not
look at EX's own sources), and that the forwarding unit, looking at the instruction behind,
finds nothing to replace. Nobody right behind a load names its register, read or not: who does
stalls and is issued twice. Only arithmetic is asked what it reads: what a load, store or
branch reads the scoreboard does not check. Of a load it takes the word that was
written as right (`core_scoreboard.sv:127`), so the refinement says of loads that they write once,
in order and to their register, not what word they write. A branch or jump may go anywhere; what the
refinement says of it is that nothing behind it that its flush should have stopped is committed
and that nothing else breaks the order: after any other instruction comes the word behind it, the reference model
taking any address after a branch or jump, as the scoreboard does. Excluded are jumps that
should write a link and `slt`/`sltu`, which the core does not do as the scoreboard expects (section 4).

`ClearSpec` stops where something is in the way, so the refinement is for every run up to
there, of every program. `HazardFree` is a condition on the words of a program alone: a straight-line program it
accepts never meets that end (`HazardFreeKeepsClearAlways`), so its runs refine the reference
model with nothing asked of them. That programs of this kind exist, with values
flowing from one instruction to the next, is what the instance of width 5 is for: `addi`, `sub`,
`srai`, `auipc` and, in a list of its own, `lw` pass values on. In the programs that turn, the
instruction ahead of a branch decides where it goes (the target is made from its address and
operand), so a `nop`, an addition and a subtraction give the three kinds of targets; two buffer entries
make them collide.

## 4. Where code and documents disagree

Each has a run with the counterexample, on the repository's own payloads where there is one
(words of 16 bits, so that their constants fit).

| Run | What is said | What the code does |
|---|---|---|
| `RawHazard` | `sim/hazard_raw.mem:4`: x4 = 20 | forwarding compares the source fields of decode, `core_top.sv:194-195`, and steers the operands of EX; x4 = 0 |
| `LoadUseStall` | `sim/hazard_load.mem:4`: "stall 1 cycle" | `pr_id_ex` does not stall or bubble (`core_top.sv:167`): a load that overwrites its source stalls its own copy for ever |
| `StoreStrobe` | `cu.sv:91` | the write strobe is decode's (`core_top.sv:239`), two cycles ahead of address and data |
| `BranchTarget` | `sim/hazard_control.mem:5`: "branch to PC + 8" | the target is made from the address and operand of the instruction ahead (`core_top.sv:199-200`) |
| `JumpLink` | `core_scoreboard.sv:132`: a jump writes `tx.pc + 4`; `cu.sv:111-113` raises `reg_we_o` | a jump redirects from decode and its own flush squashes it (`core_top.sv:98, 168`): no link is ever written |
| `SilentPass` | `test_hazards.sv:7`: "validates that structural stalls and bypasses clear cleanly"; `core_scoreboard.sv:144`: "Perform Self-Checking Functional Verification" | `drive_transaction` drives nothing and `imem_valid` is never raised (`mem_driver.sv:50-65`): every test that runs to its end passes with no instruction checked |
| `BranchImmediate` | `mem_monitor.sv:80`: "Reconstruct the sign-extended immediate value" | the concatenations of branches and `jal` leave `instr[31]` out (`mem_monitor.sv:109-124` against `imm_gen.sv:41, 58`): a backward offset is positive. Theorem `BackwardOffsetsLoseTheirSign` says by how much |

Further disagreements seen while translating, which have no run of their own:

* a prediction wins over the stall and the fetched instruction is lost (`if_stage.sv:81-86`
  against `if_stage.sv:26`: "Freeze PC (e.g., hazard)"); `StreamBreaksOnlyAtControlFlow` bounds what is lost;
* `2'(8)` is 0 (`lsu.sv:31-34`), so nothing is ever shifted to or from its lane (against `README.md:34`);
  `StoredAtBaseReadsBack` is what is left, and `NothingIsShifted` in `UnitsProofs` is the fact;
* release and read of a range of a Verilog vector reports failure under Xcelium and reads one bit under
  Questa (`uvm_hdl_xcelium.c:639`, `uvm_hdl_questa.c:952` against `uvm_hdl.svh:104-107`), because the
  release has written its last bit's name over the path. No property says so: the models have it, and
  `ReadsWhatIsThere` asks nothing of these calls;
* a write to an object wider than `UVM_HDL_MAX_WIDTH` is not refused (`uvm_hdl_questa.c:772`), though a
  read of it is; a read of a *range* wider than a value is not refused either under Questa and Xcelium,
  goes on behind the value bit by bit and reports success (`uvm_hdl_questa.c:676`,
  `uvm_hdl_xcelium.c:143`). The proof of `CheckedPathsAnswer` found that: the instance's
  ranges had all been narrower than a value;
* a load writes its address, `wb_sel_i` being tied to `WB_ALU` (`core_top.sv:279` against `README.md:37`);
* a branch predicted taken that is not taken raises no correction, and entries are never
  dropped (`core_top.sv:98` against `if_stage.sv:30`);
* the stalled instruction enters EX in the stall cycle and is issued again (`hdu.sv:32`);
* `slt` and `sltu` write all ones (`alu.sv:81` against `core_scoreboard.sv:78`); the run `MCUnits` states
  what they do agree on;
* every branch is compared as `beq`; the ALU's branch operation is unused;
* most hexadecimal words of `sim/*.mem` are not the encoding of their comment, so the
  instances assemble the comments.

## 5. What is proved

Assumptions, all named, are about parameters only: `DataWidthAssumption` (the width is a positive
number), `BtbDepthAssumption`, `ProgramsAssumption` (programs are functions from the memory's
addresses to instructions) and `DmemDataAssumption`. No bound is assumed on any of them. `AddressAssumption`,
a width of at least four, is used for `HazardFree` alone: an address then has bits for all words of the program,
which comes round where the program counter does (`ProgramDividesAddresses`).
For the bench: `FormatAssumption` (register fields are five bits, so a width of at most 32),
`ScoreboardAssumption` (the sets are of instructions and words) and `BenchAssumption` (lengths are
positive, and the edge counter is not capped below what a run takes); for the LSU `BytesAssumption`. For the back door: `ChunkAssumption` (chunks of at least one bit, values of at
least one chunk) and `BackdoorAssumption` (names are paths, those of timed forces among them;
what is passed in are values of the right length; objects are at least one bit wide; Questa's
`vector_val` is no longer than its `reduced_vector` and the terminating zero, 128 and 256 in the code). Nothing is
assumed of the number of tasks, or of the order of their calls.

| Theorem | For every width, depth, program and memory |
|---|---|
| `IfStageTypeCorrect` | the registers of fetch keep their types |
| `IfStageImplementsFetchUnit` | the direct-mapped buffer implements the predictor that remembers every address |
| `CoreTypeCorrect` | every register of the pipeline keeps its type |
| `DecodeHoldsWhatWasFetchedAlways` | decode's word is the one at its address, or a bubble, and both copies of the address agree |
| `BtbPredictsOnlyControlFlowAlways` | valid entries belong to branches and jumps of the program |
| `AddressesHalfwordAlignedAlways` | no odd address anywhere |
| `X0ReadsZeroAlways` | x0 stays zero and is never forwarded over |
| `RedirectsNeverBackToBackAlways` | no redirect in the cycle after a redirect |
| `StallOutlastsCycleOnlyOnOwnSourceAlways` | exactly when a stall outlasts a cycle |
| `SlotsNameWhatStagesHoldAlways` | the history names what decode and EX hold |
| `WritesBelongToTheirInstructionAlways` | destinations and enables stay with their instruction |
| `StreamBreaksOnlyAtControlFlowAlways` | among plain instructions decode is at EX's word or the next |
| `CommitsAsReferenceAlways` | as long as nothing is in the way the pipeline implements the scoreboard's model, on every program: branches, jumps, predictions and flushes included |
| `HazardFreeKeepsClearAlways` | on a straight-line program that `HazardFree` accepts nothing is ever in the way |
| `HazardFreeCommitsAsReference` | so the pipeline implements the scoreboard's model on those, with nothing asked of the run |
| `OverflowIsExactAlways` | the overflow flag is raised exactly when the signed result is no word |
| `BranchesAgreeWithSubtractionAlways` | comparator and flags of the subtraction agree |
| `LogicIsBitwiseAlways` | every bit of AND, OR and XOR is what the operator makes of the operands' bits |
| `AluAgreesWithScoreboardAlways` | ALU and scoreboard compute the same, but for what a true comparison sets |

| Theorem | For every instruction set, word width up to 32 and length |
|---|---|
| `ScoreboardTypeCorrect` | types, and nothing counted twice |
| `MirrorFollowsTheCoreAlways` | the mirror is the core's register file but for spoiled registers |
| `OnlyReadersOfSpoiledAreMisjudgedAlways` | whoever reads no spoiled register is judged rightly |
| `VerdictIsExactAlways` | passed means no wrong word, failed means one |
| `ImmediatesAsTheCoreAlways` | the monitor's immediate is the core's, but for branches, `jal` and R-type |
| `BackwardOffsetsLoseTheirSign` | that of a backward branch or `jal` is the core's without its top bit |

| Theorem | For every test, delay, length and set of bytes |
|---|---|
| `BenchTypeCorrect` | every process is where it can be |
| `HandshakeInStepAlways` | driver and sequence agree on who holds the item |
| `OneItemPerEdgeAlways` | from reset to the end of a random run every edge finishes one item |
| `StoredAtBaseReadsBackAlways` | what is stored at the base reads back |
| `StoresStayInTheirUnitAlways` | a store changes no byte outside its unit |

| Theorem | For every backend, width of object, chunk and value, set of paths and values, and any tasks |
|---|---|
| `HdlTypeOKAlways` | every variable and every answer has its type |
| `CallsStayInTheirBitsAlways` | no call changes a bit its path does not name |
| `ForcesAccountedForAlways` | what is forced was forced by a call that succeeded or left by one that failed half way |
| `ForceTimeLetsGoAlways` | when a timed force ends, none of its bits stays forced |
| `CheckedPathsAnswerAlways` | path check and calls agree, but for the exceptions named; only Xcelium's reads of VHDL wider than a chunk may die |
| `WritesWhatWasAskedAlways` | a write that reports success has put the value's bits on the path's, in order |
| `ReadsWhatIsThereAlways` | a read that reports success has the path's bits, in order, whatever an earlier call left; so has the read after a release |

The argument. `ExecuteProofs` begins with powers of two, of which the provers know little more than that they are integers: 2^n is the number
of sets of n numbers (`PowerCountsSets`, from the library's theorem on power sets), so it is a positive
number and doubles with n, and every width, size and bit weight of the package follows
(`PowersArePositive`, `PowerDoubles`, `PowerDivides`, `PowerValues`). Where a proof goes on from n to n + 1 it
takes the numbers that have the property as a set and looks at the least one missing (`Induction`, from `LeastNumber`,
which the library's well-foundedness of < gives): set variables stand in for the operator parameters
of its induction theorems. `WordOfBits` is proved so, one bit after the other: the word counted for a set of
bits has exactly those. Next come the facts about words (what `ToData` returns, that sums
and alignments stay in range) and a type lemma for every unit, so
that the type invariant of `Core` reduces to the shape of its registers. `IfStage` is
proved once and used again in `Core`, whose clock edge is an instance of
`IfStageClock`.

Inductive invariants, and why each is needed:

* `DecodeInv`. That the buffer predicts only control flow is not inductive: it is
  written from `id_pc`, the branch decided from `if_id`. It needs the agreement of the two
  copies, and a bubble that is neither a branch nor a jump.
* `AlignedInv`. A target is made even by the address generator, but `pc + 4` is even only if the
  program counter already is, and 2^W must be even for the wrap-around.
* `ZeroInv`. The operand of x0 is not replaced because the forwarding unit refuses address 0; that its
  register is zero needs the write port's guard.
* `TraceInv`. The write enables of MEM and WB are those of the instruction two and three cycles
  older; the invariant carries the claim through every stage at once, with decode's slot
  at the young end, and that a jump's redirect empties its own slot.

* `StreamInv`. A break of the stream enters at fetch, one cycle before decode shows it, with a
  redirect or a hit in the buffer: the invariant has where fetch can be from decode's slot
  (`FetchFollowsDecode`), and `DecodeInv` says whose the buffer's entries are.
* `ScoreboardInv`. The verdict is not inductive: it needs that before the first mismatch no
  register is spoiled, so that every instruction is judged rightly (`ExpectedAgrees`), and
  that a first mismatch is therefore an error of the core. `ImmediatesAgree` is what makes
  the judgement right: the only immediates that differ are of instructions that write nothing or
  whose word does not depend on them.
* `ClearInv`. Refinement: a commit is a step of the reference model, so is a redirected branch or jump
  leaving the pipeline, and every other edge is a stutter. That the word written back is the reference's,
  over the registers as they are *when it is written*,
  needs two parts about data: EX's operands (`OperandsCurrent`) and the results in MEM and WB
  (`ResultsCurrent`) are those the present register file gives, though they were computed over
  an earlier one. They survive a commit only if the register written is none that a younger
  instruction in flight has read, which is kept of every pair in flight (`ReadPast`) since
  `NothingInTheWay` admitted the younger one. `InOrder` says that what is in flight, turns included,
  are successive instructions: each is the word behind the one before, or that one is a branch
  or jump. It needs that nothing stalls, that every valid entry of the buffer belongs to a branch or jump
  (`DecodeInv`), and that what a redirect squashed writes nothing on its way out (`TurnsSquashed`). x0 stays
  zero because an operand of x0 is not covered by the distances.
* `StraightInv`. That a straight-line program keeps clear: nothing turns, so the buffer is never
  trained and has no valid entry, and what is in flight are successive words (`Consecutive`), so
  distances in the pipeline are distances in the program. Half of the proof is that a condition on
  indices of the program modulo its length says what is needed of addresses that wrap (`NthBefore`).
* `BenchInv`. The handshake needs that the sequence waits exactly while the
  driver works, and whose turn it is in between. `OneItemPerEdge` counts edges
  and items and follows from the same invariant: it is about the items done at each stage of the handover.
* `HdlInv`. That forces are accounted for is not inductive by itself: a timed force ends by a
  release, and what the release reaches depends on its path being one the backend serves. The
  invariant has that of every timer running (`TimersServed`), with the shape of the object
  (`StateOK`).

Three kinds of lemma carry the back door. *What a call does*, one lemma per backend (`Outcome`): every
answer is a deposit, a force or a release on bits the path asks for, checks and reads change nothing,
and the result says whether the path was served; the five state properties follow from it
without looking at a backend again. *What a write puts there* (`Placed`): a range walked bit by bit, upwards or
downwards, stopping at the first bit that fails, and values turned into strings of digits
or into chunks put value bit i on the i-th bit from the right. No induction over the walk is needed: the model
says how far it gets (`Reached`), and that this is a run of bits from one end of the range is a lemma.
*What a read gives back* (`ReadsOf`): the same the other way, with what was in the caller's buffer before.

Only model-checked: liveness (`EveryStallEnds`, `EveryItemFinishes`, `EveryRunEnds`, `EveryForceTimeEnds`),
which is out of the provers' reach. Every other property of a run that passes is proved.
`SlotsNameWhatStagesHold`, which is about the history variables and carries the theorems about the core, is proved
and not run.

## 6. Not modelled, and the plan

Not modelled, and why:

* the simulator scripts (no state; the regression compiles with `+define+UVM_NO_DPI`,
  `sim/run_regression.sh:36`, so it does not build the back door either) and UVM itself (third-party);
* of its C layer: regular expressions, command-line arguments and reports (`uvm_regex.cc`,
  `uvm_svcmd_dpi.c`, `uvm_common.c`), which convert text and call the C library;
  `uvm_hdl_read_string` and `uvm_memory_load` (VCSMX only, strings and files); helpers nothing
  calls (`uvm_hdl_btoi`, `string2vhdl_*`, `vhdl_array_of_int2string`, the fast build's `uvm_hdl_get_mhdl`);
* in the back door: writes of more bits than a value has, and, outside VCS, reads of VHDL objects
  and ranges of that many (undefined: they go on behind the value); selects of VHDL outside Questa or out of
  range; under Questa, writes to selects of VHDL arrays of 128 elements or more and reads of VHDL ranges of more than
  256, which overrun `vector_val[128]` and `reduced_vector[256]` on the stack (`uvm_hdl_questa.c:543, 423`; `WriteFitsBuffers`,
  `ReadFitsBuffers`), and names longer than its `path_str[80]`; VHDL integers and metavalues other than 0, 1, x, z; arrays not (n - 1 downto 0); object types
  VCS refuses (`check_type`); the memset of `uvm_hdl_vcs.c:402` is exact for fewer than eight chunks or a
  multiple of eight; the simulator is assumed to hand C a copy of the path;
* randomisation of items, whose fields nobody drives, and the pins that only `reset_signals` drives.

The order followed: types, decode, execute, fetch, core, history, reference model, units and
LSU; then the back door, monitor and scoreboard, the bench; then control flow in the refinement. What is left, most important first:

1. *Bench and core composed*: were `drive_transaction` to drive its item, what of the core the
   monitor's transaction should carry (`pc`, `wb_data`), and in which cycle.
2. *Register files that differ*: `MirrorFollowsTheCore` for the core of `Core` itself, as long as
   nothing is in the way, from `CommitsAsReferenceAlways` and the theorems about the scoreboard.
3. *Where branches go*: the scoreboard has no program counter, so the refinement takes any target. A reference model
   with one would say on which programs a target is the program's own (`BranchTarget` shows one where it is not).
