------------------------------- MODULE MCCore -------------------------------
(***************************************************************************)
(* The core and its history, on words of 4 bits: four registers and a      *)
(* memory of four instructions, which is all that rtl/if/imem/imem.sv      *)
(* addresses at this width, so that every instruction meets every other at *)
(* every distance.                                                         *)
(***************************************************************************)
EXTENDS CoreTrace, MCAsm

\* The load of register 2 overwrites its own source: the stall that never ends.
Mixed ==
  { nop, addi(1, 1, 3), addi(0, 1, 3), lw(2, 2, 0), auipc(2),
    lw(1, 2, 0), sw(2, 1, 0), beq(1, 2, 0), jal(1), jalr(2, 1) }

\* Loads and stores of both registers, a branch that moves forward.
InFlight ==
  { nop, addi(1, 1, 3), lw(1, 2, 0), lw(2, 1, 0), sw(2, 1, 1), beq(1, 2, 2),
    jal(1), jalr(2, 1) }

MixedPrograms ==
  LET Addresses == 0 .. NUM_REGISTERS - 1
  IN  [Addresses -> Mixed] \cup [Addresses -> InFlight]
=============================================================================
