---------------------------- MODULE MCCoreCommits ----------------------------
(***************************************************************************)
(* The core against the reference model on words of 5 bits, so eight       *)
(* registers and eight instructions: enough for values to flow from one    *)
(* instruction to another without a hazard. Programs differ by where their *)
(* first addition is; the others are those turned round. They are all the  *)
(* hazard-free ones of two lists, and programs that turn.                  *)
(***************************************************************************)
EXTENDS CoreCommits, MCAsm, FiniteSets

Addresses == 0 .. NUM_REGISTERS - 1
From(list) == { program \in [Addresses -> list] : program[0] = addi(1, 1, 7) }

Straight == { nop, addi(1, 1, 7), sub(2, 5, 1), srai(5, 2, 1), auipc(4) }

\* The addition names the loaded register in a field it does not read.
Loading == { nop, addi(1, 1, 7), sub(2, 3, 1), lw(3, 2, 2), auipc(4) }

HazardFreeOf(list) == { program \in From(list) : HazardFree(program) }
HazardFreePrograms == HazardFreeOf(Straight) \cup HazardFreeOf(Loading)

\* Where a redirect goes is decided by the instruction ahead of it: back to
\* itself after a nop, two bytes on after the addition, anywhere after the
\* subtraction.
Turning == { nop, addi(1, 1, 7), sub(2, 5, 1), beq(6, 7, 0), jal(0) }

Turns(program, plain) == Cardinality({ k \in Addresses : program[k] \notin plain })

TurningPrograms ==
  { program \in From(Turning) :
      /\ Turns(program, {nop, sub(2, 5, 1), addi(1, 1, 7)}) \in 1 .. 3
      /\ Turns(program, {nop, sub(2, 5, 1), beq(6, 7, 0), jal(0)}) = 1 }

CommittingPrograms == TurningPrograms \cup HazardFreePrograms
=============================================================================
