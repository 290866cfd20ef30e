----------------------------- MODULE RiscvTypes -----------------------------
(***************************************************************************)
(* The package every RTL module imports (rtl/common/riscv_types_pkg.sv):   *)
(* word width, register addresses, the fields of an instruction word and   *)
(* the two's-complement reading of a word.                                 *)
(*                                                                         *)
(* An enum of the package is the string of its name; funct3 and funct7     *)
(* keep their numeric codes because the immediates are built from them.    *)
(***************************************************************************)
EXTENDS Integers

CONSTANT DATA_WIDTH   \* bits of a word (32 in the package)

ASSUME DataWidthAssumption == DATA_WIDTH \in Nat \ {0}

clog2(n) == CHOOSE k \in 0..n :
              /\ 2^k >= n
              /\ \A j \in 0..n : 2^j >= n => k <= j

DATA_WIDTH_BITS == clog2(DATA_WIDTH)
NUM_REGISTERS   == 2^DATA_WIDTH_BITS
HalfRange       == 2^(DATA_WIDTH - 1)   \* weight of the sign bit
DataSize        == 2 * HalfRange        \* number of words

Data     == 0 .. DataSize - 1           \* data_t
RegAddr  == 0 .. NUM_REGISTERS - 1      \* address_t
REG_ZERO == 0

\* Truncation of an integer to a word, and $signed of a word.
ToData(n) == n % DataSize
Signed(x) == IF x >= HalfRange THEN x - DataSize ELSE x

-----------------------------------------------------------------------------
(* Instruction words, one record field per field of the encoding. Every     *)
(* opcode the package does not name is one value, OP_OTHER: no module tells  *)
(* two of them apart.                                                       *)

Opcodes == {"OP_R_TYPE", "OP_I_TYPE", "OP_LOAD", "OP_STORE", "OP_BRANCH",
            "OP_JAL", "OP_JALR", "OP_LUI", "OP_AUIPC", "OP_OTHER"}

F3_ADD_SUB == 0
F3_SLL     == 1
F3_SLT     == 2
F3_SLTU    == 3
F3_XOR     == 4
F3_SRL_SRA == 5
F3_OR      == 6
F3_AND     == 7

F7_BASE    == 0
F7_VARIANT == 32

Instr == [opcode : Opcodes, rd : RegAddr, funct3 : 0..7,
          rs1 : RegAddr, rs2 : RegAddr, funct7 : 0..127]

AluCtrl == {"ALU_ADD", "ALU_SUB", "ALU_AND", "ALU_OR", "ALU_XOR", "ALU_SLL",
            "ALU_SRL", "ALU_SRA", "ALU_SLT", "ALU_SLTU", "ALU_COPY_B"}

\* The all-zero word that reset and flush leave in pr_if_id; its opcode is
\* none of the package's.
ZeroInstr == [opcode |-> "OP_OTHER", rd |-> 0, funct3 |-> 0,
              rs1 |-> 0, rs2 |-> 0, funct7 |-> 0]
=============================================================================
