------------------------------ MODULE LoadStore ------------------------------
(***************************************************************************)
(* The load-store unit (rtl/mem/lsu/lsu.sv) in front of one word of a      *)
(* memory that honours its byte enables. A word is a function of its byte  *)
(* lanes; a shift moves whole lanes, because the unit only shifts by       *)
(* multiples of byte_val.                                                  *)
(*                                                                         *)
(* core_top ties the unit to LSU_WORD and leaves mem_be_o and mem_wdata_o  *)
(* unconnected, so in Core.tla it passes words through; here all its       *)
(* operations are driven. The memory is external: no module of rtl/ holds  *)
(* data.                                                                   *)
(***************************************************************************)
EXTENDS Integers

CONSTANT Bytes   \* the byte values stores may carry

ASSUME BytesAssumption == Bytes \subseteq 0 .. 255 /\ Bytes # {}

BYTES_PER_WORD == 4
OFFSET_WIDTH   == 2

Lanes   == 0 .. BYTES_PER_WORD - 1
Offsets == 0 .. 2^OFFSET_WIDTH - 1
Word    == [Lanes -> Bytes]

ByteOps == {"LSU_BYTE", "LSU_BYTE_U"}
HalfOps == {"LSU_HALF", "LSU_HALF_U"}
LsuOps  == ByteOps \cup HalfOps \cup {"LSU_WORD"}

VARIABLES
  mem,      \* the word of memory
  stored    \* history: the last store, or none yet

lsuVars == <<mem, stored>>

NoStore == [op |-> "none"]

Size(op) == CASE op \in ByteOps -> 1 [] op \in HalfOps -> 2 [] op = "LSU_WORD" -> 4

\* byte_offset with the mask of the operation: & 3, & 2 or & 0.
LaneOffset(op, offset) == offset - (offset % Size(op))

\* The constant 8 in the OFFSET_WIDTH bits of byte_val: no bit of it is left.
byte_val == 8 % 2^OFFSET_WIDTH

\* A shift amount has OFFSET_WIDTH bits as well. Eight bits are a lane.
ShiftLanes(offset) == ((byte_val * offset) % 2^OFFSET_WIDTH) \div 8

ShiftUp(word, n)   == [l \in Lanes |-> IF l - n \in Lanes THEN word[l - n] ELSE 0]
ShiftDown(word, n) == [l \in Lanes |-> IF l + n \in Lanes THEN word[l + n] ELSE 0]

\* The half-word's lanes counted from the address as it is.
BeHalfUnaligned(op, offset) ==
  LET first == IF op = "LSU_WORD" THEN 0 ELSE offset
  IN  {l \in Lanes : first <= l /\ l < first + Size(op)}

mem_be_o(op, offset) ==
  {l \in Lanes : LaneOffset(op, offset) <= l /\ l < LaneOffset(op, offset) + Size(op)}

mem_wdata_o(op, offset, wdata) == ShiftUp(wdata, ShiftLanes(LaneOffset(op, offset)))

\* The lanes above an operand of n bytes take its sign, or zero.
Extend(word, n, signed) ==
  LET fill == IF signed /\ word[n - 1] >= 128 THEN 255 ELSE 0
  IN  [l \in Lanes |-> IF l < n THEN word[l] ELSE fill]

\* A half-word extended with the sign of its low byte.
RdataHalfSignOfLowByte(op, offset, mem_rdata) ==
  LET shifted == ShiftDown(mem_rdata, ShiftLanes(offset))
      fill    == IF op \in {"LSU_BYTE", "LSU_HALF"} /\ shifted[0] >= 128 THEN 255 ELSE 0
  IN  [l \in Lanes |-> IF l < Size(op) THEN shifted[l] ELSE fill]

lsu_rdata_o(op, offset, mem_rdata) ==
  Extend(ShiftDown(mem_rdata, ShiftLanes(offset)), Size(op),
         op \in {"LSU_BYTE", "LSU_HALF"})

-----------------------------------------------------------------------------

LoadStoreInit == mem \in Word /\ stored = NoStore

\* A cycle with mem_write_i. A load changes nothing here: what it would return
\* is lsu_rdata_o of the word.
StoreAccess(op, offset, wdata) ==
  /\ mem' = [l \in Lanes |-> IF l \in mem_be_o(op, offset)
                             THEN mem_wdata_o(op, offset, wdata)[l] ELSE mem[l]]
  /\ stored' = [op |-> op, offset |-> offset, wdata |-> wdata]

LoadStoreNext ==
  \E op \in LsuOps, offset \in Offsets, wdata \in Word : StoreAccess(op, offset, wdata)

LoadStoreSpec == LoadStoreInit /\ [][LoadStoreNext]_lsuVars

-----------------------------------------------------------------------------

\* What a load of the same kind from the same place should return.
ReadsBack(access) ==
  lsu_rdata_o(access.op, access.offset, mem)
    = Extend(access.wdata, Size(access.op), access.op \in {"LSU_BYTE", "LSU_HALF"})

\* What was stored at the base of the word comes back from there, cut to its
\* size and extended as the load says, misaligned half-words and words being
\* taken down to their boundary by store and load alike (lsu.sv 39-95).
StoredAtBaseReadsBack ==
  stored # NoStore /\ LaneOffset(stored.op, stored.offset) = 0 => ReadsBack(stored)

\* A store changes no byte outside the naturally aligned byte, half-word or
\* word that holds the addressed byte (lsu.sv 45-58).
StoresStayInTheirUnit ==
  [][\A l \in Lanes :
       mem'[l] # mem[l] => l \div Size(stored'.op) = stored'.offset \div Size(stored'.op)]_lsuVars
=============================================================================
