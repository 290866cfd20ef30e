------------------------------- MODULE HdlSim ------------------------------
(***************************************************************************)
(* What the C layer of the UVM register back door (dv/uvm/.../src/dpi)     *)
(* stands on: the simulator's object database, reached by name, and the    *)
(* vector s_vpi_vecval in which four-state values cross between            *)
(* SystemVerilog and C. The simulator itself is external: it is modelled   *)
(* by what the backends rely on.                                           *)
(*                                                                         *)
(* One object of the design is in view: a variable of some width, in       *)
(* Verilog or VHDL. A path names it, a bit of it, or a range of it, or     *)
(* names nothing.                                                          *)
(***************************************************************************)
EXTENDS Integers, FiniteSets

CONSTANTS
  CHUNK,        \* bits of one s_vpi_vecval: 32 in the code
  MAX_CHUNKS    \* chunks of a uvm_hdl_data_t: UVM_HDL_MAX_WIDTH / 32

ASSUME ChunkAssumption ==
  /\ CHUNK \in Nat \ {0}
  /\ MAX_CHUNKS \in Nat \ {0}

MAX_WIDTH == CHUNK * MAX_CHUNKS

\* aval + 2 * bval: the encoding of svLogic.
Logic == 0 .. 3
sv_0  == 0
sv_1  == 1
sv_z  == 2
sv_x  == 3

aval(l)  == l % 2
bval(l)  == l \div 2
Known(l) == l \in {sv_0, sv_1}

Buffer == [0 .. MAX_WIDTH - 1 -> Logic]     \* p_vpi_vecval, bit by bit

\* The chunks that hold n bits, and the first bit behind them.
Chunks(n)   == (n - 1) \div CHUNK + 1
ChunkEnd(n) == Chunks(n) * CHUNK

\* Bits in chunk j of a value of n bits.
BitsInChunk(n, j) == IF n - j * CHUNK < CHUNK THEN n - j * CHUNK ELSE CHUNK

-----------------------------------------------------------------------------
(* Paths: "v", "v[3]" and "v[3:1]"; the name may be of nothing at all.      *)

Path(name, sel, l, r) == [name |-> name, sel |-> sel, l |-> l, r |-> r]

Paths ==
  { p \in [name : {"object", "nothing"}, sel : {"whole", "bit", "range"}, l : Nat, r : Nat] :
      /\ p.sel = "whole" => p.l = 0 /\ p.r = 0
      /\ p.sel = "bit"   => p.l = p.r }

IsSlice(p) == p.sel = "range"

\* The i-th bit of a range, counted from its right end, and how many it has.
SliceWidth(p)  == IF p.l > p.r THEN p.l - p.r + 1 ELSE p.r - p.l + 1
SliceBit(p, i) == IF p.l > p.r THEN p.r + i ELSE p.r - i

\* What is left in the string of a range when its bits have been visited one
\* by one, each written over the range in place.
LastElement(p) == [p EXCEPT !.sel = "bit", !.r = p.l]

-----------------------------------------------------------------------------
(* The object database.                                                     *)

\* An object has a language, a width, its bits and the set of those held by a
\* force.
InReach(o, p) == p.name = "object" /\ p.l < o.width /\ p.r < o.width

\* vpi_handle_by_name of a Verilog object: the name and its single bits; a
\* range is no object.
VlogResolves(o, p) == o.lang = "vlog" /\ InReach(o, p) /\ ~IsSlice(p)

\* A target maps positions in a value to bits of the object.
Target(o, p) ==
  CASE p.sel = "whole" -> [i \in 0 .. o.width - 1 |-> i]
    [] p.sel = "bit"   -> [i \in 0 .. 0 |-> p.l]
    [] p.sel = "range" -> [i \in 0 .. SliceWidth(p) - 1 |-> SliceBit(p, i)]

TargetBits(t) == {t[i] : i \in DOMAIN t}

\* More bits than a value of the calls has: reads refuse them.
TooWide(t) == Cardinality(DOMAIN t) > MAX_WIDTH

\* The positions of a range that a walk over its bits, one handle each,
\* finds before the first that is missing.
Reached(o, p) ==
  { i \in 0 .. SliceWidth(p) - 1 :
      o.lang = "vlog" /\ p.name = "object" /\ \A j \in 0 .. i : SliceBit(p, j) < o.width }

ReachedTarget(o, p) == [i \in Reached(o, p) |-> SliceBit(p, i)]
AllReached(o, p)    == Reached(o, p) = 0 .. SliceWidth(p) - 1

\* A deposit leaves forced bits alone, a force takes them, and a variable
\* keeps its value when released (uvm_hdl.svh 107-113).
PutValue(o, t, value, flag) ==
  LET source(b) == value[CHOOSE i \in DOMAIN t : t[i] = b]
      bits      == TargetBits(t)
  IN  CASE flag = "deposit" ->
             [o EXCEPT !.val = [b \in DOMAIN o.val |->
                IF b \in bits \ o.forced THEN source(b) ELSE o.val[b]]]
        [] flag = "force" ->
             [o EXCEPT !.val = [b \in DOMAIN o.val |->
                IF b \in bits THEN source(b) ELSE o.val[b]],
                       !.forced = o.forced \cup bits]
        [] flag = "release" -> [o EXCEPT !.forced = o.forced \ bits]

\* vpi_get_value fills whole chunks, zero above the object; the backends copy
\* those chunks into the caller's value and leave the rest of it.
GetValue(o, t, value) ==
  LET n == Cardinality(DOMAIN t)
  IN  [i \in 0 .. MAX_WIDTH - 1 |->
         IF i < n THEN o.val[t[i]] ELSE IF i < ChunkEnd(n) THEN 0 ELSE value[i]]

-----------------------------------------------------------------------------
(* What a call gives back: its result, the object and the caller's value    *)
(* after it, the one static flag a backend keeps between calls, and whether *)
(* the call ended the simulation (tf_dofinish, or the process dying in it). *)

Answer(ok, o, value) ==
  [ok |-> ok, obj |-> o, value |-> value, partsel |-> 0, finish |-> FALSE]

\* n characters, leftmost first, shifted into chunk 0, then into chunk 1: the
\* value is right only where one chunk is enough.
FillFromTheLeft(n, char, value) ==
  [i \in 0 .. MAX_WIDTH - 1 |->
     LET j == i \div CHUNK
     IN  IF i >= ChunkEnd(n) THEN value[i]
         ELSE IF i - j * CHUNK >= BitsInChunk(n, j) THEN 0
         ELSE char[j * CHUNK + BitsInChunk(n, j) - 1 - (i - j * CHUNK)]]

\* The loops that clear a value stop one chunk short of its end.
ClearedAllButLast(value) ==
  [i \in 0 .. MAX_WIDTH - 1 |-> IF i < (MAX_CHUNKS - 1) * CHUNK THEN 0 ELSE value[i]]
=============================================================================
