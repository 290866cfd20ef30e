----------------------------- MODULE HdlQuesta ----------------------------
(***************************************************************************)
(* dv/uvm/1800.2-2017-1.0/src/dpi/uvm_hdl_questa.c: Verilog through VPI,   *)
(* VHDL through the FLI (mti_). Ranges of Verilog vectors are taken apart  *)
(* into single bits; VHDL selects are looked up by this code itself.       *)
(*                                                                         *)
(* partsel is the static flag that tells uvm_hdl_get_vlog it is reading    *)
(* one bit of a range.                                                     *)
(***************************************************************************)
EXTENDS HdlSim

CONSTANTS
  VECTOR_VAL,     \* characters of vector_val, the last of them the end: 128
  REDUCED_VECTOR  \* characters of reduced_vector: 256

uvm_hdl_max_width == MAX_WIDTH

\* The FLI knows the name with its select stripped off.
uvm_is_vhdl_path(o, p) == o.lang = "vhdl" /\ p.name = "object"

\* What the buffers on the stack hold: a write of a select copies all elements
\* of the array into vector_val, a read of a range collects its own in
\* reduced_vector. Neither is checked.
WriteFitsBuffers(o, p) == p.sel = "whole" \/ o.width < VECTOR_VAL
ReadFitsBuffers(o, p)  == IsSlice(p) => SliceWidth(p) <= REDUCED_VECTOR

string_to_vecval(s, nbits, value) == FillFromTheLeft(nbits, s, value)

vecval_to_string(nbits, value) == [k \in 0 .. nbits - 1 |-> value[nbits - 1 - k]]

\* The elements of an array (n - 1 downto 0), leftmost first.
vhdl_array_of_char2string(o) == [k \in 0 .. o.width - 1 |-> o.val[o.width - 1 - k]]

uvm_register_get_vhdl(o, p, value) ==
  LET vectors  == vhdl_array_of_char2string(o)
      incr     == IF p.l > p.r THEN 1 ELSE -1
      picked(i) == (o.width - 1) - (p.l - i * incr)
      string   == CASE p.sel = "whole" -> vectors
                    [] p.sel = "bit"   -> [i \in {0} |-> vectors[(o.width - 1) - p.l]]
                    [] p.sel = "range" -> [i \in 0 .. SliceWidth(p) - 1 |-> vectors[picked(i)]]
  IN  Answer(1, o, string_to_vecval(string, Cardinality(DOMAIN string), value))

\* A select is only ever deposited, as '1' or '0': forceType matters to it
\* only when it releases. A single element takes the value's bit of its own
\* index.
uvm_register_set_vhdl(o, p, value, forceType) ==
  LET string     == vecval_to_string(o.width, value)
      digit(k)   == IF string[k] = sv_1 THEN sv_1 ELSE sv_0
      selectType == IF forceType = "release" THEN "release" ELSE "deposit"
      source     == CASE p.sel = "whole" -> [i \in 0 .. o.width - 1 |-> string[(o.width - 1) - i]]
                      [] p.sel = "bit"   -> [i \in {0} |-> digit((o.width - 1) - p.l)]
                      [] p.sel = "range" -> [i \in 0 .. SliceWidth(p) - 1 |-> digit((o.width - i) - 1)]
  IN  Answer(1, PutValue(o, Target(o, p), source,
                         IF p.sel = "whole" THEN forceType ELSE selectType), value)

-----------------------------------------------------------------------------

\* A walk that climbs from the right bound whichever way the range is written.
SetPartselUpwards(o, p, value, flag) ==
  LET reached == {i \in 0 .. SliceWidth(p) - 1 : VlogResolves(o, Path(p.name, "bit", p.r + i, p.r + i))}
  IN  Answer(IF AllReached(o, p) THEN 1 ELSE 0,
             PutValue(o, [i \in reached |-> p.r + i], value, flag), value)

\* A walk that does not pass on that a bit was missing.
SetPartselAlwaysOk(o, p, value, flag) ==
  Answer(1, PutValue(o, ReachedTarget(o, p), value, flag), value)

\* Bit by bit from the right end; the first bit that is not there ends the
\* loop, and what was put stays put.
uvm_hdl_set_vlog_partsel(o, p, value, flag) ==
  Answer(IF AllReached(o, p) THEN 1 ELSE 0, PutValue(o, ReachedTarget(o, p), value, flag), value)

uvm_hdl_set_vlog(o, p, value, flag) ==
  IF IsSlice(p) THEN uvm_hdl_set_vlog_partsel(o, p, value, flag)
  ELSE IF VlogResolves(o, p) THEN Answer(1, PutValue(o, Target(o, p), value, flag), value)
  ELSE Answer(0, o, value)

\* The bit that is not there leaves its predecessor in bit_value, which is put
\* into the value before the result is looked at; partsel stays set.
uvm_hdl_get_vlog_partsel(o, p, value) ==
  LET got      == Cardinality(Reached(o, p))
      bit(i)   == o.val[SliceBit(p, i)]
      bit_value == IF got = 0 THEN sv_0 ELSE bit(got - 1)
  IN  [Answer(IF AllReached(o, p) THEN 1 ELSE 0, o,
              [i \in 0 .. MAX_WIDTH - 1 |->
                 IF i < got THEN bit(i)
                 ELSE IF i = got /\ ~AllReached(o, p) THEN bit_value ELSE value[i]])
       EXCEPT !.partsel = IF AllReached(o, p) THEN 0 ELSE 1]

uvm_hdl_get_vlog(o, p, value, partsel) ==
  LET cleared == IF partsel = 1 THEN value ELSE ClearedAllButLast(value)
      served  == VlogResolves(o, p) /\ ~TooWide(Target(o, p))
  IN  IF IsSlice(p) THEN uvm_hdl_get_vlog_partsel(o, p, cleared)
      ELSE [Answer(IF served THEN 1 ELSE 0, o,
                   IF served THEN GetValue(o, Target(o, p), cleared) ELSE cleared)
            EXCEPT !.partsel = partsel]

-----------------------------------------------------------------------------
(* The DPI calls. Each gives the set of its possible answers.               *)

Keeping(answer, partsel) == [answer EXCEPT !.partsel = partsel]

uvm_hdl_check_path(o, p, value, partsel) ==
  {Keeping(Answer(IF uvm_is_vhdl_path(o, p) \/ VlogResolves(o, p) THEN 1 ELSE 0, o, value), partsel)}

uvm_hdl_read(o, p, value, partsel) ==
  {IF uvm_is_vhdl_path(o, p) THEN Keeping(uvm_register_get_vhdl(o, p, value), partsel)
   ELSE uvm_hdl_get_vlog(o, p, value, partsel)}

Set(o, p, value, partsel, flag) ==
  {Keeping(IF uvm_is_vhdl_path(o, p) THEN uvm_register_set_vhdl(o, p, value, flag)
           ELSE uvm_hdl_set_vlog(o, p, value, flag), partsel)}

uvm_hdl_deposit(o, p, value, partsel) == Set(o, p, value, partsel, "deposit")
uvm_hdl_force(o, p, value, partsel)   == Set(o, p, value, partsel, "force")
uvm_hdl_release(o, p, value, partsel) == Set(o, p, value, partsel, "release")

\* The release of a range has written its last bit over the path, and that is
\* what is read.
uvm_hdl_release_and_read(o, p, value, partsel) ==
  UNION { IF a.ok = 0 THEN {a}
          ELSE IF uvm_is_vhdl_path(o, p) \/ ~IsSlice(p)
               THEN uvm_hdl_read(a.obj, p, a.value, partsel)
          ELSE uvm_hdl_read(a.obj, LastElement(p), a.value, partsel)
        : a \in Set(o, p, value, partsel, "release") }
=============================================================================
