---------------------------- MODULE HdlXcelium ----------------------------
(***************************************************************************)
(* dv/uvm/1800.2-2017-1.0/src/dpi/uvm_hdl_xcelium.c: Verilog through VPI,  *)
(* VHDL through VHPI. A range is always taken for Verilog and taken apart  *)
(* into single bits.                                                       *)
(***************************************************************************)
EXTENDS HdlSim

uvm_hdl_max_width == MAX_WIDTH

is_valid_path_slice(p) == IsSlice(p)

clear_value(value) == ClearedAllButLast(value)

\* vhpi_handle_by_name: a name of either language, a bit of a Verilog vector.
Found(o, p) == InReach(o, p) /\ (p.sel = "whole" \/ (p.sel = "bit" /\ o.lang = "vlog"))

\* The languages the call may see: of a name without a handle the variable is
\* never assigned.
m_uvm_get_object_handle(o, p) ==
  IF Found(o, p) THEN {o.lang} ELSE {"vlog", "vhdl", "other"}

-----------------------------------------------------------------------------

uvm_hdl_set_vlog(o, p, value, flag) ==
  IF VlogResolves(o, p) THEN Answer(1, PutValue(o, Target(o, p), value, flag), value)
  ELSE Answer(0, o, value)

uvm_hdl_set_vlog_partsel(o, p, value, flag) ==
  IF is_valid_path_slice(p)
  THEN Answer(IF AllReached(o, p) THEN 1 ELSE 0, PutValue(o, ReachedTarget(o, p), value, flag), value)
  ELSE Answer(0, o, value)

uvm_hdl_get_vlog(o, p, value) ==
  IF VlogResolves(o, p) /\ ~TooWide(Target(o, p))
  THEN Answer(1, o, GetValue(o, Target(o, p), value))
  ELSE Answer(0, o, value)

uvm_hdl_get_vlog_partsel(o, p, value) ==
  IF is_valid_path_slice(p)
  THEN Answer(IF AllReached(o, p) THEN 1 ELSE 0, o,
              [i \in 0 .. MAX_WIDTH - 1 |->
                 IF i \in Reached(o, p) THEN o.val[SliceBit(p, i)] ELSE value[i]])
  ELSE Answer(0, o, value)

-----------------------------------------------------------------------------

\* The chunk's pointer is never moved on: every chunk is the first again.
Vhpi2ValFirstChunk(value, i) ==
  IF aval(value[i % CHUNK]) = 1 \/ bval(value[i % CHUNK]) = 1 THEN sv_1 ELSE sv_0

\* The index left unmasked: what the bits behind hold is added to it.
Vhpi2ValUnmasked(value, i) ==
  aval(value[i]) + 2 * Cardinality({k \in i .. (i \div CHUNK) * CHUNK + CHUNK - 1 : bval(value[k]) = 1})

\* Bit j of a chunk. The index ((bval << 1) || (aval & 1)) && 3 is 0 or 1:
\* aval's bit, or 1 while any bval is left in the word from bit j on. The
\* shift drops the sign bit, which the arithmetic shifts of later bits have
\* already copied down.
vhpi2val(value, i) ==
  LET first   == (i \div CHUNK) * CHUNK
      last    == first + CHUNK - 1
      counted == IF i = first THEN i .. last - 1 ELSE i .. last
  IN  IF aval(value[i]) = 1 \/ \E k \in counted : bval(value[k]) = 1 THEN sv_1 ELSE sv_0

\* No handle has no format: the switch ends the simulation.
uvm_hdl_set_vhdl(o, p, value, flag) ==
  IF Found(o, p)
  THEN Answer(1, PutValue(o, Target(o, p), [i \in 0 .. o.width - 1 |-> vhpi2val(value, i)], flag), value)
  ELSE [Answer(0, o, value) EXCEPT !.finish = TRUE]

\* The elements are freed in the loop over the chunks, once per chunk: behind
\* the first it reads freed memory and frees it again.
FreedInTheLoop(o) == o.width > CHUNK

\* Bits from what freed memory may hold.
WithStaleBits(o, first) ==
  { [i \in 0 .. MAX_WIDTH - 1 |->
       IF i < CHUNK THEN first[i] ELSE IF i < o.width THEN stale[i] ELSE sv_0]
    : stale \in [CHUNK .. o.width - 1 -> Logic] }

\* A scalar sets the first chunk only. A vector clears the value, and shifts
\* its elements in from the left, which goes well for one chunk. With more, the
\* process may die, or come through with any bits behind the first chunk.
uvm_hdl_get_vhdl(o, p, value) ==
  LET scalar == o.width = 1
      enumvs == [k \in 0 .. o.width - 1 |-> o.val[o.width - 1 - k]]
      blank  == [i \in 0 .. MAX_WIDTH - 1 |-> sv_0]
      filled == FillFromTheLeft(o.width, enumvs, IF scalar THEN value ELSE blank)
      ended  == [Answer(0, o, value) EXCEPT !.finish = TRUE]
  IN  IF ~Found(o, p) THEN {ended}
      ELSE IF ~FreedInTheLoop(o) THEN {Answer(1, o, filled)}
      ELSE {ended} \cup {Answer(1, o, v) : v \in WithStaleBits(o, filled)}

-----------------------------------------------------------------------------
(* The DPI calls. Each gives the set of its possible answers.               *)

\* Any path the call takes apart itself is taken to be good.
CheckPathTrustsSlices(o, p, value) ==
  {Answer(IF Found(o, p) \/ is_valid_path_slice(p) THEN 1 ELSE 0, o, value)}

uvm_hdl_check_path(o, p, value) ==
  {Answer(IF Found(o, p) THEN 1 ELSE 0, o, value)}

uvm_hdl_read(o, p, value) ==
  IF is_valid_path_slice(p) THEN {uvm_hdl_get_vlog_partsel(o, p, clear_value(value))}
  ELSE UNION { CASE language = "vlog"  -> {uvm_hdl_get_vlog(o, p, value)}
                 [] language = "vhdl"  -> uvm_hdl_get_vhdl(o, p, value)
                 [] language = "other" -> {Answer(0, o, value)}
             : language \in m_uvm_get_object_handle(o, p) }

Set(o, p, value, flag) ==
  IF is_valid_path_slice(p) THEN {uvm_hdl_set_vlog_partsel(o, p, value, flag)}
  ELSE { CASE language = "vlog"  -> uvm_hdl_set_vlog(o, p, value, flag)
           [] language = "vhdl"  -> uvm_hdl_set_vhdl(o, p, value, flag)
           [] language = "other" -> Answer(0, o, value)
       : language \in m_uvm_get_object_handle(o, p) }

uvm_hdl_deposit(o, p, value) == Set(o, p, value, "deposit")
uvm_hdl_force(o, p, value)   == Set(o, p, value, "force")
uvm_hdl_release(o, p, value) == Set(o, p, value, "release")

\* The read comes first, and a path it leaves without its range is not released.
ReleaseAndReadReadsFirst(o, p, value) ==
  IF is_valid_path_slice(p) THEN {uvm_hdl_get_vlog_partsel(o, LastElement(p), clear_value(value))}
  ELSE UNION {uvm_hdl_read(a.obj, p, a.value) : a \in uvm_hdl_release(o, p, value)}

\* The release of a range has written its last bit over the path: what is left
\* is no range, and the read of one fails. Otherwise the release's own result
\* is not looked at.
uvm_hdl_release_and_read(o, p, value) ==
  IF is_valid_path_slice(p)
  THEN { uvm_hdl_get_vlog_partsel(a.obj, LastElement(p), clear_value(value))
       : a \in Set(o, p, value, "release") }
  ELSE UNION { CASE language = "vlog" ->
                      {uvm_hdl_get_vlog(uvm_hdl_set_vlog(o, p, value, "release").obj, p, value)}
                 [] language = "vhdl" ->
                      uvm_hdl_get_vhdl(uvm_hdl_set_vhdl(o, p, value, "release").obj, p, value)
                 [] language = "other" -> {Answer(0, o, value)}
             : language \in m_uvm_get_object_handle(o, p) }
=============================================================================
