------------------------------ MODULE HdlVcs ------------------------------
(***************************************************************************)
(* dv/uvm/1800.2-2017-1.0/src/dpi/uvm_hdl_vcs.c, which the preprocessor    *)
(* makes three backends of: plain VCS (VPI only), VCSMX (names of either   *)
(* language through mhpi) and VCSMX with VCSMX_FAST_UVM (handles passed    *)
(* down, VHDL read through VHPI). The simulator resolves ranges itself.    *)
(***************************************************************************)
EXTENDS HdlSim

Builds == {"vcs", "vcsmx", "vcsmx_fast"}

uvm_hdl_max_width == MAX_WIDTH

\* What a name stands for. Plain VCS has no VHDL; a range is written left to
\* right as it is declared, downwards.
Language(build, o, p) ==
  IF InReach(o, p) /\ (IsSlice(p) => p.l >= p.r) /\ (build = "vcs" => o.lang = "vlog")
  THEN o.lang ELSE "none"

-----------------------------------------------------------------------------

uvm_hdl_set_vlog(o, p, value, flag) == Answer(1, PutValue(o, Target(o, p), value, flag), value)

\* A read that takes what it gets.
GetVlogUnchecked(o, p, value) ==
  Answer(1, o, [i \in 0 .. MAX_WIDTH - 1 |-> GetValue(o, Target(o, p), value)[i]])

uvm_hdl_get_vlog(o, p, value) ==
  IF TooWide(Target(o, p)) THEN Answer(0, o, value)
  ELSE Answer(1, o, GetValue(o, Target(o, p), value))

\* The memset counts one byte to the chunk: it clears the chunks that fit into
\* as many bytes as there are chunks, eight bytes each.
CHUNK_BYTES == 8

uvm_hdl_get_vhpi(o, value) ==
  LET enums == [k \in 0 .. o.width - 1 |-> o.val[o.width - 1 - k]]
      wiped == [i \in 0 .. MAX_WIDTH - 1 |->
                  IF i \div CHUNK < MAX_CHUNKS \div CHUNK_BYTES THEN sv_0 ELSE value[i]]
  IN  Answer(1, o, FillFromTheLeft(o.width, enums, wiped))

\* The pieces shifted into the value from chunk 0 on, as they are read.
GetMhdlInOrder(o, value) ==
  LET string == [k \in 0 .. o.width - 1 |-> o.val[o.width - 1 - k]]
  IN  Answer(1, o, FillFromTheLeft(o.width, string, value))

\* The string is read in pieces, the shorter one first, but each next piece is
\* taken CHUNK characters on; behind the end of the string stands a null, which
\* reads as x. A piece is shifted into its chunk over what is there.
uvm_hdl_get_mhdl(o, value) ==
  LET max_i    == Chunks(o.width)
      string(k) == IF k < o.width THEN o.val[o.width - 1 - k] ELSE sv_x
      bits_to_consider(i) == IF i = 0 THEN o.width - (max_i - 1) * CHUNK ELSE CHUNK
      shifted(k, b) ==
        LET i == max_i - k - 1
        IN  IF b < bits_to_consider(i) THEN string(i * CHUNK + bits_to_consider(i) - 1 - b)
            ELSE value[k * CHUNK + b - bits_to_consider(i)]
  IN  Answer(1, o, [i \in 0 .. MAX_WIDTH - 1 |->
                      IF i \div CHUNK < max_i THEN shifted(i \div CHUNK, i % CHUNK) ELSE value[i]])

\* The digits of one aval: in the most significant chunk the first, and one
\* for every place up to the highest 1.
uvm_hdl_dtob(value, chunk, msb) ==
  LET bit(b) == aval(value[chunk * CHUNK + b])
      length == IF ~msb THEN CHUNK
                ELSE 1 + Cardinality({b \in 1 .. CHUNK - 1 : \E h \in b .. CHUNK - 1 : bit(h) = 1})
  IN  [k \in 0 .. length - 1 |-> bit(length - 1 - k)]

\* The string forced on the object: at most as many leading digits of the top
\* chunk as the object has bits there, then the chunks below in full. The
\* simulator takes a shorter string as a number.
uvm_hdl_set_mhdl(o, value, flag) ==
  LET max_i  == Chunks(o.width)
      room   == o.width - CHUNK * (max_i - 1)
      digits == uvm_hdl_dtob(value, max_i - 1, TRUE)
      sz     == IF Cardinality(DOMAIN digits) < room THEN Cardinality(DOMAIN digits) ELSE room
      digit(i) ==
        IF i \div CHUNK < max_i - 1
        THEN uvm_hdl_dtob(value, i \div CHUNK, FALSE)[CHUNK - 1 - (i % CHUNK)]
        ELSE IF i % CHUNK < sz THEN digits[sz - 1 - (i % CHUNK)] ELSE sv_0
  IN  Answer(1, PutValue(o, Target(o, Path("object", "whole", 0, 0)),
                         [i \in 0 .. o.width - 1 |-> digit(i)], flag), value)

mhpi_release_force(o, p, value) == Answer(1, PutValue(o, Target(o, p), value, "release"), value)

-----------------------------------------------------------------------------
(* The DPI calls. Each gives the set of its possible answers.               *)

uvm_hdl_check_path(build, o, p, value) ==
  {Answer(IF Language(build, o, p) = "none" THEN 0 ELSE 1, o, value)}

\* Under VCSMX a name of nothing runs off the end of the function: whatever is
\* in the result register.
uvm_hdl_read(build, o, p, value) ==
  CASE Language(build, o, p) = "vlog" -> {uvm_hdl_get_vlog(o, p, value)}
    [] Language(build, o, p) = "vhdl" ->
         { CASE TooWide(Target(o, p)) -> Answer(0, o, value)
             [] ~TooWide(Target(o, p)) /\ build = "vcsmx_fast" -> uvm_hdl_get_vhpi(o, value)
             [] ~TooWide(Target(o, p)) /\ build = "vcsmx" -> uvm_hdl_get_mhdl(o, value) }
    [] Language(build, o, p) = "none" ->
         {Answer(ok, o, value) : ok \in IF build = "vcs" THEN {0} ELSE {0, 1}}

Set(build, o, p, value, flag) ==
  {CASE Language(build, o, p) = "vlog" -> uvm_hdl_set_vlog(o, p, value, flag)
     [] Language(build, o, p) = "vhdl" -> uvm_hdl_set_mhdl(o, value, flag)
     [] Language(build, o, p) = "none" -> Answer(0, o, value)}

uvm_hdl_deposit(build, o, p, value) == Set(build, o, p, value, "deposit")
uvm_hdl_force(build, o, p, value)   == Set(build, o, p, value, "force")

uvm_hdl_release(build, o, p, value) ==
  {CASE Language(build, o, p) = "vlog" -> uvm_hdl_set_vlog(o, p, value, "release")
     [] Language(build, o, p) = "vhdl" -> mhpi_release_force(o, p, value)
     [] Language(build, o, p) = "none" -> Answer(0, o, value)}

\* Nothing is read after the release: plain VCS hands the caller's value to
\* vpi_put_value, which may or may not leave the object's value there, and
\* VCSMX does not touch it.
uvm_hdl_release_and_read(build, o, p, value) ==
  IF Language(build, o, p) = "none" THEN {Answer(0, o, value)}
  ELSE LET a == mhpi_release_force(o, p, value)
       IN  {a} \cup IF build = "vcs" THEN {uvm_hdl_get_vlog(a.obj, p, value)} ELSE {}
=============================================================================
