---------------------------- MODULE HdlBackdoor ---------------------------
(***************************************************************************)
(* The register back door as a test sees it (uvm_hdl.svh): one object of   *)
(* the design, one backend compiled in (uvm_hdl.c), calls from any process *)
(* in any order, tasks that force for a time and let go, and a design that *)
(* writes the object meanwhile. A DPI call takes no simulation time, so it *)
(* is one step.                                                            *)
(***************************************************************************)
EXTENDS HdlSim

CONSTANTS
  Widths,       \* of objects
  Names,        \* paths of calls
  Samples,      \* values the promises are checked on
  Handed,       \* those of them that calls are made with
  Tasks,        \* processes inside uvm_hdl_force_time
  TimedPaths,   \* paths they are given
  DesignValues, \* what the design writes
  VECTOR_VAL, REDUCED_VECTOR  \* the sizes of Questa's buffers

ASSUME BackdoorAssumption ==
  /\ Widths \subseteq Nat \ {0}
  /\ Handed \subseteq Samples /\ Samples \subseteq Buffer
  /\ \A v \in DesignValues, w \in Widths : \A b \in 0 .. w - 1 : v[b] \in Logic
  /\ Names \subseteq Paths /\ TimedPaths \subseteq Names
  /\ VECTOR_VAL \in Nat /\ REDUCED_VECTOR \in Nat /\ VECTOR_VAL <= REDUCED_VECTOR + 1

VARIABLES
  tool,         \* the backend
  obj,          \* the object
  partsel,      \* Questa's static flag
  finished,     \* a backend has ended the simulation
  timer,        \* task -> the path it holds, or Idle
  held,         \* ghost: bits a successful force holds
  stray         \* ghost: bits of forces and releases that reported failure

Idle == Path("none", "whole", 0, 0)

vars == <<tool, obj, partsel, finished, timer, held, stray>>

Questa  == INSTANCE HdlQuesta
Xcelium == INSTANCE HdlXcelium
Vcs     == INSTANCE HdlVcs

Tools == {"questa", "xcelium"} \cup Vcs!Builds
Calls == {"check_path", "read", "deposit", "force", "release", "release_and_read"}

\* uvm_hdl.c compiles exactly one of the three in.
Answers(call, p, value) ==
  CASE tool = "questa" ->
         ( CASE call = "check_path" -> Questa!uvm_hdl_check_path(obj, p, value, partsel)
             [] call = "read"       -> Questa!uvm_hdl_read(obj, p, value, partsel)
             [] call = "deposit"    -> Questa!uvm_hdl_deposit(obj, p, value, partsel)
             [] call = "force"      -> Questa!uvm_hdl_force(obj, p, value, partsel)
             [] call = "release"    -> Questa!uvm_hdl_release(obj, p, value, partsel)
             [] OTHER               -> Questa!uvm_hdl_release_and_read(obj, p, value, partsel) )
    [] tool = "xcelium" ->
         ( CASE call = "check_path" -> Xcelium!uvm_hdl_check_path(obj, p, value)
             [] call = "read"       -> Xcelium!uvm_hdl_read(obj, p, value)
             [] call = "deposit"    -> Xcelium!uvm_hdl_deposit(obj, p, value)
             [] call = "force"      -> Xcelium!uvm_hdl_force(obj, p, value)
             [] call = "release"    -> Xcelium!uvm_hdl_release(obj, p, value)
             [] OTHER               -> Xcelium!uvm_hdl_release_and_read(obj, p, value) )
    [] OTHER ->
         ( CASE call = "check_path" -> Vcs!uvm_hdl_check_path(tool, obj, p, value)
             [] call = "read"       -> Vcs!uvm_hdl_read(tool, obj, p, value)
             [] call = "deposit"    -> Vcs!uvm_hdl_deposit(tool, obj, p, value)
             [] call = "force"      -> Vcs!uvm_hdl_force(tool, obj, p, value)
             [] call = "release"    -> Vcs!uvm_hdl_release(tool, obj, p, value)
             [] OTHER               -> Vcs!uvm_hdl_release_and_read(tool, obj, p, value) )

\* The bits a path asks for.
Asked(p) ==
  IF p.name = "object" THEN TargetBits(Target(obj, p)) \cap (0 .. obj.width - 1) ELSE {}

\* More bits than a uvm_hdl_data_t has, those that a range has too many included.
WiderThanValue(p) == p.name = "object" /\ TooWide(Target(obj, p))

\* Calls whose meaning does not depend on a simulator that is not here. Only
\* the FLI backend looks selects of VHDL up itself, and it does not check them.
\* A write of more bits than the value has goes on reading behind it, and a
\* read of a range bit by bit goes on writing there; of the other reads, those
\* of VHDL refuse under VCS alone. A select of VHDL too wide for Questa's buffers
\* overwrites its stack; what may be written also fits when it is read after.
Meaningful(call, p) ==
  /\ obj.lang = "vhdl" /\ p.sel # "whole" =>
       /\ tool = "questa"
       /\ p.name = "object" =>
            /\ InReach(obj, p)
            /\ call = "read" => Questa!ReadFitsBuffers(obj, p)
            /\ call \notin {"check_path", "read"} => Questa!WriteFitsBuffers(obj, p)
  /\ WiderThanValue(p) =>
       \/ call = "check_path"
       \/ call = "read" /\ ((obj.lang = "vlog" /\ ~IsSlice(p)) \/ tool \in Vcs!Builds)

-----------------------------------------------------------------------------

Init ==
  /\ tool \in Tools
  /\ obj \in {[lang |-> lang, width |-> w, val |-> [b \in 0 .. w - 1 |-> v[b]], forced |-> {}] :
                lang \in {"vlog", "vhdl"}, w \in Widths, v \in DesignValues}
  /\ partsel = 0
  /\ finished = FALSE
  /\ timer = [t \in Tasks |-> Idle]
  /\ held = {}
  /\ stray = {}

Goes(a) ==
  /\ ~finished
  /\ obj' = a.obj
  /\ partsel' = a.partsel
  /\ finished' = a.finish
  /\ UNCHANGED tool

Forces(p, a) ==
  /\ Goes(a)
  /\ held'  = IF a.ok = 1 THEN held \cup Asked(p) ELSE held
  /\ stray' = IF a.ok = 1 THEN stray \ Asked(p) ELSE stray \cup Asked(p)

Releases(p, a) ==
  /\ Goes(a)
  /\ held'  = held \ Asked(p)
  /\ stray' = IF a.ok = 1 THEN stray \ Asked(p) ELSE stray \cup (held \cap Asked(p))

\* uvm_hdl_check_path and uvm_hdl_read.
Looks(call, p, value) ==
  /\ \E a \in Answers(call, p, value) : Goes(a)
  /\ UNCHANGED <<timer, held, stray>>

\* uvm_hdl_deposit, and uvm_hdl_force_time for no time.
Deposit(p, value) ==
  /\ \E a \in Answers("deposit", p, value) : Goes(a)
  /\ UNCHANGED <<timer, held, stray>>

ForceUntilReleased(p, value) ==
  /\ \E a \in Answers("force", p, value) : Forces(p, a)
  /\ UNCHANGED timer

Release(call, p, value) ==
  /\ \E a \in Answers(call, p, value) : Releases(p, a)
  /\ UNCHANGED timer

\* uvm_hdl_force_time up to its delay: a force that fails ends the task.
ForceTime(t, p, value) ==
  /\ timer[t] = Idle
  /\ \E a \in Answers("force", p, value) :
       /\ Forces(p, a)
       /\ timer' = [timer EXCEPT ![t] = IF a.ok = 1 THEN p ELSE Idle]

\* The task tries again until the release reports success.
ForceTimeRetries(t) ==
  /\ timer[t] # Idle
  /\ \E value \in Handed : \E a \in Answers("release_and_read", timer[t], value) :
       /\ Releases(timer[t], a)
       /\ timer' = [timer EXCEPT ![t] = IF a.ok = 1 THEN Idle ELSE timer[t]]

\* The delay is over.
ForceTimeEnds(t) ==
  /\ timer[t] # Idle
  /\ \E value \in Handed : \E a \in Answers("release_and_read", timer[t], value) :
       Releases(timer[t], a)
  /\ timer' = [timer EXCEPT ![t] = Idle]

\* The design writes the object: what is forced stays.
DesignWrites(value) ==
  /\ ~finished
  /\ obj' = PutValue(obj, Target(obj, Path("object", "whole", 0, 0)), value, "deposit")
  /\ UNCHANGED <<tool, partsel, finished, timer, held, stray>>

Next ==
  \/ \E p \in Names, value \in Handed :
       \/ \E call \in {"check_path", "read"} : Meaningful(call, p) /\ Looks(call, p, value)
       \/ Meaningful("deposit", p) /\ Deposit(p, value)
       \/ Meaningful("force", p) /\ ForceUntilReleased(p, value)
       \/ \E call \in {"release", "release_and_read"} :
            Meaningful(call, p) /\ Release(call, p, value)
  \/ \E t \in Tasks, p \in TimedPaths, value \in Handed :
       Meaningful("force", p) /\ ForceTime(t, p, value)
  \/ \E t \in Tasks : ForceTimeEnds(t)
  \/ \E value \in DesignValues : DesignWrites(value)

Spec == Init /\ [][Next]_vars

\* Time goes on while the simulation does: every delay ends.
FairSpec == Spec /\ \A t \in Tasks : WF_vars(ForceTimeEnds(t))

-----------------------------------------------------------------------------
(* What uvm_hdl.svh 62-128 promises of the calls.                           *)

\* Every variable has its type, and so has whatever any backend answers: 0 or
\* 1, a value of four-state bits, an object as wide as it was.
HdlTypeOK ==
  /\ tool \in Tools /\ partsel \in {0, 1} /\ finished \in BOOLEAN
  /\ obj.lang \in {"vlog", "vhdl"} /\ obj.width \in Widths
  /\ obj.val \in [0 .. obj.width - 1 -> Logic] /\ obj.forced \subseteq 0 .. obj.width - 1
  /\ timer \in [Tasks -> TimedPaths \cup {Idle}]
  /\ held \subseteq 0 .. obj.width - 1 /\ stray \subseteq 0 .. obj.width - 1
  /\ \A call \in Calls, p \in Names, value \in Samples :
       Meaningful(call, p) => \A a \in Answers(call, p, value) : a.ok \in {0, 1} /\ a.value \in Buffer
                                          /\ a.obj.val \in [0 .. obj.width - 1 -> Logic]

\* No call reaches past the bits its path names, whichever backend walks a
\* range bit by bit, in either direction, and wherever it stops; checking and
\* reading reach none.
CallsStayInTheirBits ==
  \A call \in Calls, p \in Names, value \in Samples :
    Meaningful(call, p) => \A a \in Answers(call, p, value) :
      /\ \A b \in (0 .. obj.width - 1) \ Asked(p) :
           /\ a.obj.val[b] = obj.val[b]
           /\ b \in a.obj.forced <=> b \in obj.forced
      /\ call \in {"check_path", "read"} => a.obj = obj

\* Values that survive the way to a VHDL object: known bits (the backends make
\* 0 or 1 of x and z, each in its own way), and none above the object.
Fits(value) ==
  \A i \in 0 .. MAX_WIDTH - 1 : Known(value[i]) /\ (i >= obj.width => value[i] = sv_0)

\* A deposit or a force that reports success has put bit i of the value on the
\* i-th bit of the path, counted from its right end, unless the bit was forced
\* and this is a deposit, as every write to a range of a VHDL array is under
\* Questa. A single element there takes another bit of the value
\* (uvm_hdl_questa.c 588) and is left out.
WritesWhatWasAsked ==
  \A call \in {"deposit", "force"}, p \in Names, value \in Samples :
    /\ Meaningful(call, p)
    /\ obj.lang = "vhdl" => Fits(value) /\ p.sel # "bit"
    => \A a \in Answers(call, p, value) :
         a.ok = 1 => \A i \in DOMAIN Target(obj, p) :
                       \/ a.obj.val[Target(obj, p)[i]] = value[i]
                       \/ /\ call = "deposit" \/ (tool = "questa" /\ obj.lang = "vhdl")
                          /\ Target(obj, p)[i] \in obj.forced

\* Objects whose reading is right: a VHDL object of more than one chunk is
\* reassembled in the wrong order everywhere but under VCSMX, and there only
\* if its chunks are full.
Assembles ==
  \/ obj.lang = "vlog"
  \/ obj.width <= CHUNK
  \/ tool = "vcsmx" /\ obj.width % CHUNK = 0

\* The reads whose answer VCSMX leaves to chance (uvm_hdl_vcs.c 859-904).
LeftToChance(p) == tool \in {"vcsmx", "vcsmx_fast"} /\ Vcs!Language(tool, obj, p) = "none"

ReadsBack(p, a) == \A i \in DOMAIN Target(obj, p) : a.value[i] = obj.val[Target(obj, p)[i]]

\* A read that reports success gives the bits of the path, in order, whatever
\* an earlier call has left in the static flag or in the caller's value; so
\* does a release and read of anything but a range of Verilog bits, on the two
\* backends that read after they release.
ReadsWhatIsThere ==
  \A p \in Names, value \in Samples :
    Meaningful("read", p) /\ InReach(obj, p) /\ Assembles /\ ~LeftToChance(p) =>
      /\ \A a \in Answers("read", p, value) : a.ok = 1 => ReadsBack(p, a)
      /\ /\ tool \in {"questa", "xcelium"} /\ Meaningful("release_and_read", p)
         /\ ~(IsSlice(p) /\ obj.lang = "vlog")
         => \A a \in Answers("release_and_read", p, value) : a.ok = 1 => ReadsBack(p, a)

\* The reads that Xcelium may not come back from (uvm_hdl_xcelium.c 527).
MayDie(call) ==
  /\ tool = "xcelium" /\ obj.lang = "vhdl" /\ Xcelium!FreedInTheLoop(obj)
  /\ call \in {"read", "release_and_read"}

\* A path that checks is one that every other call succeeds on, unless the
\* simulation dies in it; on one that does not they all fail, except for ranges
\* of existing bits, which Questa and Xcelium serve and do not check, and for
\* the reads left to chance. An object wider than UVM_HDL_MAX_WIDTH checks, but
\* no read pretends to have got it.
CheckedPathsAnswer ==
  \A p \in Names, value \in Samples, call \in Calls : Meaningful(call, p) =>
    \A c \in Answers("check_path", p, value), a \in Answers(call, p, value) :
      /\ WiderThanValue(p) /\ call = "read" => a.ok = 0 \/ LeftToChance(p)
      /\ c.ok = 1 /\ (WiderThanValue(p) => call = "check_path") =>
           (a.ok = 1 /\ ~a.finish) \/ (a.finish /\ MayDie(call))
      /\ c.ok = 0 /\ ~(IsSlice(p) /\ InReach(obj, p)) => a.ok = 0 \/ (call = "read" /\ LeftToChance(p))

\* Every forced bit is held by a force that succeeded, or left over from a
\* call that reported failure half way (a range whose far end does not exist);
\* and what a force reported held is forced. Questa only deposits on elements
\* of a VHDL array, so VHDL there is left out of the second half.
ForcesAccountedFor ==
  /\ obj.forced \subseteq held \cup stray
  /\ held \subseteq obj.forced \/ (tool = "questa" /\ obj.lang = "vhdl")

\* When a task's delay ends none of its bits stays forced, though another task
\* or an explicit release may have let go of them before.
ForceTimeLetsGo ==
  [][\A t \in Tasks : timer[t] # Idle /\ timer'[t] = Idle =>
       obj'.forced \cap Asked(timer[t]) = {}]_vars

\* Every uvm_hdl_force_time returns while the simulation lasts.
EveryForceTimeEnds == \A t \in Tasks : timer[t] # Idle ~> (timer[t] = Idle \/ finished)
=============================================================================
