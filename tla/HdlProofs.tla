------------------------------ MODULE HdlProofs -----------------------------
(***************************************************************************)
(* Theorems about the register back door, for every width of object and of *)
(* value, every set of paths, values and tasks, and each of the backends.  *)
(*                                                                         *)
(* What the object goes through is one lemma per backend, that every call  *)
(* is a deposit, a force or a release on bits its path asks for; the state *)
(* properties follow from that, and no longer look at a backend. What a    *)
(* write puts there and a read gives back takes a second pass over the     *)
(* backends, through the strings and chunks each carries a value in.       *)
(***************************************************************************)
EXTENDS HdlBackdoor, FiniteSetTheorems, TLAPS

Object(o) ==
  /\ o = [lang |-> o.lang, width |-> o.width, val |-> o.val, forced |-> o.forced]
  /\ o.lang \in {"vlog", "vhdl"}
  /\ o.width \in Nat \ {0}
  /\ o.val \in [0 .. o.width - 1 -> Logic]
  /\ o.forced \subseteq 0 .. o.width - 1

Flags == {"deposit", "force", "release"}

\* The bits a path asks for of an object.
AskedOf(o, p) ==
  IF p.name = "object" THEN TargetBits(Target(o, p)) \cap (0 .. o.width - 1) ELSE {}

\* n is o after a deposit, a force or a release of exactly these bits.
PutOn(o, n, bits, flag) ==
  /\ Object(n) /\ n.lang = o.lang /\ n.width = o.width
  /\ \A b \in (0 .. o.width - 1) \ bits : n.val[b] = o.val[b]
  /\ n.forced = CASE flag = "deposit" -> o.forced
                  [] flag = "force"   -> o.forced \cup bits
                  [] flag = "release" -> o.forced \ bits

LEMMA ForcedReplaced ==
  ASSUME NEW o, NEW l, NEW w, NEW x, NEW y, NEW f,
         o = [lang |-> l, width |-> w, val |-> x, forced |-> y]
  PROVE  [o EXCEPT !.forced = f] = [lang |-> l, width |-> w, val |-> x, forced |-> f]
OBVIOUS

LEMMA ObjectWith ==
  ASSUME NEW o, Object(o), NEW v, NEW f
  PROVE  /\ [o EXCEPT !.val = v]
              = [lang |-> o.lang, width |-> o.width, val |-> v, forced |-> o.forced]
         /\ [o EXCEPT !.forced = f]
              = [lang |-> o.lang, width |-> o.width, val |-> o.val, forced |-> f]
         /\ [o EXCEPT !.val = v, !.forced = f]
              = [lang |-> o.lang, width |-> o.width, val |-> v, forced |-> f]
<1>1. PICK l, w, x, y : o = [lang |-> l, width |-> w, val |-> x, forced |-> y]
  BY DEF Object
<1>2. [o EXCEPT !.val = v] = [lang |-> l, width |-> w, val |-> v, forced |-> y]
  BY <1>1
<1>3. [o EXCEPT !.forced = f] = [lang |-> l, width |-> w, val |-> x, forced |-> f]
  BY <1>1
<1>4. [o EXCEPT !.val = v, !.forced = f]
        = [lang |-> l, width |-> w, val |-> v, forced |-> f]
  <2> DEFINE q == [o EXCEPT !.val = v]
  <2>1. [o EXCEPT !.val = v, !.forced = f] = [q EXCEPT !.forced = f]
    BY <1>1
  <2>2. [q EXCEPT !.forced = f] = [lang |-> l, width |-> w, val |-> v, forced |-> f]
    <3>1. q = [lang |-> l, width |-> w, val |-> v, forced |-> y]
      BY <1>2
    <3> HIDE DEF q
    <3>2. QED
      BY <3>1, ForcedReplaced
  <2>3. QED
    BY <2>1, <2>2
<1>5. o.lang = l /\ o.width = w /\ o.val = x /\ o.forced = y
  BY <1>1
<1>6. QED
  BY <1>2, <1>3, <1>4, <1>5

LEMMA PutValuePutsOn ==
  ASSUME NEW o, Object(o), NEW t, NEW value, NEW flag \in Flags,
         TargetBits(t) \subseteq 0 .. o.width - 1,
         flag = "release" \/ \A i \in DOMAIN t : value[i] \in Logic
  PROVE  PutOn(o, PutValue(o, t, value, flag), TargetBits(t), flag)
<1> DEFINE source(b) == value[CHOOSE i \in DOMAIN t : t[i] = b]
<1>1. ASSUME flag # "release", NEW b \in TargetBits(t) PROVE source(b) \in Logic
  <2>1. \E i \in DOMAIN t : t[i] = b
    BY DEF TargetBits
  <2>2. (CHOOSE i \in DOMAIN t : t[i] = b) \in DOMAIN t
    BY <2>1
  <2>3. QED
    BY <1>1, <2>2
<1>2. DOMAIN o.val = 0 .. o.width - 1 /\ \A b \in 0 .. o.width - 1 : o.val[b] \in Logic
  BY DEF Object
<1> HIDE DEF source
<1>3. CASE flag = "deposit"
  <2> DEFINE val == [b \in DOMAIN o.val |->
                       IF b \in TargetBits(t) \ o.forced THEN source(b) ELSE o.val[b]]
  <2>1. PutValue(o, t, value, flag) = [o EXCEPT !.val = val]
    BY <1>3 DEF PutValue, source
  <2>2. val \in [0 .. o.width - 1 -> Logic]
    BY <1>1, <1>2, <1>3
  <2>3. \A b \in (0 .. o.width - 1) \ TargetBits(t) : val[b] = o.val[b]
    BY <1>2
  <2> HIDE DEF val
  <2>4. [o EXCEPT !.val = val]
          = [lang |-> o.lang, width |-> o.width, val |-> val, forced |-> o.forced]
    BY ObjectWith
  <2>5. QED
    BY <1>3, <2>1, <2>2, <2>3, <2>4 DEF PutOn, Object
<1>4. CASE flag = "force"
  <2> DEFINE val == [b \in DOMAIN o.val |->
                       IF b \in TargetBits(t) THEN source(b) ELSE o.val[b]]
  <2>1. PutValue(o, t, value, flag)
          = [o EXCEPT !.val = val, !.forced = o.forced \cup TargetBits(t)]
    BY <1>4 DEF PutValue, source
  <2>2. val \in [0 .. o.width - 1 -> Logic]
    BY <1>1, <1>2, <1>4
  <2>3. \A b \in (0 .. o.width - 1) \ TargetBits(t) : val[b] = o.val[b]
    BY <1>2
  <2> DEFINE forced == o.forced \cup TargetBits(t)
  <2>4. forced \subseteq 0 .. o.width - 1
    BY DEF Object
  <2> HIDE DEF val
  <2>5. PutValue(o, t, value, flag)
          = [lang |-> o.lang, width |-> o.width, val |-> val, forced |-> forced]
    BY <2>1, ObjectWith
  <2> HIDE DEF forced
  <2>6. /\ Object(PutValue(o, t, value, flag))
        /\ PutValue(o, t, value, flag).lang = o.lang
        /\ PutValue(o, t, value, flag).width = o.width
        /\ PutValue(o, t, value, flag).val = val
        /\ PutValue(o, t, value, flag).forced = forced
    BY <2>2, <2>4, <2>5 DEF Object
  <2>7. QED
    BY <1>4, <2>3, <2>6 DEF PutOn, forced
<1>5. CASE flag = "release"
  <2>1. PutValue(o, t, value, flag) = [o EXCEPT !.forced = o.forced \ TargetBits(t)]
    BY <1>5 DEF PutValue
  <2>2. [o EXCEPT !.forced = o.forced \ TargetBits(t)]
          = [lang |-> o.lang, width |-> o.width, val |-> o.val,
             forced |-> o.forced \ TargetBits(t)]
    BY ObjectWith
  <2>3. QED
    BY <1>5, <2>1, <2>2 DEF PutOn, Object
<1>6. QED
  BY <1>3, <1>4, <1>5 DEF Flags

LEMMA NothingPutOn ==
  ASSUME NEW o, Object(o), NEW flag \in Flags
  PROVE  PutOn(o, o, {}, flag)
BY DEF PutOn, Flags

-----------------------------------------------------------------------------
(* Targets: which bits a path means, and how many.                          *)

\* The walk over a range visits the bits between its bounds, both included.
Between(p) == IF p.l > p.r THEN p.r .. p.l ELSE p.l .. p.r

LEMMA SliceBits ==
  ASSUME NEW p \in Paths
  PROVE  /\ SliceWidth(p) \in Nat \ {0}
         /\ \A i \in 0 .. SliceWidth(p) - 1 : SliceBit(p, i) \in Between(p)
         /\ \A b \in Between(p) : \E i \in 0 .. SliceWidth(p) - 1 : SliceBit(p, i) = b
<1>1. p.l \in Nat /\ p.r \in Nat
  BY DEF Paths
<1>2. /\ SliceWidth(p) \in Nat \ {0}
      /\ \A i \in 0 .. SliceWidth(p) - 1 : SliceBit(p, i) \in Between(p)
  BY <1>1 DEF SliceWidth, SliceBit, Between
<1>3. ASSUME NEW b \in Between(p)
      PROVE  \E i \in 0 .. SliceWidth(p) - 1 : SliceBit(p, i) = b
  <2>1. CASE p.l > p.r
    <3>1. b - p.r \in 0 .. SliceWidth(p) - 1 /\ SliceBit(p, b - p.r) = b
      BY <1>1, <1>3, <2>1 DEF SliceWidth, SliceBit, Between
    <3>2. QED
      BY <3>1
  <2>2. CASE ~(p.l > p.r)
    <3>1. p.r - b \in 0 .. SliceWidth(p) - 1 /\ SliceBit(p, p.r - b) = b
      BY <1>1, <1>3, <2>2 DEF SliceWidth, SliceBit, Between
    <3>2. QED
      BY <3>1
  <2>3. QED
    BY <2>1, <2>2
<1>4. QED
  BY <1>2, <1>3

LEMMA BitsOfTarget ==
  ASSUME NEW o, Object(o), NEW p \in Paths
  PROVE  TargetBits(Target(o, p)) = CASE p.sel = "whole" -> 0 .. o.width - 1
                                      [] p.sel = "bit"   -> {p.l}
                                      [] p.sel = "range" -> Between(p)
<1>1. p.sel \in {"whole", "bit", "range"} /\ p.l \in Nat
  BY DEF Paths
<1>2. CASE p.sel = "whole"
  BY <1>2 DEF Target, TargetBits
<1>3. CASE p.sel = "bit"
  BY <1>1, <1>3 DEF Target, TargetBits
<1>4. CASE p.sel = "range"
  BY <1>4, SliceBits DEF Target, TargetBits
<1>5. QED
  BY <1>1, <1>2, <1>3, <1>4

\* A path that is in reach asks for every bit of its target.
LEMMA InReachAsksForTarget ==
  ASSUME NEW o, Object(o), NEW p \in Paths, InReach(o, p)
  PROVE  TargetBits(Target(o, p)) = AskedOf(o, p)
<1>1. /\ p.name = "object" /\ p.l < o.width /\ p.r < o.width
      /\ p.l \in Nat /\ p.r \in Nat /\ o.width \in Nat
      /\ p.sel \in {"whole", "bit", "range"}
  BY DEF Paths, InReach, Object
<1>2. Between(p) \subseteq 0 .. o.width - 1 /\ {p.l} \subseteq 0 .. o.width - 1
  BY <1>1 DEF Between
<1>3. TargetBits(Target(o, p)) \subseteq 0 .. o.width - 1
  BY <1>1, <1>2, BitsOfTarget
<1>4. QED
  BY <1>1, <1>3 DEF AskedOf

LEMMA AskedInObject ==
  ASSUME NEW o, NEW p
  PROVE  AskedOf(o, p) \subseteq 0 .. o.width - 1
BY DEF AskedOf

\* What a walk finds before the first missing bit.
LEMMA ReachedBits ==
  ASSUME NEW o, Object(o), NEW p \in Paths, IsSlice(p)
  PROVE  /\ TargetBits(ReachedTarget(o, p)) \subseteq AskedOf(o, p)
         /\ AllReached(o, p) => /\ InReach(o, p)
                                /\ TargetBits(ReachedTarget(o, p)) = AskedOf(o, p)
         /\ o.lang = "vlog" /\ InReach(o, p) => AllReached(o, p)
<1>1. /\ p.l \in Nat /\ p.r \in Nat /\ o.width \in Nat
      /\ TargetBits(Target(o, p)) = Between(p)
  BY BitsOfTarget DEF Paths, Object, IsSlice
<1>2. TargetBits(ReachedTarget(o, p)) = {SliceBit(p, i) : i \in Reached(o, p)}
  BY DEF TargetBits, ReachedTarget
<1>3. ASSUME NEW i \in Reached(o, p)
      PROVE  SliceBit(p, i) \in AskedOf(o, p)
  <2>1. i \in 0 .. SliceWidth(p) - 1 /\ p.name = "object" /\ SliceBit(p, i) < o.width
    <3>1. i \in 0 .. SliceWidth(p) - 1 /\ p.name = "object"
          /\ \A j \in 0 .. i : SliceBit(p, j) < o.width
      BY DEF Reached
    <3>2. i \in 0 .. i
      BY <3>1
    <3>3. QED
      BY <3>1, <3>2
  <2>2. SliceBit(p, i) \in Between(p)
    BY <2>1, SliceBits
  <2>3. SliceBit(p, i) \in 0 .. o.width - 1
    BY <1>1, <2>1, <2>2 DEF Between
  <2>4. QED
    BY <1>1, <2>1, <2>2, <2>3 DEF AskedOf
<1>4. TargetBits(ReachedTarget(o, p)) \subseteq AskedOf(o, p)
  BY <1>2, <1>3
<1>5. ASSUME AllReached(o, p)
      PROVE  InReach(o, p) /\ TargetBits(ReachedTarget(o, p)) = AskedOf(o, p)
  <2>1. \A i \in 0 .. SliceWidth(p) - 1 :
          p.name = "object" /\ SliceBit(p, i) \in 0 .. o.width - 1
    BY <1>3, <1>5 DEF AllReached, Reached, AskedOf
  <2>2. p.name = "object" /\ Between(p) \subseteq 0 .. o.width - 1
    BY <2>1, SliceBits
  <2>3. InReach(o, p)
    BY <1>1, <2>2 DEF Between, InReach
  <2>4. TargetBits(ReachedTarget(o, p)) = Between(p)
    BY <1>2, <1>5, SliceBits DEF AllReached
  <2>5. QED
    BY <1>1, <2>3, <2>4, InReachAsksForTarget
<1>6. ASSUME o.lang = "vlog", InReach(o, p) PROVE AllReached(o, p)
  <2>1. p.name = "object" /\ \A b \in Between(p) : b < o.width
    BY <1>1, <1>6 DEF InReach, Between
  <2>2. \A i \in 0 .. SliceWidth(p) - 1 : SliceBit(p, i) < o.width
    BY <2>1, SliceBits
  <2>3. \A i \in 0 .. SliceWidth(p) - 1 : \A j \in 0 .. i : j \in 0 .. SliceWidth(p) - 1
    BY SliceBits
  <2>4. \A i \in 0 .. SliceWidth(p) - 1 : \A j \in 0 .. i : SliceBit(p, j) < o.width
    BY <2>2, <2>3
  <2>5. QED
    BY <1>6, <2>1, <2>4 DEF AllReached, Reached
<1>7. QED
  BY <1>4, <1>5, <1>6

LEMMA IntervalCount == \A n \in Nat \ {0} : Cardinality(0 .. n - 1) = n
<1>1. ASSUME NEW n \in Nat \ {0} PROVE Cardinality(0 .. n - 1) = n
  <2>1. 0 \in Int /\ n - 1 \in Int /\ ~(0 > n - 1) /\ (n - 1) - 0 + 1 = n
    OBVIOUS
  <2>2. QED
    BY <2>1, FS_Interval
<1>2. QED
  BY <1>1

\* The positions of a value that a path takes.
LEMMA TargetDomain ==
  ASSUME NEW o, Object(o), NEW p \in Paths
  PROVE  /\ Cardinality(DOMAIN Target(o, p)) \in Nat \ {0}
         /\ DOMAIN Target(o, p) = 0 .. Cardinality(DOMAIN Target(o, p)) - 1
         /\ p.sel = "whole" => Cardinality(DOMAIN Target(o, p)) = o.width
         /\ p.sel = "bit" => Cardinality(DOMAIN Target(o, p)) = 1
         /\ p.sel = "range" => Cardinality(DOMAIN Target(o, p)) = SliceWidth(p)
<1>1. \A n \in Nat \ {0} : Cardinality(0 .. n - 1) = n
  BY IntervalCount
<1>2. o.width \in Nat \ {0} /\ p.sel \in {"whole", "bit", "range"}
  BY DEF Paths, Object
<1>3. CASE p.sel = "whole"
  <2>1. DOMAIN Target(o, p) = 0 .. o.width - 1
    BY <1>3 DEF Target
  <2>2. QED
    BY <1>1, <1>2, <1>3, <2>1
<1>4. CASE p.sel = "bit"
  <2>1. DOMAIN Target(o, p) = 0 .. 1 - 1
    BY <1>4 DEF Target
  <2>2. Cardinality(0 .. 1 - 1) = 1
    BY <1>1, 1 \in Nat \ {0}
  <2>3. QED
    BY <1>4, <2>1, <2>2
<1>5. CASE p.sel = "range"
  <2>1. DOMAIN Target(o, p) = 0 .. SliceWidth(p) - 1
    BY <1>5 DEF Target
  <2>2. QED
    BY <1>1, <1>5, <2>1, SliceBits
<1>6. QED
  BY <1>2, <1>3, <1>4, <1>5

\* What a walk over a range reaches is a stretch of it from its right end.
LEMMA ReachedIsPrefix ==
  ASSUME NEW o, Object(o), NEW p \in Paths, IsSlice(p)
  PROVE  /\ Cardinality(Reached(o, p)) \in 0 .. SliceWidth(p)
         /\ Reached(o, p) = 0 .. Cardinality(Reached(o, p)) - 1
<1> DEFINE w == SliceWidth(p)
           n == IF o.lang # "vlog" \/ p.name # "object" \/ p.r >= o.width THEN 0
                ELSE IF p.l > p.r /\ p.l >= o.width THEN o.width - p.r ELSE w
<1>1. /\ p.l \in Nat /\ p.r \in Nat /\ o.width \in Nat /\ w \in Nat \ {0}
      /\ w = IF p.l > p.r THEN p.l - p.r + 1 ELSE p.r - p.l + 1
  BY SliceBits DEF Paths, Object, SliceWidth
<1>2. n \in 0 .. w
  BY <1>1
<1>3. ASSUME NEW i \in 0 .. w - 1
      PROVE  i \in Reached(o, p) <=> i < n
  <2>1. i \in 0 .. i /\ 0 \in 0 .. i /\ i \in Nat /\ SliceBit(p, 0) = p.r
    BY <1>1 DEF SliceBit
  <2>2. CASE o.lang = "vlog" /\ p.name = "object" /\ p.l > p.r
    <3>1. \A j \in 0 .. i : SliceBit(p, j) = p.r + j
      BY <2>2 DEF SliceBit
    <3>2. (\A j \in 0 .. i : SliceBit(p, j) < o.width) <=> p.r + i < o.width
      BY <1>1, <2>1, <3>1
    <3>3. i < n <=> p.r + i < o.width
      BY <1>1, <1>3, <2>2
    <3>4. QED
      BY <1>3, <2>2, <3>2, <3>3 DEF Reached
  <2>3. CASE o.lang = "vlog" /\ p.name = "object" /\ ~(p.l > p.r)
    <3>1. \A j \in 0 .. i : SliceBit(p, j) = p.r - j
      BY <2>3 DEF SliceBit
    <3>2. (\A j \in 0 .. i : SliceBit(p, j) < o.width) <=> p.r < o.width
      BY <1>1, <2>1, <3>1
    <3>3. i < n <=> p.r < o.width
      BY <1>1, <1>3, <2>3
    <3>4. QED
      BY <1>3, <2>3, <3>2, <3>3 DEF Reached
  <2>4. CASE ~(o.lang = "vlog" /\ p.name = "object")
    BY <2>1, <2>4 DEF Reached
  <2>5. QED
    BY <2>2, <2>3, <2>4
<1>4. Reached(o, p) \subseteq 0 .. w - 1
  BY DEF Reached
<1> HIDE DEF n, w
<1>5. Reached(o, p) = 0 .. n - 1
  <2>1. \A i \in 0 .. n - 1 : i \in 0 .. w - 1 /\ i < n
    BY <1>1, <1>2
  <2>2. \A i \in 0 .. w - 1 : i < n => i \in 0 .. n - 1
    BY <1>1, <1>2
  <2>3. QED
    BY <1>3, <1>4, <2>1, <2>2
<1>6. Cardinality(0 .. n - 1) = n
  <2>1. CASE n = 0
    <3>1. 0 .. n - 1 = {}
      BY <2>1
    <3>2. QED
      BY <2>1, <3>1, FS_EmptySet
  <2>2. CASE n # 0
    BY <1>1, <1>2, <2>2, IntervalCount
  <2>3. QED
    BY <2>1, <2>2
<1>7. QED
  BY <1>2, <1>5, <1>6 DEF w

LEMMA ReachedIsLogic ==
  ASSUME NEW o, Object(o), NEW p \in Paths, IsSlice(p)
  PROVE  /\ Cardinality(Reached(o, p)) \in Nat
         /\ \A i \in 0 .. Cardinality(Reached(o, p)) - 1 : o.val[SliceBit(p, i)] \in Logic
         /\ \A i \in Reached(o, p) : o.val[SliceBit(p, i)] \in Logic
<1>1. \A i \in Reached(o, p) : SliceBit(p, i) \in 0 .. o.width - 1
  BY ReachedBits, AskedInObject DEF TargetBits, ReachedTarget
<1>2. \A i \in Reached(o, p) : o.val[SliceBit(p, i)] \in Logic
  BY <1>1 DEF Object
<1>3. QED
  BY <1>2, ReachedIsPrefix, SliceBits

-----------------------------------------------------------------------------
(* Each backend is an instance with operators of its own over HdlSim: they  *)
(* are HdlSim's.                                                            *)

LEMMA QuestaCounts == \A S : Questa!Cardinality(S) = Cardinality(S)
BY DEF Questa!Cardinality, Cardinality

LEMMA QuestaSim ==
  /\ \A name, sel, l, r : Questa!Path(name, sel, l, r) = Path(name, sel, l, r)
  /\ \A p : Questa!IsSlice(p) = IsSlice(p)
  /\ \A p : Questa!SliceWidth(p) = SliceWidth(p)
  /\ \A p : Questa!LastElement(p) = LastElement(p)
  /\ \A o, p : Questa!InReach(o, p) = InReach(o, p)
  /\ \A o, p : Questa!VlogResolves(o, p) = VlogResolves(o, p)
  /\ \A o, p : Questa!Target(o, p) = Target(o, p)
  /\ \A t : Questa!TooWide(t) = TooWide(t)
  /\ \A o, p : Questa!Reached(o, p) = Reached(o, p)
  /\ \A o, p : Questa!ReachedTarget(o, p) = ReachedTarget(o, p)
  /\ \A o, p : Questa!AllReached(o, p) = AllReached(o, p)
  /\ \A p, i : Questa!SliceBit(p, i) = SliceBit(p, i)
  /\ \A o, t, value, flag :
       Questa!PutValue(o, t, value, flag) = PutValue(o, t, value, flag)
  /\ \A o, t, value : Questa!GetValue(o, t, value) = GetValue(o, t, value)
  /\ \A ok, o, value : Questa!Answer(ok, o, value) = Answer(ok, o, value)
  /\ \A n, char, value :
       Questa!FillFromTheLeft(n, char, value) = FillFromTheLeft(n, char, value)
  /\ \A value : Questa!ClearedAllButLast(value) = ClearedAllButLast(value)
  /\ \A n : Questa!Chunks(n) = Chunks(n)
BY QuestaCounts
   DEF Questa!Path, Path, Questa!IsSlice, IsSlice, Questa!SliceWidth, SliceWidth,
       Questa!LastElement, LastElement, Questa!InReach, InReach, Questa!VlogResolves,
       VlogResolves, Questa!Target, Target, Questa!TooWide, TooWide, Questa!Reached,
       Reached, Questa!ReachedTarget, ReachedTarget, Questa!AllReached, AllReached,
       Questa!SliceBit, SliceBit, Questa!PutValue, PutValue, Questa!GetValue, GetValue,
       Questa!Answer, Answer, Questa!FillFromTheLeft, FillFromTheLeft,
       Questa!ClearedAllButLast, ClearedAllButLast, Questa!Chunks, Chunks,
       Questa!TargetBits, TargetBits, Questa!ChunkEnd, ChunkEnd, Questa!BitsInChunk,
       BitsInChunk, Questa!MAX_WIDTH, MAX_WIDTH

LEMMA XceliumCounts == \A S : Xcelium!Cardinality(S) = Cardinality(S)
BY DEF Xcelium!Cardinality, Cardinality

LEMMA XceliumSim ==
  /\ \A name, sel, l, r : Xcelium!Path(name, sel, l, r) = Path(name, sel, l, r)
  /\ \A p : Xcelium!IsSlice(p) = IsSlice(p)
  /\ \A p : Xcelium!SliceWidth(p) = SliceWidth(p)
  /\ \A p : Xcelium!LastElement(p) = LastElement(p)
  /\ \A o, p : Xcelium!InReach(o, p) = InReach(o, p)
  /\ \A o, p : Xcelium!VlogResolves(o, p) = VlogResolves(o, p)
  /\ \A o, p : Xcelium!Target(o, p) = Target(o, p)
  /\ \A t : Xcelium!TooWide(t) = TooWide(t)
  /\ \A o, p : Xcelium!Reached(o, p) = Reached(o, p)
  /\ \A o, p : Xcelium!ReachedTarget(o, p) = ReachedTarget(o, p)
  /\ \A o, p : Xcelium!AllReached(o, p) = AllReached(o, p)
  /\ \A p, i : Xcelium!SliceBit(p, i) = SliceBit(p, i)
  /\ \A o, t, value, flag :
       Xcelium!PutValue(o, t, value, flag) = PutValue(o, t, value, flag)
  /\ \A o, t, value : Xcelium!GetValue(o, t, value) = GetValue(o, t, value)
  /\ \A ok, o, value : Xcelium!Answer(ok, o, value) = Answer(ok, o, value)
  /\ \A n, char, value :
       Xcelium!FillFromTheLeft(n, char, value) = FillFromTheLeft(n, char, value)
  /\ \A value : Xcelium!ClearedAllButLast(value) = ClearedAllButLast(value)
  /\ \A n : Xcelium!Chunks(n) = Chunks(n)
BY XceliumCounts
   DEF Xcelium!Path, Path, Xcelium!IsSlice, IsSlice, Xcelium!SliceWidth, SliceWidth,
       Xcelium!LastElement, LastElement, Xcelium!InReach, InReach, Xcelium!VlogResolves,
       VlogResolves, Xcelium!Target, Target, Xcelium!TooWide, TooWide, Xcelium!Reached,
       Reached, Xcelium!ReachedTarget, ReachedTarget, Xcelium!AllReached, AllReached,
       Xcelium!SliceBit, SliceBit, Xcelium!PutValue, PutValue, Xcelium!GetValue,
       GetValue, Xcelium!Answer, Answer, Xcelium!FillFromTheLeft, FillFromTheLeft,
       Xcelium!ClearedAllButLast, ClearedAllButLast, Xcelium!Chunks, Chunks,
       Xcelium!TargetBits, TargetBits, Xcelium!ChunkEnd, ChunkEnd, Xcelium!BitsInChunk,
       BitsInChunk, Xcelium!MAX_WIDTH, MAX_WIDTH

LEMMA VcsCounts == \A S : Vcs!Cardinality(S) = Cardinality(S)
BY DEF Vcs!Cardinality, Cardinality

LEMMA VcsSim ==
  /\ \A name, sel, l, r : Vcs!Path(name, sel, l, r) = Path(name, sel, l, r)
  /\ \A p : Vcs!IsSlice(p) = IsSlice(p)
  /\ \A p : Vcs!SliceWidth(p) = SliceWidth(p)
  /\ \A p : Vcs!LastElement(p) = LastElement(p)
  /\ \A o, p : Vcs!InReach(o, p) = InReach(o, p)
  /\ \A o, p : Vcs!VlogResolves(o, p) = VlogResolves(o, p)
  /\ \A o, p : Vcs!Target(o, p) = Target(o, p)
  /\ \A t : Vcs!TooWide(t) = TooWide(t)
  /\ \A o, p : Vcs!Reached(o, p) = Reached(o, p)
  /\ \A o, p : Vcs!ReachedTarget(o, p) = ReachedTarget(o, p)
  /\ \A o, p : Vcs!AllReached(o, p) = AllReached(o, p)
  /\ \A p, i : Vcs!SliceBit(p, i) = SliceBit(p, i)
  /\ \A o, t, value, flag :
       Vcs!PutValue(o, t, value, flag) = PutValue(o, t, value, flag)
  /\ \A o, t, value : Vcs!GetValue(o, t, value) = GetValue(o, t, value)
  /\ \A ok, o, value : Vcs!Answer(ok, o, value) = Answer(ok, o, value)
  /\ \A n, char, value :
       Vcs!FillFromTheLeft(n, char, value) = FillFromTheLeft(n, char, value)
  /\ \A value : Vcs!ClearedAllButLast(value) = ClearedAllButLast(value)
  /\ \A n : Vcs!Chunks(n) = Chunks(n)
BY VcsCounts
   DEF Vcs!Path, Path, Vcs!IsSlice, IsSlice, Vcs!SliceWidth, SliceWidth,
       Vcs!LastElement, LastElement, Vcs!InReach, InReach, Vcs!VlogResolves,
       VlogResolves, Vcs!Target, Target, Vcs!TooWide, TooWide, Vcs!Reached, Reached,
       Vcs!ReachedTarget, ReachedTarget, Vcs!AllReached, AllReached, Vcs!SliceBit,
       SliceBit, Vcs!PutValue, PutValue, Vcs!GetValue, GetValue, Vcs!Answer, Answer,
       Vcs!FillFromTheLeft, FillFromTheLeft, Vcs!ClearedAllButLast, ClearedAllButLast,
       Vcs!Chunks, Chunks, Vcs!TargetBits, TargetBits, Vcs!ChunkEnd, ChunkEnd,
       Vcs!BitsInChunk, BitsInChunk, Vcs!MAX_WIDTH, MAX_WIDTH

-----------------------------------------------------------------------------
(* What a call may do to the object.                                        *)

\* The calls that can serve a path at all: VCS resolves ranges only downwards,
\* and no VHDL in its plain build.
Served(p) ==
  InReach(obj, p) /\ (tool \in Vcs!Builds => Vcs!Language(tool, obj, p) # "none")

\* Questa deposits on elements of a VHDL array where it is told to force.
Done(flag, done) ==
  \/ done = flag
  \/ done = "deposit" /\ flag = "force" /\ tool = "questa" /\ obj.lang = "vhdl"

\* A deposit, force or release of bits the path asks for, all of them if the
\* path is served, which is what success means.
Writes(p, flag, a) ==
  \E bits \in SUBSET Asked(p), done \in Flags :
    /\ PutOn(obj, a.obj, bits, done)
    /\ Served(p) => bits = Asked(p)
    /\ Done(flag, done)

FlagOf(call) ==
  CASE call = "deposit" -> "deposit"
    [] call = "force"   -> "force"
    [] call \in {"release", "release_and_read"} -> "release"

\* The paths uvm_hdl_check_path knows: not the ranges that Questa and Xcelium
\* take apart into bits.
Checks(p) ==
  Served(p) /\ ~(IsSlice(p) /\ obj.lang = "vlog" /\ tool \in {"questa", "xcelium"})

Looking == {"check_path", "read"}

\* What every answer of a backend to a meaningful call is like: its type, what
\* it did to the object, and what its result says of the path.
Outcome(call, p, a) ==
  /\ a.ok \in {0, 1} /\ a.value \in Buffer
  /\ a.partsel \in {0, 1} /\ a.finish \in BOOLEAN
  /\ call \in Looking => a.obj = obj
  /\ call \notin Looking => Writes(p, FlagOf(call), a)
  /\ a.ok = 1 => Served(p) \/ (call = "read" /\ LeftToChance(p))
  /\ Checks(p) /\ (WiderThanValue(p) => call = "check_path") =>
       (a.ok = 1 /\ ~a.finish) \/ (a.finish /\ MayDie(call))
  /\ ~Checks(p) /\ call = "check_path" => a.ok = 0
  /\ WiderThanValue(p) /\ call = "read" => a.ok = 0 \/ LeftToChance(p)

\* The answer of a deposit, a force or a release.
SetAnswer(p, flag, value, a) ==
  /\ a.ok \in {0, 1} /\ a.value = value
  /\ a.partsel \in {0, 1} /\ a.finish \in BOOLEAN
  /\ Writes(p, flag, a)
  /\ a.ok = 1 <=> Served(p)
  /\ Served(p) => ~a.finish

LEMMA AskedNow == ASSUME NEW p PROVE Asked(p) = AskedOf(obj, p)
BY DEF Asked, AskedOf

LEMMA WritesNothing ==
  ASSUME Object(obj), NEW p, ~Served(p), NEW flag \in Flags, NEW a, a.obj = obj
  PROVE  Writes(p, flag, a)
BY NothingPutOn DEF Writes, Done

\* A value that is not too narrow for a path has a bit for each of its own.
LEMMA ValueReaches ==
  ASSUME Object(obj), NEW p \in Paths, p.name = "object", ~WiderThanValue(p),
         NEW value \in Buffer
  PROVE  \A i \in DOMAIN Target(obj, p) : i \in 0 .. MAX_WIDTH - 1 /\ value[i] \in Logic
<1> DEFINE n == Cardinality(DOMAIN Target(obj, p))
<1>1. n \in Nat /\ DOMAIN Target(obj, p) = 0 .. n - 1
  BY TargetDomain
<1>2. n <= MAX_WIDTH /\ MAX_WIDTH \in Nat
  BY <1>1, ChunkAssumption DEF WiderThanValue, TooWide, MAX_WIDTH
<1> HIDE DEF n
<1>3. QED
  BY <1>1, <1>2 DEF Buffer

LEMMA ReachedInTarget ==
  ASSUME NEW o, NEW p, IsSlice(p), NEW i \in Reached(o, p)
  PROVE  i \in DOMAIN Target(o, p) /\ p.name = "object"
BY DEF Reached, Target, IsSlice

LEMMA PutOnTarget ==
  ASSUME Object(obj), NEW p \in Paths, Served(p),
         NEW flag \in Flags, NEW done \in Flags, Done(flag, done),
         NEW source,
         done = "release" \/ \A i \in DOMAIN Target(obj, p) : source[i] \in Logic,
         NEW a, a.obj = PutValue(obj, Target(obj, p), source, done)
  PROVE  Writes(p, flag, a)
<1>1. TargetBits(Target(obj, p)) = Asked(p) /\ Asked(p) \subseteq 0 .. obj.width - 1
  BY InReachAsksForTarget, AskedNow, AskedInObject DEF Served
<1>2. PutOn(obj, a.obj, Asked(p), done)
  BY <1>1, PutValuePutsOn
<1>3. QED
  BY <1>2 DEF Writes

LEMMA PutOnReached ==
  ASSUME Object(obj), NEW p \in Paths, IsSlice(p), ~WiderThanValue(p),
         Served(p) => AllReached(obj, p),
         NEW value \in Buffer, NEW flag \in Flags,
         NEW a, a.obj = PutValue(obj, ReachedTarget(obj, p), value, flag)
  PROVE  Writes(p, flag, a)
<1> DEFINE bits == TargetBits(ReachedTarget(obj, p))
<1>1. bits \in SUBSET Asked(p) /\ Asked(p) \subseteq 0 .. obj.width - 1
  BY ReachedBits, AskedNow, AskedInObject
<1>2. \A i \in DOMAIN ReachedTarget(obj, p) : value[i] \in Logic
  BY ReachedInTarget, ValueReaches DEF ReachedTarget
<1>3. PutOn(obj, a.obj, bits, flag)
  BY <1>1, <1>2, PutValuePutsOn
<1>4. Served(p) => bits = Asked(p)
  BY ReachedBits, AskedNow
<1> HIDE DEF bits
<1>5. QED
  BY <1>1, <1>3, <1>4 DEF Writes, Done

-----------------------------------------------------------------------------
(* The values that calls give back.                                         *)

LEMMA ChunkOfBit ==
  ASSUME NEW i \in Nat
  PROVE  /\ i \div CHUNK \in Nat /\ i % CHUNK \in 0 .. CHUNK - 1
         /\ i = (i \div CHUNK) * CHUNK + (i % CHUNK)
         /\ (i \div CHUNK) * CHUNK \in 0 .. i
<1>1. CHUNK \in Nat \ {0}
  BY ChunkAssumption
<1>2. i \div CHUNK \in Int /\ i % CHUNK \in 0 .. CHUNK - 1
  BY <1>1
<1>3. i = CHUNK * (i \div CHUNK) + (i % CHUNK)
  BY <1>1
<1>4. i \div CHUNK \in Nat
  BY <1>1
<1>5. CHUNK * (i \div CHUNK) = (i \div CHUNK) * CHUNK
  BY <1>1, <1>2
<1>6. QED
  BY <1>1, <1>2, <1>3, <1>4, <1>5

LEMMA GotValueIsValue ==
  ASSUME NEW o, Object(o), NEW p \in Paths, InReach(o, p), NEW value \in Buffer
  PROVE  GetValue(o, Target(o, p), value) \in Buffer
<1> DEFINE t == Target(o, p)
           n == Cardinality(DOMAIN t)
<1>1. DOMAIN t = 0 .. n - 1 /\ n \in Nat
  BY TargetDomain
<1>2. \A i \in DOMAIN t : t[i] \in 0 .. o.width - 1
  BY InReachAsksForTarget, AskedInObject DEF TargetBits
<1> HIDE DEF t
<1>3. \A i \in 0 .. MAX_WIDTH - 1 : i < n => o.val[t[i]] \in Logic
  BY <1>1, <1>2 DEF Object
<1>4. \A i \in 0 .. MAX_WIDTH - 1 : value[i] \in Logic
  BY DEF Buffer
<1>5. 0 \in Logic
  BY DEF Logic
<1> DEFINE bit(i) ==
      IF i < n THEN o.val[t[i]] ELSE IF i < ChunkEnd(n) THEN 0 ELSE value[i]
<1>6. \A i \in 0 .. MAX_WIDTH - 1 : bit(i) \in Logic
  BY <1>3, <1>4, <1>5
<1>7. GetValue(o, Target(o, p), value) = [i \in 0 .. MAX_WIDTH - 1 |-> bit(i)]
  BY DEF GetValue, t
<1> HIDE DEF bit
<1>8. QED
  BY <1>6, <1>7 DEF Buffer

LEMMA FilledIsValue ==
  ASSUME NEW n \in Nat, NEW char, \A k \in 0 .. n - 1 : char[k] \in Logic,
         NEW value \in Buffer
  PROVE  FillFromTheLeft(n, char, value) \in Buffer
<1>1. CHUNK \in Nat \ {0} /\ 0 \in Logic
  BY ChunkAssumption DEF Logic
<1>2. ASSUME NEW i \in 0 .. MAX_WIDTH - 1, NEW j, j = i \div CHUNK,
             ~(i - j * CHUNK >= BitsInChunk(n, j))
      PROVE  char[j * CHUNK + BitsInChunk(n, j) - 1 - (i - j * CHUNK)] \in Logic
  <2> DEFINE first == j * CHUNK
  <2>1. i \in Nat /\ first \in 0 .. i
    BY <1>2, ChunkOfBit
  <2>2. /\ BitsInChunk(n, j) = IF n - first < CHUNK THEN n - first ELSE CHUNK
        /\ ~(i - first >= BitsInChunk(n, j))
    BY <1>2 DEF BitsInChunk
  <2> HIDE DEF first
  <2>3. first + BitsInChunk(n, j) - 1 - (i - first) \in 0 .. n - 1
    BY <1>1, <2>1, <2>2
  <2>4. QED
    BY <2>3 DEF first
<1>3. \A i \in 0 .. MAX_WIDTH - 1 : value[i] \in Logic
  BY DEF Buffer
<1> DEFINE bit(i) ==
      LET j == i \div CHUNK
      IN  IF i >= ChunkEnd(n) THEN value[i]
          ELSE IF i - j * CHUNK >= BitsInChunk(n, j) THEN 0
          ELSE char[j * CHUNK + BitsInChunk(n, j) - 1 - (i - j * CHUNK)]
<1>4. \A i \in 0 .. MAX_WIDTH - 1 : bit(i) \in Logic
  BY <1>1, <1>2, <1>3
<1>5. FillFromTheLeft(n, char, value) = [i \in 0 .. MAX_WIDTH - 1 |-> bit(i)]
  BY DEF FillFromTheLeft
<1> HIDE DEF bit
<1>6. QED
  BY <1>4, <1>5 DEF Buffer

LEMMA ClearedIsValue ==
  ASSUME NEW value \in Buffer
  PROVE  ClearedAllButLast(value) \in Buffer
BY DEF ClearedAllButLast, Buffer, Logic

-----------------------------------------------------------------------------
(* Questa.                                                                  *)

LEMMA LastElementIsPath ==
  ASSUME NEW p \in Paths
  PROVE  LastElement(p) \in Paths /\ ~IsSlice(LastElement(p))
<1>1. PICK name \in {"object", "nothing"}, sel \in {"whole", "bit", "range"},
           l \in Nat, r \in Nat :
        p = [name |-> name, sel |-> sel, l |-> l, r |-> r]
  BY DEF Paths
<1> DEFINE q == [p EXCEPT !.sel = "bit"]
<1>2. LastElement(p) = [q EXCEPT !.r = l]
  BY <1>1 DEF LastElement
<1>3. q = [name |-> name, sel |-> "bit", l |-> l, r |-> r]
  BY <1>1
<1> HIDE DEF q
<1>4. LastElement(p) = [name |-> name, sel |-> "bit", l |-> l, r |-> l]
  BY <1>2, <1>3
<1>5. QED
  BY <1>4 DEF Paths, IsSlice

\* Objects of the same shape are reached by the same paths.
LEMMA SameShape ==
  ASSUME NEW o, NEW n, n.lang = o.lang, n.width = o.width, NEW p
  PROVE  /\ InReach(n, p) = InReach(o, p) /\ VlogResolves(n, p) = VlogResolves(o, p)
         /\ Target(n, p) = Target(o, p) /\ Reached(n, p) = Reached(o, p)
BY DEF InReach, VlogResolves, Target, Reached

LEMMA ElementsAreLogic ==
  ASSUME NEW o, Object(o), NEW k \in 0 .. o.width - 1
  PROVE  /\ [j \in 0 .. o.width - 1 |-> o.val[o.width - 1 - j]][k] \in Logic
         /\ o.val[k] \in Logic
<1>1. o.width - 1 - k \in 0 .. o.width - 1
  BY DEF Object
<1>2. QED
  BY <1>1 DEF Object

LEMMA QuestaGetsVhdl ==
  ASSUME NEW o, Object(o), NEW p \in Paths, p.sel = "whole" \/ InReach(o, p),
         NEW value \in Buffer
  PROVE  \E v \in Buffer : Questa!uvm_register_get_vhdl(o, p, value) = Answer(1, o, v)
<1> DEFINE w == o.width
           vectors == [k \in 0 .. w - 1 |-> o.val[w - 1 - k]]
           incr == IF p.l > p.r THEN 1 ELSE -1
           bit == [i \in {0} |-> vectors[(w - 1) - p.l]]
           range == [i \in 0 .. SliceWidth(p) - 1 |-> vectors[(w - 1) - (p.l - i * incr)]]
<1>1. /\ w \in Nat \ {0} /\ p.l \in Nat /\ p.r \in Nat
      /\ p.sel \in {"whole", "bit", "range"}
      /\ p.sel # "whole" => p.l < w /\ p.r < w
  BY DEF Object, Paths, InReach
<1>2. \A k \in 0 .. w - 1 : vectors[k] \in Logic
  BY ElementsAreLogic
<1> DEFINE get == Questa!uvm_register_get_vhdl(o, p, value)
<1>3. CASE p.sel = "whole"
  <2>1. Cardinality(DOMAIN vectors) = w
    BY <1>1, IntervalCount
  <2>2. get = Answer(1, o, FillFromTheLeft(Cardinality(DOMAIN vectors), vectors, value))
    BY <1>3, QuestaSim, QuestaCounts
       DEF Questa!uvm_register_get_vhdl, Questa!string_to_vecval,
           Questa!vhdl_array_of_char2string
  <2> HIDE DEF vectors
  <2>3. QED
    BY <1>1, <1>2, <2>1, <2>2, FilledIsValue
<1>4. CASE p.sel = "bit"
  <2>1. Cardinality(DOMAIN bit) = 1
    BY FS_Singleton
  <2>2. get = Answer(1, o, FillFromTheLeft(Cardinality(DOMAIN bit), bit, value))
    BY <1>4, QuestaSim, QuestaCounts
       DEF Questa!uvm_register_get_vhdl, Questa!string_to_vecval,
           Questa!vhdl_array_of_char2string
  <2>3. \A k \in 0 .. 1 - 1 : bit[k] \in Logic
    <3>1. (w - 1) - p.l \in 0 .. w - 1
      BY <1>1, <1>4
    <3>2. bit[0] \in Logic
      BY <1>2, <3>1
    <3>3. QED
      BY <3>2
  <2> HIDE DEF bit
  <2>4. QED
    BY <2>1, <2>2, <2>3, FilledIsValue
<1>5. CASE p.sel = "range"
  <2>1. Cardinality(DOMAIN range) = SliceWidth(p) /\ SliceWidth(p) \in Nat
    BY SliceBits, IntervalCount
  <2>2. get = Answer(1, o, FillFromTheLeft(Cardinality(DOMAIN range), range, value))
    BY <1>5, QuestaSim, QuestaCounts
       DEF Questa!uvm_register_get_vhdl, Questa!string_to_vecval,
           Questa!vhdl_array_of_char2string
  <2>3. \A i \in 0 .. SliceWidth(p) - 1 : (w - 1) - (p.l - i * incr) \in 0 .. w - 1
    BY <1>1, <1>5 DEF SliceWidth
  <2>4. \A k \in 0 .. SliceWidth(p) - 1 : range[k] \in Logic
    BY <1>2, <2>3
  <2> HIDE DEF range
  <2>5. QED
    BY <2>1, <2>2, <2>4, FilledIsValue
<1>6. QED
  BY <1>1, <1>3, <1>4, <1>5

LEMMA QuestaReads ==
  ASSUME NEW o, Object(o), NEW p \in Paths,
         o.lang = "vhdl" /\ p.sel # "whole" /\ p.name = "object" => InReach(o, p),
         NEW value \in Buffer, NEW ps \in {0, 1},
         NEW a \in Questa!uvm_hdl_read(o, p, value, ps)
  PROVE  /\ a.ok \in {0, 1} /\ a.value \in Buffer
         /\ a.partsel \in {0, 1} /\ a.finish \in BOOLEAN /\ ~a.finish /\ a.obj = o
         /\ a.ok = 1 => InReach(o, p)
         /\ InReach(o, p) /\ ~TooWide(Target(o, p)) => a.ok = 1
         /\ InReach(o, p) /\ o.lang = "vlog" /\ ~IsSlice(p) /\ TooWide(Target(o, p))
              => a.ok = 0
<1> DEFINE vhdl == o.lang = "vhdl" /\ p.name = "object"
           cleared == IF ps = 1 THEN value ELSE ClearedAllButLast(value)
<1>1. cleared \in Buffer
  BY ClearedIsValue
<1>2. /\ o.lang \in {"vlog", "vhdl"} /\ o.width \in Nat \ {0}
      /\ p.sel = "whole" => p.l = 0 /\ p.r = 0
  BY DEF Object, Paths
<1>3. CASE vhdl
  <2>1. p.sel = "whole" \/ InReach(o, p)
    BY <1>3
  <2>2. InReach(o, p)
    BY <1>3, <2>1 DEF InReach, Object, Paths
  <2>3. PICK v \in Buffer : Questa!uvm_register_get_vhdl(o, p, value) = Answer(1, o, v)
    BY <2>1, QuestaGetsVhdl
  <2>4. a = Questa!Keeping(Answer(1, o, v), ps)
    BY <1>3, <2>3 DEF Questa!uvm_hdl_read, Questa!uvm_is_vhdl_path
  <2>5. a.ok = 1 /\ a.obj = o /\ a.value = v /\ a.partsel = ps /\ a.finish = FALSE
    BY <2>4 DEF Questa!Keeping, Answer
  <2>6. QED
    BY <1>3, <2>2, <2>5
<1>4. CASE ~vhdl /\ IsSlice(p)
  <2> DEFINE got == Cardinality(Reached(o, p))
             bit(i) == o.val[SliceBit(p, i)]
             last == IF got = 0 THEN sv_0 ELSE bit(got - 1)
             v == [i \in 0 .. MAX_WIDTH - 1 |->
                     IF i < got THEN bit(i)
                     ELSE IF i = got /\ ~AllReached(o, p) THEN last ELSE cleared[i]]
             ok == IF AllReached(o, p) THEN 1 ELSE 0
             left == IF AllReached(o, p) THEN 0 ELSE 1
  <2>1. a = Questa!Keeping(Answer(ok, o, v), left)
    BY <1>4, QuestaSim, QuestaCounts
       DEF Questa!uvm_hdl_read, Questa!uvm_is_vhdl_path, Questa!uvm_hdl_get_vlog,
           Questa!uvm_hdl_get_vlog_partsel, Questa!Keeping, Questa!MAX_WIDTH, MAX_WIDTH,
           Questa!sv_0, sv_0
  <2>2. \A i \in 0 .. got - 1 : bit(i) \in Logic
    BY <1>4, ReachedIsLogic
  <2>3. got \in Nat
    BY <1>4, ReachedIsLogic
  <2>4. last \in Logic
    BY <2>2, <2>3 DEF Logic, sv_0
  <2> HIDE DEF got, bit, last, cleared
  <2>5. v \in Buffer
    BY <1>1, <2>2, <2>3, <2>4 DEF Buffer
  <2> HIDE DEF v
  <2>6. /\ a.ok = ok /\ a.obj = o /\ a.value = v /\ a.partsel = left
        /\ a.finish \in BOOLEAN /\ ~a.finish
    BY <2>1 DEF Questa!Keeping, Answer
  <2>7. AllReached(o, p) => InReach(o, p)
    BY <1>4, ReachedBits
  <2>8. InReach(o, p) => AllReached(o, p)
    BY <1>2, <1>4, ReachedBits DEF InReach
  <2>9. QED
    BY <1>4, <2>5, <2>6, <2>7, <2>8
<1>5. CASE ~vhdl /\ ~IsSlice(p)
  <2> DEFINE served == VlogResolves(o, p) /\ ~TooWide(Target(o, p))
             ok == IF served THEN 1 ELSE 0
             v == IF served THEN GetValue(o, Target(o, p), cleared) ELSE cleared
  <2>1. a = Questa!Keeping(Answer(ok, o, v), ps)
    BY <1>5, QuestaSim
       DEF Questa!uvm_hdl_read, Questa!uvm_is_vhdl_path, Questa!uvm_hdl_get_vlog,
           Questa!Keeping
  <2>2. v \in Buffer
    BY <1>1, GotValueIsValue DEF VlogResolves
  <2> HIDE DEF v
  <2>3. /\ a.ok = ok /\ a.obj = o /\ a.value = v /\ a.partsel = ps
        /\ a.finish \in BOOLEAN /\ ~a.finish
    BY <2>1 DEF Questa!Keeping, Answer
  <2>4. InReach(o, p) = VlogResolves(o, p)
    BY <1>2, <1>5 DEF InReach, VlogResolves
  <2>5. QED
    BY <2>2, <2>3, <2>4
<1>6. QED
  BY <1>3, <1>4, <1>5

LEMMA QuestaSets ==
  ASSUME Object(obj), tool = "questa", NEW p \in Paths, Meaningful("force", p),
         NEW value \in Buffer, NEW flag \in Flags, NEW ps \in {0, 1},
         NEW a \in Questa!Set(obj, p, value, ps, flag)
  PROVE  SetAnswer(p, flag, value, a)
<1> DEFINE vhdl == obj.lang = "vhdl" /\ p.name = "object"
           w == obj.width
<1>1. /\ obj.lang \in {"vlog", "vhdl"} /\ w \in Nat \ {0}
      /\ p.sel \in {"whole", "bit", "range"}
      /\ p.sel = "whole" => p.l = 0 /\ p.r = 0
  BY DEF Object, Paths
<1>2. ~WiderThanValue(p) /\ (vhdl /\ p.sel # "whole" => InReach(obj, p))
  BY DEF Meaningful
<1>3. Served(p) <=> InReach(obj, p)
  BY DEF Served, Vcs!Builds
<1>4. CASE vhdl
  <2> DEFINE string == [k \in 0 .. w - 1 |-> value[w - 1 - k]]
             digit(k) == IF string[k] = sv_1 THEN sv_1 ELSE sv_0
             source ==
               CASE p.sel = "whole" -> [i \in 0 .. w - 1 |-> string[(w - 1) - i]]
                 [] p.sel = "bit"   -> [i \in {0} |-> digit((w - 1) - p.l)]
                 [] p.sel = "range" ->
                            [i \in 0 .. SliceWidth(p) - 1 |-> digit((w - i) - 1)]
             done == IF p.sel = "whole" THEN flag
                     ELSE IF flag = "release" THEN "release" ELSE "deposit"
             put == PutValue(obj, Target(obj, p), source, done)
  <2>1. a = Questa!Keeping(Answer(1, put, value), ps)
    BY <1>4, QuestaSim
       DEF Questa!Set, Questa!uvm_is_vhdl_path, Questa!uvm_register_set_vhdl,
           Questa!vecval_to_string, Questa!sv_0, Questa!sv_1, sv_0, sv_1
  <2>2. Served(p)
    BY <1>1, <1>2, <1>3, <1>4 DEF InReach
  <2>3. done \in Flags /\ Done(flag, done)
    BY <1>4 DEF Flags, Done
  <2>4. \A i \in DOMAIN Target(obj, p) : source[i] \in Logic
    <3>1. \A k : digit(k) \in Logic
      BY DEF Logic, sv_0, sv_1
    <3>2. p.sel = "whole" => \A i \in 0 .. w - 1 : string[(w - 1) - i] = value[i]
      BY <1>1
    <3>3. p.sel = "whole" => DOMAIN Target(obj, p) = 0 .. w - 1
      BY DEF Target
    <3>4. \A i \in DOMAIN Target(obj, p) : value[i] \in Logic
      BY <1>2, <1>4, ValueReaches
    <3> HIDE DEF string, digit
    <3>5. CASE p.sel = "whole"
      BY <3>2, <3>3, <3>4, <3>5
    <3>6. CASE p.sel = "bit"
      BY <3>1, <3>6 DEF Target
    <3>7. CASE p.sel = "range"
      BY <3>1, <3>7 DEF Target
    <3>8. QED
      BY <1>1, <3>5, <3>6, <3>7
  <2> HIDE DEF source, done
  <2>5. a.ok = 1 /\ a.obj = put /\ a.value = value /\ a.partsel = ps /\ a.finish = FALSE
    BY <2>1 DEF Questa!Keeping, Answer
  <2>6. Writes(p, flag, a)
    BY <2>2, <2>3, <2>4, <2>5, PutOnTarget
  <2>7. QED
    BY <2>2, <2>5, <2>6 DEF SetAnswer
<1>5. CASE ~vhdl /\ IsSlice(p)
  <2> DEFINE ok == IF AllReached(obj, p) THEN 1 ELSE 0
             put == PutValue(obj, ReachedTarget(obj, p), value, flag)
  <2>1. a = Questa!Keeping(Answer(ok, put, value), ps)
    BY <1>5, QuestaSim
       DEF Questa!Set, Questa!uvm_is_vhdl_path, Questa!uvm_hdl_set_vlog,
           Questa!uvm_hdl_set_vlog_partsel
  <2> HIDE DEF put
  <2>2. a.ok = ok /\ a.obj = put /\ a.value = value /\ a.partsel = ps /\ a.finish = FALSE
    BY <2>1 DEF Questa!Keeping, Answer
  <2>3. AllReached(obj, p) <=> Served(p)
    BY <1>1, <1>3, <1>5, ReachedBits DEF InReach
  <2>4. Writes(p, flag, a)
    BY <1>2, <1>5, <2>2, <2>3, PutOnReached DEF put
  <2>5. a.ok = 1 <=> Served(p)
    BY <2>2, <2>3
  <2>6. QED
    BY <2>2, <2>4, <2>5 DEF SetAnswer
<1>6. CASE ~vhdl /\ ~IsSlice(p)
  <2> DEFINE served == VlogResolves(obj, p)
             put == PutValue(obj, Target(obj, p), value, flag)
  <2>1. a = Questa!Keeping(IF served THEN Answer(1, put, value)
                            ELSE Answer(0, obj, value), ps)
    BY <1>6, QuestaSim
       DEF Questa!Set, Questa!uvm_is_vhdl_path, Questa!uvm_hdl_set_vlog
  <2>2. served <=> Served(p)
    BY <1>1, <1>3, <1>6 DEF InReach, VlogResolves
  <2> HIDE DEF put, served
  <2>3. /\ a.ok = IF served THEN 1 ELSE 0
        /\ a.obj = IF served THEN put ELSE obj
        /\ a.value = value /\ a.partsel = ps /\ a.finish = FALSE
    BY <2>1 DEF Questa!Keeping, Answer
  <2>4. CASE served
    <3>1. \A i \in DOMAIN Target(obj, p) : value[i] \in Logic
      BY <1>2, <1>3, <2>2, <2>4, ValueReaches DEF InReach
    <3>2. Writes(p, flag, a)
      BY <2>2, <2>3, <2>4, <3>1, PutOnTarget DEF put, Done
    <3>3. QED
      BY <2>2, <2>3, <2>4, <3>2 DEF SetAnswer
  <2>5. CASE ~served
    <3>1. ~Served(p) /\ a.ok = 0 /\ a.obj = obj
      BY <2>2, <2>3, <2>5
    <3>2. Writes(p, flag, a)
      BY <3>1, WritesNothing
    <3>3. a.ok = 1 <=> Served(p)
      BY <3>1
    <3>4. QED
      BY <2>3, <3>1, <3>2, <3>3 DEF SetAnswer
  <2>6. QED
    BY <2>4, <2>5
<1>7. QED
  BY <1>4, <1>5, <1>6

LEMMA SetOutcome ==
  ASSUME NEW call \in {"deposit", "force", "release"}, NEW p, Meaningful(call, p),
         NEW value \in Buffer, NEW a, SetAnswer(p, FlagOf(call), value, a)
  PROVE  Outcome(call, p, a)
<1>1. /\ a.ok \in {0, 1} /\ a.value \in Buffer
      /\ a.partsel \in {0, 1} /\ a.finish \in BOOLEAN
      /\ Writes(p, FlagOf(call), a)
  BY DEF SetAnswer
<1>2. a.ok = 1 => Served(p)
  BY DEF SetAnswer
<1>3. Checks(p) => a.ok = 1 /\ ~a.finish
  BY DEF SetAnswer, Checks
<1>4. call \notin Looking /\ call # "read" /\ call # "check_path"
  BY DEF Looking
<1>5. QED
  BY <1>1, <1>2, <1>3, <1>4 DEF Outcome

\* A release that is followed by a read of what is then there.
LEMMA ReleaseOutcome ==
  ASSUME NEW p, NEW a, NEW r,
         r.ok = 1 => Served(p), Writes(p, "release", r), a.obj = r.obj,
         a.ok \in {0, 1}, a.value \in Buffer, a.partsel \in {0, 1}, a.finish \in BOOLEAN,
         a.ok = 1 => Served(p),
         Checks(p) /\ ~WiderThanValue(p) =>
           (a.ok = 1 /\ ~a.finish) \/ (a.finish /\ MayDie("release_and_read"))
  PROVE  Outcome("release_and_read", p, a)
<1>1. Writes(p, FlagOf("release_and_read"), a)
  BY DEF Writes, FlagOf
<1>2. QED
  BY <1>1 DEF Outcome, Looking

LEMMA QuestaAnswers ==
  ASSUME Object(obj), partsel \in {0, 1}, tool = "questa",
         NEW call \in Calls, NEW p \in Paths, Meaningful(call, p),
         NEW value \in Buffer, NEW a \in Answers(call, p, value)
  PROVE  Outcome(call, p, a)
<1>1. /\ obj.lang \in {"vlog", "vhdl"} /\ obj.width \in Nat \ {0}
      /\ p.sel \in {"whole", "bit", "range"}
      /\ p.sel = "whole" => p.l = 0 /\ p.r = 0
  BY DEF Object, Paths
<1>2. obj.lang = "vhdl" /\ p.sel # "whole" /\ p.name = "object" => InReach(obj, p)
  BY DEF Meaningful
<1>3. /\ Served(p) <=> InReach(obj, p)
      /\ tool \notin Vcs!Builds
  BY DEF Served, Vcs!Builds
<1>4. Checks(p) <=> InReach(obj, p) /\ ~(IsSlice(p) /\ obj.lang = "vlog")
  BY <1>3 DEF Checks
<1>5. InReach(obj, p) => (WiderThanValue(p) <=> TooWide(Target(obj, p)))
  BY DEF WiderThanValue, InReach
<1>6. CASE call = "check_path"
  <2> DEFINE known == (obj.lang = "vhdl" /\ p.name = "object") \/ VlogResolves(obj, p)
  <2>1. a = Questa!Keeping(Answer(IF known THEN 1 ELSE 0, obj, value), partsel)
    BY <1>6, QuestaSim DEF Answers, Questa!uvm_hdl_check_path, Questa!uvm_is_vhdl_path
  <2>2. known <=> Checks(p)
    BY <1>1, <1>2, <1>4 DEF VlogResolves, InReach
  <2> HIDE DEF known
  <2>3. /\ a.ok = (IF known THEN 1 ELSE 0) /\ a.obj = obj /\ a.value = value
        /\ a.partsel = partsel /\ a.finish = FALSE
    BY <2>1 DEF Questa!Keeping, Answer
  <2>4. a.ok \in {0, 1} /\ (a.ok = 1 <=> Checks(p)) /\ (~Checks(p) => a.ok = 0)
    BY <2>2, <2>3
  <2>5. (a.ok = 1 => Served(p)) /\ (Checks(p) => a.ok = 1 /\ ~a.finish)
    BY <2>3, <2>4 DEF Checks
  <2>6. a.value \in Buffer /\ a.finish \in BOOLEAN /\ a.partsel \in {0, 1}
    BY <2>3
  <2>7. QED
    BY <1>6, <2>3, <2>4, <2>5, <2>6 DEF Outcome, Looking
<1>7. CASE call = "read"
  <2>1. a \in Questa!uvm_hdl_read(obj, p, value, partsel)
    BY <1>7 DEF Answers
  <2>2. /\ a.ok \in {0, 1} /\ a.value \in Buffer
        /\ a.partsel \in {0, 1} /\ a.finish \in BOOLEAN /\ ~a.finish /\ a.obj = obj
        /\ a.ok = 1 => InReach(obj, p)
        /\ InReach(obj, p) /\ ~TooWide(Target(obj, p)) => a.ok = 1
        /\ InReach(obj, p) /\ obj.lang = "vlog" /\ ~IsSlice(p) /\ TooWide(Target(obj, p))
             => a.ok = 0
    BY <1>2, <2>1, QuestaReads
  <2>3. WiderThanValue(p) => a.ok = 0
    BY <1>3, <1>5, <1>7, <2>2 DEF Meaningful
  <2>4. Checks(p) /\ ~WiderThanValue(p) => a.ok = 1
    BY <1>4, <1>5, <2>2
  <2>5. QED
    BY <1>3, <1>7, <2>2, <2>3, <2>4 DEF Outcome, Looking
<1>8. ASSUME call \notin Looking
      PROVE  Meaningful("force", p) /\ ~WiderThanValue(p)
  BY <1>8 DEF Meaningful, Looking
<1>9. CASE call \in {"deposit", "force", "release"}
  <2>1. call \notin Looking /\ FlagOf(call) \in Flags /\ FlagOf(call) = call
    BY <1>9 DEF Looking, FlagOf, Flags
  <2>2. a \in Questa!Set(obj, p, value, partsel, FlagOf(call))
    BY <1>9, <2>1
       DEF Answers, Questa!uvm_hdl_deposit, Questa!uvm_hdl_force, Questa!uvm_hdl_release
  <2>3. QED
    BY <1>8, <1>9, <2>1, <2>2, QuestaSets, SetOutcome
<1>10. CASE call = "release_and_read"
  <2>1. call \notin Looking /\ "release" \in Flags
    BY <1>10 DEF Looking, Flags
  <2>2. PICK r \in Questa!Set(obj, p, value, partsel, "release") :
          a \in IF r.ok = 0 THEN {r}
                ELSE IF Questa!uvm_is_vhdl_path(obj, p) \/ ~IsSlice(p)
                     THEN Questa!uvm_hdl_read(r.obj, p, r.value, partsel)
                ELSE Questa!uvm_hdl_read(r.obj, LastElement(p), r.value, partsel)
    BY <1>10, QuestaSim DEF Answers, Questa!uvm_hdl_release_and_read
  <2>3. SetAnswer(p, "release", value, r)
    BY <1>8, <2>1, <2>2, QuestaSets
  <2>4. /\ r.ok \in {0, 1} /\ r.value = value /\ (r.ok = 1 <=> Served(p))
        /\ Writes(p, "release", r) /\ r.finish \in BOOLEAN /\ r.partsel \in {0, 1}
    BY <2>3 DEF SetAnswer
  <2>5. CASE r.ok = 0
    <3>1. a = r /\ ~Served(p)
      BY <2>2, <2>4, <2>5
    <3>2. ~Checks(p) /\ a.ok # 1
      BY <2>5, <3>1 DEF Checks
    <3>3. QED
      BY <1>10, <2>4, <3>1, <3>2, ReleaseOutcome
  <2>6. CASE r.ok = 1
    <3>1. InReach(obj, p) /\ Served(p)
      BY <1>3, <2>4, <2>6
    <3>2. Object(r.obj) /\ r.obj.lang = obj.lang /\ r.obj.width = obj.width
      BY <2>4 DEF Writes, PutOn
    <3>3. InReach(r.obj, p) /\ Target(r.obj, p) = Target(obj, p)
      BY <3>1, <3>2, SameShape
    <3>4. CASE Questa!uvm_is_vhdl_path(obj, p) \/ ~IsSlice(p)
      <4>1. a \in Questa!uvm_hdl_read(r.obj, p, value, partsel)
        BY <2>2, <2>4, <2>6, <3>4
      <4>2. /\ a.ok \in {0, 1} /\ a.value \in Buffer
            /\ a.partsel \in {0, 1} /\ a.finish \in BOOLEAN /\ ~a.finish /\ a.obj = r.obj
            /\ ~TooWide(Target(obj, p)) => a.ok = 1
        BY <3>2, <3>3, <4>1, QuestaReads
      <4>3. QED
        BY <1>5, <1>10, <2>4, <3>1, <4>2, ReleaseOutcome
    <3>5. CASE ~(Questa!uvm_is_vhdl_path(obj, p) \/ ~IsSlice(p))
      <4>1. a \in Questa!uvm_hdl_read(r.obj, LastElement(p), value, partsel)
        BY <2>2, <2>4, <2>6, <3>5
      <4>2. LastElement(p) \in Paths
        BY LastElementIsPath
      <4>3. obj.lang = "vlog" /\ IsSlice(p) /\ ~Checks(p)
        BY <1>1, <1>4, <3>1, <3>5 DEF Questa!uvm_is_vhdl_path, InReach
      <4>4. /\ a.ok \in {0, 1} /\ a.value \in Buffer
            /\ a.partsel \in {0, 1} /\ a.finish \in BOOLEAN /\ ~a.finish /\ a.obj = r.obj
        BY <3>2, <4>1, <4>2, <4>3, QuestaReads
      <4>5. QED
        BY <1>10, <2>4, <3>1, <4>3, <4>4, ReleaseOutcome
    <3>6. QED
      BY <3>4, <3>5
  <2>7. QED
    BY <2>4, <2>5, <2>6
<1>11. QED
  BY <1>6, <1>7, <1>9, <1>10 DEF Calls

-----------------------------------------------------------------------------
(* Xcelium.                                                                 *)

LEMMA XceliumGetsVlog ==
  ASSUME NEW o, Object(o), NEW p \in Paths, NEW value \in Buffer,
         NEW a, a = Xcelium!uvm_hdl_get_vlog(o, p, value)
  PROVE  /\ a.ok \in {0, 1} /\ a.value \in Buffer
         /\ a.partsel \in {0, 1} /\ a.finish \in BOOLEAN /\ ~a.finish /\ a.obj = o
         /\ a.ok = 1 <=> VlogResolves(o, p) /\ ~TooWide(Target(o, p))
<1> DEFINE served == VlogResolves(o, p) /\ ~TooWide(Target(o, p))
           v == IF served THEN GetValue(o, Target(o, p), value) ELSE value
<1>1. a = Answer(IF served THEN 1 ELSE 0, o, v)
  BY XceliumSim DEF Xcelium!uvm_hdl_get_vlog
<1>2. v \in Buffer
  BY GotValueIsValue DEF VlogResolves
<1> HIDE DEF v, served
<1>3. /\ a.ok = (IF served THEN 1 ELSE 0) /\ a.value = v /\ a.partsel = 0
      /\ a.finish \in BOOLEAN /\ ~a.finish /\ a.obj = o
  BY <1>1 DEF Answer
<1>4. a.ok \in {0, 1} /\ (a.ok = 1 <=> served)
  BY <1>3
<1>5. QED
  BY <1>2, <1>3, <1>4 DEF served

LEMMA XceliumGetsVhdl ==
  ASSUME NEW o, Object(o), NEW p \in Paths, NEW value \in Buffer,
         NEW a \in Xcelium!uvm_hdl_get_vhdl(o, p, value)
  PROVE  /\ a.ok \in {0, 1} /\ a.value \in Buffer
         /\ a.partsel \in {0, 1} /\ a.finish \in BOOLEAN /\ a.obj = o
         /\ a.ok = 1 => Xcelium!Found(o, p) /\ ~a.finish
         /\ Xcelium!Found(o, p) => a.ok = 1 \/ (a.finish /\ Xcelium!FreedInTheLoop(o))
<1> DEFINE enumvs == [k \in 0 .. o.width - 1 |-> o.val[o.width - 1 - k]]
           blank == [i \in 0 .. MAX_WIDTH - 1 |-> sv_0]
           kept == IF o.width = 1 THEN value ELSE blank
           v == FillFromTheLeft(o.width, enumvs, kept)
           ended == [Answer(0, o, value) EXCEPT !.finish = TRUE]
           freed == Xcelium!FreedInTheLoop(o)
<1>1. /\ ~Xcelium!Found(o, p) => a = ended
      /\ Xcelium!Found(o, p) /\ ~freed => a = Answer(1, o, v)
      /\ Xcelium!Found(o, p) /\ freed =>
           a = ended \/ \E s \in Xcelium!WithStaleBits(o, v) : a = Answer(1, o, s)
  BY XceliumSim
     DEF Xcelium!uvm_hdl_get_vhdl, Xcelium!MAX_WIDTH, MAX_WIDTH, Xcelium!sv_0, sv_0
<1>2. v \in Buffer
  <2>1. kept \in Buffer
    BY DEF Buffer, Logic, sv_0
  <2>2. \A k \in 0 .. o.width - 1 : enumvs[k] \in Logic
    BY ElementsAreLogic
  <2> HIDE DEF enumvs, kept
  <2>3. QED
    BY <2>1, <2>2, FilledIsValue DEF Object
<1>3. ended.ok = 0 /\ ended.value = value /\ ended.partsel = 0 /\ ended.finish = TRUE /\ ended.obj = o
  BY DEF Answer
<1> HIDE DEF v, ended, freed
<1>4. ASSUME NEW s \in Xcelium!WithStaleBits(o, v) PROVE s \in Buffer
  <2>1. PICK stale \in [CHUNK .. o.width - 1 -> Logic] :
          s = [i \in 0 .. MAX_WIDTH - 1 |->
                 IF i < CHUNK THEN v[i] ELSE IF i < o.width THEN stale[i] ELSE sv_0]
    BY <1>4, XceliumSim
       DEF Xcelium!WithStaleBits, Xcelium!MAX_WIDTH, MAX_WIDTH, Xcelium!Logic, Logic,
           Xcelium!sv_0, sv_0
  <2>2. ASSUME NEW i \in 0 .. MAX_WIDTH - 1
        PROVE  (IF i < CHUNK THEN v[i] ELSE IF i < o.width THEN stale[i] ELSE sv_0) \in Logic
    <3>1. v[i] \in Logic /\ sv_0 \in Logic
      BY <1>2 DEF Buffer, Logic, sv_0
    <3>2. ~(i < CHUNK) /\ i < o.width => i \in CHUNK .. o.width - 1
      BY ChunkAssumption DEF Object
    <3>3. QED
      BY <2>1, <3>1, <3>2
  <2>3. QED
    BY <2>1, <2>2 DEF Buffer
<1>5. ASSUME NEW w \in Buffer, a = Answer(1, o, w)
      PROVE  /\ a.ok = 1 /\ a.value \in Buffer /\ a.partsel = 0
             /\ a.finish = FALSE /\ a.obj = o
  BY <1>5 DEF Answer
<1>6. CASE a = ended
  <2>1. ~Xcelium!Found(o, p) \/ freed
    <3>1. a.ok # 1
      BY <1>3, <1>6
    <3>2. QED
      BY <1>1, <1>2, <1>5, <3>1
  <2>2. /\ a.ok = 0 /\ a.value \in Buffer /\ a.partsel = 0
        /\ a.finish /\ a.finish \in BOOLEAN /\ a.obj = o
    BY <1>3, <1>6
  <2>3. a.ok # 1
    BY <2>2
  <2>4. QED
    BY <2>1, <2>2, <2>3 DEF freed
<1>7. CASE a # ended
  <2>1. Xcelium!Found(o, p) /\ \E w \in Buffer : a = Answer(1, o, w)
    BY <1>1, <1>2, <1>4, <1>7
  <2>2. QED
    BY <1>5, <2>1
<1>8. QED
  BY <1>6, <1>7

LEMMA XceliumWalks ==
  ASSUME NEW o, Object(o), NEW p \in Paths, NEW value \in Buffer,
         NEW a, a = Xcelium!uvm_hdl_get_vlog_partsel(o, p, value)
  PROVE  /\ a.ok \in {0, 1} /\ a.value \in Buffer
         /\ a.partsel \in {0, 1} /\ a.finish \in BOOLEAN /\ ~a.finish /\ a.obj = o
         /\ a.ok = 1 <=> IsSlice(p) /\ AllReached(o, p)
<1> DEFINE walked == [i \in 0 .. MAX_WIDTH - 1 |->
                        IF i \in Reached(o, p) THEN o.val[SliceBit(p, i)] ELSE value[i]]
           all == IsSlice(p) /\ AllReached(o, p)
           v == IF IsSlice(p) THEN walked ELSE value
<1>1. a = Answer(IF all THEN 1 ELSE 0, o, v)
  BY XceliumSim
     DEF Xcelium!uvm_hdl_get_vlog_partsel, Xcelium!is_valid_path_slice,
         Xcelium!MAX_WIDTH, MAX_WIDTH
<1>2. IsSlice(p) => walked \in Buffer
  BY ReachedIsLogic DEF Buffer
<1>3. v \in Buffer
  BY <1>2
<1> HIDE DEF v, all
<1>4. /\ a.ok = (IF all THEN 1 ELSE 0) /\ a.value = v /\ a.partsel = 0
      /\ a.finish \in BOOLEAN /\ ~a.finish /\ a.obj = o
  BY <1>1 DEF Answer
<1>5. a.ok \in {0, 1} /\ (a.ok = 1 <=> all)
  BY <1>4
<1>6. QED
  BY <1>3, <1>4, <1>5 DEF all

LEMMA XceliumSetsSlices ==
  ASSUME Object(obj), tool = "xcelium", NEW p \in Paths,
         Meaningful("force", p), IsSlice(p),
         NEW value \in Buffer, NEW flag \in Flags,
         NEW a \in Xcelium!Set(obj, p, value, flag)
  PROVE  SetAnswer(p, flag, value, a)
<1> DEFINE put == PutValue(obj, ReachedTarget(obj, p), value, flag)
<1>1. a = Answer(IF AllReached(obj, p) THEN 1 ELSE 0, put, value)
  BY XceliumSim
     DEF Xcelium!Set, Xcelium!is_valid_path_slice, Xcelium!uvm_hdl_set_vlog_partsel
<1> HIDE DEF put
<1>2. /\ a.ok = (IF AllReached(obj, p) THEN 1 ELSE 0) /\ a.obj = put /\ a.value = value
      /\ a.partsel = 0 /\ a.finish \in BOOLEAN /\ ~a.finish
  BY <1>1 DEF Answer
<1>3. ~WiderThanValue(p) /\ obj.lang = "vlog"
  BY DEF Meaningful, Object, IsSlice
<1>4. AllReached(obj, p) <=> Served(p)
  BY <1>3, ReachedBits DEF Served, Vcs!Builds
<1>5. Writes(p, flag, a)
  BY <1>2, <1>3, <1>4, PutOnReached DEF put
<1>6. a.ok \in {0, 1} /\ (a.ok = 1 <=> Served(p))
  BY <1>2, <1>4
<1>7. QED
  BY <1>2, <1>5, <1>6 DEF SetAnswer

\* What is written through the language a handle is taken to have.
XceliumSet(language, p, value, flag) ==
  CASE language = "vlog"  -> Xcelium!uvm_hdl_set_vlog(obj, p, value, flag)
    [] language = "vhdl"  -> Xcelium!uvm_hdl_set_vhdl(obj, p, value, flag)
    [] language = "other" -> Xcelium!Answer(0, obj, value)

LEMMA XceliumSetsNames ==
  ASSUME Object(obj), tool = "xcelium", NEW p \in Paths,
         Meaningful("force", p), ~IsSlice(p),
         NEW value \in Buffer, NEW flag \in Flags,
         NEW language \in Xcelium!m_uvm_get_object_handle(obj, p),
         NEW a, a = XceliumSet(language, p, value, flag)
  PROVE  /\ SetAnswer(p, flag, value, a)
         /\ Xcelium!Found(obj, p) <=> Served(p)
         /\ language \in {"vlog", "vhdl", "other"}
         /\ Xcelium!Found(obj, p) => language = obj.lang
<1>1. /\ ~WiderThanValue(p) /\ obj.lang \in {"vlog", "vhdl"}
      /\ p.sel \in {"whole", "bit", "range"} /\ p.sel # "range"
      /\ obj.lang = "vhdl" => p.sel = "whole"
  BY DEF Meaningful, Object, Paths, IsSlice
<1>2. Xcelium!Found(obj, p) <=> InReach(obj, p)
  BY <1>1, XceliumSim DEF Xcelium!Found
<1>3. Served(p) <=> InReach(obj, p)
  BY DEF Served, Vcs!Builds
<1>4. VlogResolves(obj, p) <=> InReach(obj, p) /\ obj.lang = "vlog"
  BY <1>1 DEF VlogResolves, IsSlice
<1>5. CASE InReach(obj, p)
  <2>1. language = obj.lang
    BY <1>2, <1>5 DEF Xcelium!m_uvm_get_object_handle
  <2> DEFINE bits == IF obj.lang = "vlog" THEN value
                     ELSE [i \in 0 .. obj.width - 1 |-> Xcelium!vhpi2val(value, i)]
             put == PutValue(obj, Target(obj, p), bits, flag)
  <2>3. a = Answer(1, put, value)
    <3>1. CASE obj.lang = "vlog"
      BY <1>4, <1>5, <2>1, <3>1, XceliumSim DEF XceliumSet, Xcelium!uvm_hdl_set_vlog
    <3>2. CASE obj.lang = "vhdl"
      BY <1>2, <1>5, <2>1, <3>2, XceliumSim DEF XceliumSet, Xcelium!uvm_hdl_set_vhdl
    <3>3. QED
      BY <1>1, <3>1, <3>2
  <2>4. \A i \in DOMAIN Target(obj, p) : bits[i] \in Logic
    <3>1. CASE obj.lang = "vlog"
      BY <1>1, <1>5, <3>1, ValueReaches DEF InReach
    <3>2. CASE obj.lang = "vhdl"
      <4>1. \A i : Xcelium!vhpi2val(value, i) \in Logic
        BY DEF Xcelium!vhpi2val, Xcelium!sv_0, Xcelium!sv_1, Logic
      <4>2. DOMAIN Target(obj, p) = 0 .. obj.width - 1
        BY <1>1, <3>2 DEF Target
      <4>3. QED
        BY <3>2, <4>1, <4>2
    <3>3. QED
      BY <1>1, <3>1, <3>2
  <2> HIDE DEF bits
  <2>5. /\ a.ok = 1 /\ a.obj = put /\ a.value = value /\ a.partsel = 0
        /\ a.finish \in BOOLEAN /\ ~a.finish
    BY <2>3 DEF Answer
  <2>6. Writes(p, flag, a)
    BY <1>3, <1>5, <2>4, <2>5, PutOnTarget DEF Done
  <2>7. QED
    BY <1>1, <1>2, <1>3, <1>5, <2>1, <2>5, <2>6 DEF SetAnswer
<1>6. CASE ~InReach(obj, p)
  <2>1. language \in {"vlog", "vhdl", "other"}
    BY <1>2, <1>6 DEF Xcelium!m_uvm_get_object_handle
  <2>2. a = Answer(0, obj, value) \/ a = [Answer(0, obj, value) EXCEPT !.finish = TRUE]
    BY <1>2, <1>4, <1>6, <2>1, XceliumSim
       DEF XceliumSet, Xcelium!uvm_hdl_set_vlog, Xcelium!uvm_hdl_set_vhdl
  <2>3. /\ a.ok = 0 /\ a.obj = obj /\ a.value = value /\ a.partsel = 0
        /\ a.finish \in BOOLEAN
    <3>1. CASE a = Answer(0, obj, value)
      BY <3>1 DEF Answer
    <3>2. CASE a = [Answer(0, obj, value) EXCEPT !.finish = TRUE]
      BY <3>2 DEF Answer
    <3>3. QED
      BY <2>2, <3>1, <3>2
  <2>4. Writes(p, flag, a)
    BY <1>3, <1>6, <2>3, WritesNothing
  <2>5. a.ok \in {0, 1} /\ (a.ok = 1 <=> Served(p))
    BY <1>3, <1>6, <2>3
  <2>6. QED
    BY <1>2, <1>3, <1>6, <2>1, <2>3, <2>4, <2>5 DEF SetAnswer
<1>7. QED
  BY <1>5, <1>6

LEMMA XceliumAnswers ==
  ASSUME Object(obj), tool = "xcelium",
         NEW call \in Calls, NEW p \in Paths, Meaningful(call, p),
         NEW value \in Buffer, NEW a \in Answers(call, p, value)
  PROVE  Outcome(call, p, a)
<1>1. /\ obj.lang \in {"vlog", "vhdl"}
      /\ p.sel \in {"whole", "bit", "range"}
      /\ obj.lang = "vhdl" => p.sel = "whole"
      /\ IsSlice(p) <=> p.sel = "range"
      /\ tool \notin Vcs!Builds
  BY DEF Object, Paths, Meaningful, IsSlice, Vcs!Builds
<1>2. /\ Served(p) <=> InReach(obj, p)
      /\ Checks(p) <=> InReach(obj, p) /\ ~IsSlice(p)
      /\ Xcelium!Found(obj, p) <=> InReach(obj, p) /\ ~IsSlice(p)
  BY <1>1, XceliumSim DEF Served, Checks, Xcelium!Found
<1>3. InReach(obj, p) => (WiderThanValue(p) <=> TooWide(Target(obj, p)))
  BY DEF WiderThanValue, InReach
<1>4. VlogResolves(obj, p) <=> InReach(obj, p) /\ ~IsSlice(p) /\ obj.lang = "vlog"
  BY DEF VlogResolves
<1>5. CASE call = "check_path"
  <2> DEFINE known == Xcelium!Found(obj, p)
  <2>1. a = Answer(IF known THEN 1 ELSE 0, obj, value)
    BY <1>1, <1>5, XceliumSim DEF Answers, Xcelium!uvm_hdl_check_path
  <2>2. known <=> Checks(p)
    BY <1>2
  <2> HIDE DEF known
  <2>3. /\ a.ok = (IF known THEN 1 ELSE 0) /\ a.obj = obj /\ a.value = value
        /\ a.partsel = 0 /\ a.finish \in BOOLEAN /\ ~a.finish
    BY <2>1 DEF Answer
  <2>4. a.ok \in {0, 1} /\ (a.ok = 1 <=> Checks(p)) /\ (~Checks(p) => a.ok = 0)
    BY <2>2, <2>3
  <2>5. QED
    BY <1>2, <1>5, <2>3, <2>4 DEF Outcome, Looking
<1>6. CASE call = "read" /\ IsSlice(p)
  <2>1. ClearedAllButLast(value) \in Buffer
    BY ClearedIsValue
  <2>2. a = Xcelium!uvm_hdl_get_vlog_partsel(obj, p, ClearedAllButLast(value))
    BY <1>1, <1>6, XceliumSim
       DEF Answers, Xcelium!uvm_hdl_read, Xcelium!is_valid_path_slice, Xcelium!clear_value
  <2>3. /\ a.ok \in {0, 1} /\ a.value \in Buffer
        /\ a.partsel \in {0, 1} /\ a.finish \in BOOLEAN /\ ~a.finish /\ a.obj = obj
        /\ a.ok = 1 <=> IsSlice(p) /\ AllReached(obj, p)
    BY <2>1, <2>2, XceliumWalks
  <2>4. a.ok = 1 => Served(p)
    BY <1>2, <1>6, <2>3, ReachedBits
  <2>5. ~WiderThanValue(p)
    BY <1>1, <1>6 DEF Meaningful
  <2>6. QED
    BY <1>2, <1>6, <2>3, <2>4, <2>5 DEF Outcome, Looking
<1>7. CASE call = "read" /\ ~IsSlice(p)
  <2> DEFINE Read(language) ==
         CASE language = "vlog"  -> {Xcelium!uvm_hdl_get_vlog(obj, p, value)}
           [] language = "vhdl"  -> Xcelium!uvm_hdl_get_vhdl(obj, p, value)
           [] language = "other" -> {Answer(0, obj, value)}
  <2>1. PICK language \in Xcelium!m_uvm_get_object_handle(obj, p) : a \in Read(language)
    <3>1. a \in Xcelium!uvm_hdl_read(obj, p, value)
      BY <1>1, <1>7 DEF Answers
    <3>2. ~Xcelium!is_valid_path_slice(p)
      BY <1>7, XceliumSim DEF Xcelium!is_valid_path_slice
    <3>3. Xcelium!uvm_hdl_read(obj, p, value)
            = UNION {Read(language) : language \in Xcelium!m_uvm_get_object_handle(obj, p)}
      BY <3>2, XceliumSim DEF Xcelium!uvm_hdl_read
    <3> HIDE DEF Read
    <3>4. QED
      BY <3>1, <3>3
  <2>2. /\ language \in {"vlog", "vhdl", "other"}
        /\ InReach(obj, p) => language = obj.lang
    BY <1>1, <1>2, <1>7, <2>1 DEF Xcelium!m_uvm_get_object_handle
  <2>3. /\ a.ok \in {0, 1} /\ a.value \in Buffer
        /\ a.partsel \in {0, 1} /\ a.finish \in BOOLEAN /\ a.obj = obj
        /\ a.ok = 1 => InReach(obj, p) /\ ~a.finish
        /\ InReach(obj, p) /\ ~TooWide(Target(obj, p)) =>
             a.ok = 1 \/ (a.finish /\ MayDie("read"))
        /\ language = "vlog" /\ TooWide(Target(obj, p)) => a.ok = 0
    <3>1. CASE language = "vlog"
      <4>1. a = Xcelium!uvm_hdl_get_vlog(obj, p, value)
        BY <2>1, <3>1
      <4>2. /\ a.ok \in {0, 1} /\ a.value \in Buffer
            /\ a.partsel \in {0, 1} /\ a.finish \in BOOLEAN /\ ~a.finish /\ a.obj = obj
            /\ a.ok = 1 <=> VlogResolves(obj, p) /\ ~TooWide(Target(obj, p))
        BY <4>1, XceliumGetsVlog
      <4>3. QED
        BY <1>4, <1>7, <2>2, <3>1, <4>2
    <3>2. CASE language = "vhdl"
      <4>1. a \in Xcelium!uvm_hdl_get_vhdl(obj, p, value)
        BY <2>1, <3>2
      <4>2. /\ a.ok \in {0, 1} /\ a.value \in Buffer
            /\ a.partsel \in {0, 1} /\ a.finish \in BOOLEAN /\ a.obj = obj
            /\ a.ok = 1 => Xcelium!Found(obj, p) /\ ~a.finish
            /\ Xcelium!Found(obj, p) =>
                 a.ok = 1 \/ (a.finish /\ Xcelium!FreedInTheLoop(obj))
        BY <4>1, XceliumGetsVhdl
      <4>3. InReach(obj, p) /\ Xcelium!FreedInTheLoop(obj) => MayDie("read")
        BY <2>2, <3>2 DEF MayDie
      <4>4. QED
        BY <1>2, <1>7, <3>2, <4>2, <4>3
    <3>3. CASE language = "other"
      <4>1. a = Answer(0, obj, value)
        BY <2>1, <3>3
      <4>2. /\ a.ok = 0 /\ a.obj = obj /\ a.value = value /\ a.partsel = 0
            /\ a.finish \in BOOLEAN /\ ~a.finish
        BY <4>1 DEF Answer
      <4>3. ~InReach(obj, p) /\ a.ok # 1
        BY <1>1, <2>2, <3>3, <4>2
      <4>4. QED
        BY <3>3, <4>2, <4>3
    <3>4. QED
      BY <2>2, <3>1, <3>2, <3>3
  <2>4. WiderThanValue(p) => a.ok = 0
    <3>1. WiderThanValue(p) => obj.lang = "vlog"
      BY <1>1, <1>7 DEF Meaningful
    <3>2. QED
      BY <1>3, <2>2, <2>3, <3>1
  <2>5. Checks(p) /\ ~WiderThanValue(p) =>
          (a.ok = 1 /\ ~a.finish) \/ (a.finish /\ MayDie("read"))
    BY <1>2, <1>3, <2>3
  <2>6. QED
    BY <1>2, <1>7, <2>3, <2>4, <2>5 DEF Outcome, Looking
<1>8. ASSUME call \notin Looking
      PROVE  Meaningful("force", p)
  BY <1>8 DEF Meaningful, Looking
<1>9. CASE call \in {"deposit", "force", "release"}
  <2>1. call \notin Looking /\ FlagOf(call) \in Flags /\ FlagOf(call) = call
    BY <1>9 DEF Looking, FlagOf, Flags
  <2>2. a \in Xcelium!Set(obj, p, value, FlagOf(call))
    BY <1>1, <1>9, <2>1
       DEF Answers, Xcelium!uvm_hdl_deposit, Xcelium!uvm_hdl_force,
           Xcelium!uvm_hdl_release
  <2>3. CASE IsSlice(p)
    BY <1>8, <1>9, <2>1, <2>2, <2>3, XceliumSetsSlices, SetOutcome
  <2>4. CASE ~IsSlice(p)
    <3>1. PICK language \in Xcelium!m_uvm_get_object_handle(obj, p) :
            a = XceliumSet(language, p, value, FlagOf(call))
      BY <2>2, <2>4, XceliumSim DEF Xcelium!Set, Xcelium!is_valid_path_slice, XceliumSet
    <3>2. SetAnswer(p, FlagOf(call), value, a)
      BY <1>8, <2>1, <2>4, <3>1, XceliumSetsNames
    <3>3. QED
      BY <1>9, <3>2, SetOutcome
  <2>5. QED
    BY <2>3, <2>4
<1>10. CASE call = "release_and_read" /\ IsSlice(p)
  <2>1. call \notin Looking /\ "release" \in Flags
    BY <1>10 DEF Looking, Flags
  <2>2. PICK r \in Xcelium!Set(obj, p, value, "release") :
          a = Xcelium!uvm_hdl_get_vlog_partsel(
                r.obj, LastElement(p), ClearedAllButLast(value))
    BY <1>1, <1>10, XceliumSim
       DEF Answers, Xcelium!uvm_hdl_release_and_read, Xcelium!is_valid_path_slice,
           Xcelium!clear_value
  <2>3. SetAnswer(p, "release", value, r)
    BY <1>8, <1>10, <2>1, <2>2, XceliumSetsSlices
  <2>4. Writes(p, "release", r) /\ (r.ok = 1 => Served(p))
    BY <2>3 DEF SetAnswer
  <2>5. Object(r.obj)
    BY <2>4 DEF Writes, PutOn
  <2>6. LastElement(p) \in Paths /\ ~IsSlice(LastElement(p))
    BY LastElementIsPath
  <2>7. ClearedAllButLast(value) \in Buffer
    BY ClearedIsValue
  <2>8. /\ a.ok \in {0, 1} /\ a.value \in Buffer
        /\ a.partsel \in {0, 1} /\ a.finish \in BOOLEAN /\ ~a.finish /\ a.obj = r.obj
        /\ a.ok = 1 <=> IsSlice(LastElement(p)) /\ AllReached(r.obj, LastElement(p))
    BY <2>2, <2>5, <2>6, <2>7, XceliumWalks
  <2>9. a.ok # 1 /\ ~Checks(p)
    BY <1>2, <1>10, <2>6, <2>8
  <2>10. QED
    BY <1>10, <2>4, <2>8, <2>9, ReleaseOutcome
<1>11. CASE call = "release_and_read" /\ ~IsSlice(p)
  <2>1. call \notin Looking /\ "release" \in Flags
    BY <1>11 DEF Looking, Flags
  <2>2. PICK language \in Xcelium!m_uvm_get_object_handle(obj, p) :
          a \in CASE language = "vlog" ->
                        {Xcelium!uvm_hdl_get_vlog(
                           Xcelium!uvm_hdl_set_vlog(obj, p, value, "release").obj, p, value)}
                  [] language = "vhdl" ->
                        Xcelium!uvm_hdl_get_vhdl(
                           Xcelium!uvm_hdl_set_vhdl(obj, p, value, "release").obj, p, value)
                  [] language = "other" -> {Xcelium!Answer(0, obj, value)}
    <3>1. a \in Xcelium!uvm_hdl_release_and_read(obj, p, value)
      BY <1>1, <1>11 DEF Answers
    <3>2. ~Xcelium!is_valid_path_slice(p)
      BY <1>11, XceliumSim DEF Xcelium!is_valid_path_slice
    <3>3. QED
      BY <3>1, <3>2 DEF Xcelium!uvm_hdl_release_and_read
  <2> DEFINE r == XceliumSet(language, p, value, "release")
  <2>3. /\ SetAnswer(p, "release", value, r)
        /\ language \in {"vlog", "vhdl", "other"}
        /\ InReach(obj, p) => language = obj.lang
    BY <1>2, <1>8, <1>11, <2>1, <2>2, XceliumSetsNames
  <2> HIDE DEF r
  <2>4. /\ Writes(p, "release", r) /\ (r.ok = 1 <=> Served(p)) /\ r.value = value
        /\ r.ok \in {0, 1} /\ r.partsel \in {0, 1} /\ r.finish \in BOOLEAN
    BY <2>3 DEF SetAnswer
  <2>5. Object(r.obj) /\ r.obj.lang = obj.lang /\ r.obj.width = obj.width
    BY <2>4 DEF Writes, PutOn
  <2>6. /\ InReach(r.obj, p) = InReach(obj, p)
        /\ VlogResolves(r.obj, p) = VlogResolves(obj, p)
        /\ Target(r.obj, p) = Target(obj, p)
    BY <2>5, SameShape
  <2>7. CASE language = "vlog"
    <3>1. a = Xcelium!uvm_hdl_get_vlog(r.obj, p, value)
      BY <2>2, <2>7 DEF r, XceliumSet
    <3>2. /\ a.ok \in {0, 1} /\ a.value \in Buffer
          /\ a.partsel \in {0, 1} /\ a.finish \in BOOLEAN /\ ~a.finish /\ a.obj = r.obj
          /\ a.ok = 1 <=> VlogResolves(r.obj, p) /\ ~TooWide(Target(r.obj, p))
      BY <2>5, <3>1, XceliumGetsVlog
    <3>3. a.ok = 1 <=> VlogResolves(obj, p) /\ ~TooWide(Target(obj, p))
      BY <2>6, <3>2
    <3>4. a.ok = 1 => Served(p)
      BY <1>2, <1>4, <3>3
    <3>5. Checks(p) /\ ~WiderThanValue(p) => a.ok = 1
      BY <1>2, <1>3, <1>4, <2>3, <2>7, <3>3
    <3>6. QED
      BY <1>11, <2>4, <3>2, <3>4, <3>5, ReleaseOutcome
  <2>8. CASE language = "vhdl"
    <3>1. a \in Xcelium!uvm_hdl_get_vhdl(r.obj, p, value)
      BY <2>2, <2>8 DEF r, XceliumSet
    <3>2. /\ a.ok \in {0, 1} /\ a.value \in Buffer
          /\ a.partsel \in {0, 1} /\ a.finish \in BOOLEAN /\ a.obj = r.obj
          /\ a.ok = 1 => Xcelium!Found(r.obj, p) /\ ~a.finish
          /\ Xcelium!Found(r.obj, p) =>
               a.ok = 1 \/ (a.finish /\ Xcelium!FreedInTheLoop(r.obj))
      BY <2>5, <3>1, XceliumGetsVhdl
    <3>3. Xcelium!Found(r.obj, p) <=> Xcelium!Found(obj, p)
      BY <2>5, <2>6, XceliumSim DEF Xcelium!Found
    <3>4. a.ok = 1 => Served(p)
      BY <1>2, <3>2, <3>3
    <3>5. Checks(p) => (a.ok = 1 /\ ~a.finish) \/ (a.finish /\ MayDie("release_and_read"))
      <4>1. InReach(obj, p) /\ Xcelium!FreedInTheLoop(r.obj) => MayDie("release_and_read")
        BY <2>3, <2>5, <2>8 DEF MayDie, Xcelium!FreedInTheLoop
      <4>2. QED
        BY <1>2, <3>2, <3>3, <4>1
    <3>6. QED
      BY <1>11, <2>4, <3>2, <3>4, <3>5, ReleaseOutcome
  <2>9. CASE language = "other"
    <3>1. a = r
      BY <2>2, <2>9 DEF r, XceliumSet
    <3>2. ~Checks(p)
      BY <1>1, <1>2, <2>3, <2>9
    <3>3. QED
      BY <1>11, <2>4, <3>1, <3>2, ReleaseOutcome
  <2>10. QED
    BY <2>3, <2>7, <2>8, <2>9
<1>12. QED
  BY <1>5, <1>6, <1>7, <1>9, <1>10, <1>11 DEF Calls

-----------------------------------------------------------------------------
(* VCS.                                                                     *)

\* A width of a value or less takes no more chunks than the value has.
LEMMA ChunksOfWidth ==
  ASSUME NEW n \in Nat \ {0}
  PROVE  /\ Chunks(n) \in Nat \ {0} /\ (Chunks(n) - 1) * CHUNK \in 0 .. n - 1
         /\ n <= MAX_WIDTH => Chunks(n) <= MAX_CHUNKS
<1> DEFINE q == (n - 1) \div CHUNK
<1>1. n - 1 \in Nat /\ CHUNK \in Nat \ {0} /\ MAX_CHUNKS \in Nat
  BY ChunkAssumption
<1>2. q \in Nat /\ q * CHUNK \in 0 .. n - 1 /\ Chunks(n) = q + 1
  BY <1>1, ChunkOfBit DEF Chunks
<1> HIDE DEF q
<1>3. ASSUME n <= MAX_WIDTH PROVE q + 1 <= MAX_CHUNKS
  <2>1. q * CHUNK < MAX_CHUNKS * CHUNK
    BY <1>1, <1>2, <1>3 DEF MAX_WIDTH
  <2>2. q >= MAX_CHUNKS => q * CHUNK >= MAX_CHUNKS * CHUNK
    BY <1>1, <1>2
  <2>3. QED
    BY <1>1, <1>2, <2>1, <2>2
<1>4. (Chunks(n) - 1) * CHUNK = q * CHUNK
  BY <1>2
<1>5. QED
  BY <1>2, <1>3, <1>4

LEMMA BitOfChunk ==
  ASSUME NEW chunk \in 0 .. MAX_CHUNKS - 1, NEW b \in 0 .. CHUNK - 1
  PROVE  chunk * CHUNK + b \in 0 .. MAX_WIDTH - 1
<1>1. CHUNK \in Nat \ {0} /\ MAX_CHUNKS \in Nat \ {0} /\ chunk \in Nat /\ b \in Nat
  BY ChunkAssumption
<1>2. (chunk + 1) * CHUNK <= MAX_CHUNKS * CHUNK
  BY <1>1
<1>3. (chunk + 1) * CHUNK = chunk * CHUNK + CHUNK /\ chunk * CHUNK \in Nat
  BY <1>1
<1>4. QED
  BY <1>1, <1>2, <1>3 DEF MAX_WIDTH

\* The digits of a chunk: all of them, or those up to the highest 1.
LEMMA DigitsOfChunk ==
  ASSUME NEW value \in Buffer, NEW chunk \in 0 .. MAX_CHUNKS - 1, NEW msb \in BOOLEAN
  PROVE  \E n \in 1 .. CHUNK :
           /\ ~msb => n = CHUNK
           /\ DOMAIN Vcs!uvm_hdl_dtob(value, chunk, msb) = 0 .. n - 1
           /\ \A k \in 0 .. n - 1 : Vcs!uvm_hdl_dtob(value, chunk, msb)[k] \in Logic
<1> DEFINE bit(b) == aval(value[chunk * CHUNK + b])
           places == {b \in 1 .. CHUNK - 1 : \E h \in b .. CHUNK - 1 : bit(h) = 1}
           length == IF ~msb THEN CHUNK ELSE 1 + Cardinality(places)
<1>1. CHUNK \in Nat \ {0}
  BY ChunkAssumption
<1>2. \A b \in 0 .. CHUNK - 1 : bit(b) \in Logic
  <2>1. \A b \in 0 .. CHUNK - 1 : value[chunk * CHUNK + b] \in Logic
    BY BitOfChunk DEF Buffer
  <2>2. \A l \in Logic : aval(l) \in Logic
    BY DEF Logic, aval
  <2>3. QED
    BY <2>1, <2>2
<1> HIDE DEF bit
<1>3. Cardinality(places) \in 0 .. CHUNK - 1
  <2>1. IsFiniteSet(1 .. CHUNK - 1) /\ Cardinality(1 .. CHUNK - 1) = CHUNK - 1
    <3>1. 1 \in Int /\ CHUNK - 1 \in Int
      BY <1>1
    <3>2. QED
      BY <1>1, <3>1, FS_Interval
  <2>2. places \subseteq 1 .. CHUNK - 1
    OBVIOUS
  <2> HIDE DEF places
  <2>3. IsFiniteSet(places) /\ Cardinality(places) <= CHUNK - 1
    BY <2>1, <2>2, FS_Subset
  <2>4. QED
    BY <2>3, FS_CardinalityType
<1> HIDE DEF places
<1>4. length \in 1 .. CHUNK
  <2>1. CASE msb
    <3>1. length = 1 + Cardinality(places)
      BY <2>1
    <3> HIDE DEF length
    <3>2. QED
      BY <1>1, <1>3, <3>1
  <2>2. CASE ~msb
    <3>1. length = CHUNK
      BY <2>2
    <3> HIDE DEF length
    <3>2. QED
      BY <1>1, <3>1
  <2>3. QED
    BY <2>1, <2>2
<1>5. Vcs!uvm_hdl_dtob(value, chunk, msb)
        = [k \in 0 .. length - 1 |-> bit(length - 1 - k)]
  BY VcsCounts DEF Vcs!uvm_hdl_dtob, bit, places, Vcs!aval, aval
<1> HIDE DEF length
<1>6. \A k \in 0 .. length - 1 : length - 1 - k \in 0 .. CHUNK - 1
  BY <1>1, <1>4
<1>7. \A k \in 0 .. length - 1 : Vcs!uvm_hdl_dtob(value, chunk, msb)[k] \in Logic
  BY <1>2, <1>5, <1>6
<1>8. ~msb => length = CHUNK
  BY DEF length
<1>9. QED
  BY <1>4, <1>5, <1>7, <1>8

LEMMA VcsSetsVhdl ==
  ASSUME Object(obj), NEW p \in Paths, p.sel = "whole", Served(p), ~WiderThanValue(p),
         NEW value \in Buffer, NEW flag \in Flags
  PROVE  \E source :
           /\ \A i \in DOMAIN Target(obj, p) : source[i] \in Logic
           /\ Vcs!uvm_hdl_set_mhdl(obj, value, flag)
                = Answer(1, PutValue(obj, Target(obj, p), source, flag), value)
<1> DEFINE w == obj.width
           max_i == Chunks(w)
           room == w - CHUNK * (max_i - 1)
           digits == Vcs!uvm_hdl_dtob(value, max_i - 1, TRUE)
           sz == IF Cardinality(DOMAIN digits) < room
                 THEN Cardinality(DOMAIN digits) ELSE room
           digit(i) ==
             IF i \div CHUNK < max_i - 1
             THEN Vcs!uvm_hdl_dtob(value, i \div CHUNK, FALSE)[CHUNK - 1 - (i % CHUNK)]
             ELSE IF i % CHUNK < sz THEN digits[sz - 1 - (i % CHUNK)] ELSE sv_0
           source == [i \in 0 .. w - 1 |-> digit(i)]
<1>1. CHUNK \in Nat \ {0} /\ MAX_CHUNKS \in Nat \ {0} /\ w \in Nat \ {0}
  BY ChunkAssumption DEF Object
<1>2. /\ Target(obj, p) = [i \in 0 .. w - 1 |-> i]
      /\ Target(obj, Path("object", "whole", 0, 0)) = Target(obj, p)
  BY DEF Target, Path
<1>3. w <= MAX_WIDTH
  <2>1. Cardinality(DOMAIN Target(obj, p)) = w /\ MAX_WIDTH \in Nat
    BY <1>1, TargetDomain DEF MAX_WIDTH
  <2>2. QED
    BY <1>1, <2>1 DEF WiderThanValue, TooWide, Served, InReach
<1>4. max_i \in Nat \ {0} /\ max_i <= MAX_CHUNKS /\ (max_i - 1) * CHUNK \in 0 .. w - 1
  BY <1>1, <1>3, ChunksOfWidth
<1>5. room \in Nat \ {0}
  <2>1. CHUNK * (max_i - 1) = (max_i - 1) * CHUNK
    BY <1>1, <1>4
  <2>2. QED
    BY <1>1, <1>4, <2>1
<1>6. Vcs!uvm_hdl_set_mhdl(obj, value, flag)
        = Answer(1, PutValue(obj, Target(obj, p), source, flag), value)
  BY <1>2, VcsSim, VcsCounts DEF Vcs!uvm_hdl_set_mhdl, Vcs!sv_0, sv_0
<1> HIDE DEF max_i, room
<1>7. PICK n \in 1 .. CHUNK :
        DOMAIN digits = 0 .. n - 1 /\ \A k \in 0 .. n - 1 : digits[k] \in Logic
  <2>1. max_i - 1 \in 0 .. MAX_CHUNKS - 1
    BY <1>1, <1>4
  <2>2. QED
    BY <2>1, DigitsOfChunk
<1> HIDE DEF digits
<1>8. sz \in 1 .. n
  <2>1. Cardinality(DOMAIN digits) = n
    BY <1>1, <1>7, IntervalCount
  <2>2. QED
    BY <1>1, <1>5, <1>7, <2>1
<1> HIDE DEF sz
<1>9. ASSUME NEW i \in 0 .. w - 1 PROVE digit(i) \in Logic
  <2>1. i \div CHUNK \in Nat /\ i % CHUNK \in 0 .. CHUNK - 1
    BY <1>1, ChunkOfBit
  <2>2. CASE i \div CHUNK < max_i - 1
    <3>1. i \div CHUNK \in 0 .. MAX_CHUNKS - 1
      BY <1>1, <1>4, <2>1, <2>2
    <3>2. \A k \in 0 .. CHUNK - 1 :
            Vcs!uvm_hdl_dtob(value, i \div CHUNK, FALSE)[k] \in Logic
      BY <3>1, DigitsOfChunk
    <3>3. CHUNK - 1 - (i % CHUNK) \in 0 .. CHUNK - 1
      BY <1>1, <2>1
    <3>4. QED
      BY <2>2, <3>2, <3>3
  <2>3. CASE ~(i \div CHUNK < max_i - 1) /\ i % CHUNK < sz
    <3>1. sz - 1 - (i % CHUNK) \in 0 .. n - 1
      BY <1>1, <1>7, <1>8, <2>1, <2>3
    <3>2. QED
      BY <1>7, <2>3, <3>1
  <2>4. CASE ~(i \div CHUNK < max_i - 1) /\ ~(i % CHUNK < sz)
    BY <2>4 DEF Logic, sv_0
  <2>5. QED
    BY <2>2, <2>3, <2>4
<1> HIDE DEF digit
<1>10. \A i \in DOMAIN Target(obj, p) : source[i] \in Logic
  BY <1>2, <1>9
<1> HIDE DEF source
<1>11. QED
  BY <1>6, <1>10

LEMMA VcsGetsVhpi ==
  ASSUME Object(obj), NEW value \in Buffer
  PROVE  \E v \in Buffer : Vcs!uvm_hdl_get_vhpi(obj, value) = Answer(1, obj, v)
<1> DEFINE enums == [k \in 0 .. obj.width - 1 |-> obj.val[obj.width - 1 - k]]
           wiped == [i \in 0 .. MAX_WIDTH - 1 |->
                       IF i \div CHUNK < MAX_CHUNKS \div Vcs!CHUNK_BYTES
                       THEN sv_0 ELSE value[i]]
<1>1. Vcs!uvm_hdl_get_vhpi(obj, value)
        = Answer(1, obj, FillFromTheLeft(obj.width, enums, wiped))
  BY VcsSim DEF Vcs!uvm_hdl_get_vhpi, Vcs!MAX_WIDTH, MAX_WIDTH, Vcs!sv_0, sv_0
<1>2. wiped \in Buffer
  BY DEF Buffer, Logic, sv_0
<1>3. \A k \in 0 .. obj.width - 1 : enums[k] \in Logic
  BY ElementsAreLogic
<1> HIDE DEF enums, wiped
<1>4. QED
  BY <1>1, <1>2, <1>3, FilledIsValue DEF Object

LEMMA VcsGetsMhdl ==
  ASSUME Object(obj), NEW value \in Buffer
  PROVE  \E v \in Buffer : Vcs!uvm_hdl_get_mhdl(obj, value) = Answer(1, obj, v)
<1> DEFINE w == obj.width
           max_i == Chunks(w)
           string(k) == IF k < w THEN obj.val[w - 1 - k] ELSE sv_x
           bits_to_consider(i) == IF i = 0 THEN w - (max_i - 1) * CHUNK ELSE CHUNK
           shifted(k, b) ==
             LET i == max_i - k - 1
             IN  IF b < bits_to_consider(i)
                 THEN string(i * CHUNK + bits_to_consider(i) - 1 - b)
                 ELSE value[k * CHUNK + b - bits_to_consider(i)]
           bit(i) == IF i \div CHUNK < max_i THEN shifted(i \div CHUNK, i % CHUNK)
                     ELSE value[i]
           v == [i \in 0 .. MAX_WIDTH - 1 |-> bit(i)]
<1>1. CHUNK \in Nat \ {0} /\ MAX_WIDTH \in Nat /\ w \in Nat \ {0}
  BY ChunkAssumption DEF Object, MAX_WIDTH
<1>2. max_i \in Nat \ {0} /\ (max_i - 1) * CHUNK \in 0 .. w - 1
  BY <1>1, ChunksOfWidth
<1>3. Vcs!uvm_hdl_get_mhdl(obj, value) = Answer(1, obj, v)
  BY VcsSim DEF Vcs!uvm_hdl_get_mhdl, Vcs!MAX_WIDTH, MAX_WIDTH, Vcs!sv_x, sv_x
<1>4. \A k \in Nat : string(k) \in Logic
  <2>1. \A k \in 0 .. w - 1 : w - 1 - k \in 0 .. w - 1
    BY <1>1
  <2>2. QED
    BY <1>1, <2>1 DEF Object, Logic, sv_x
<1>5. \A i : bits_to_consider(i) \in Nat \ {0}
  BY <1>1, <1>2
<1> HIDE DEF max_i, string, bits_to_consider
<1>6. ASSUME NEW i \in 0 .. MAX_WIDTH - 1, NEW k, NEW b, k = i \div CHUNK, b = i % CHUNK,
             k < max_i
      PROVE  shifted(k, b) \in Logic
  <2> DEFINE m == max_i - k - 1
             considered == bits_to_consider(m)
  <2>1. k \in Nat /\ b \in Nat /\ i = k * CHUNK + b /\ k * CHUNK \in Nat
    BY <1>1, <1>6, ChunkOfBit
  <2>2. m \in Nat /\ m * CHUNK \in Nat
    BY <1>1, <1>2, <1>6, <2>1
  <2>3. considered \in Nat \ {0}
    BY <1>5
  <2>4. shifted(k, b) = IF b < considered THEN string(m * CHUNK + considered - 1 - b)
                        ELSE value[k * CHUNK + b - considered]
    OBVIOUS
  <2> HIDE DEF m, considered
  <2>5. CASE b < considered
    <3>1. m * CHUNK + considered - 1 - b \in Nat
      BY <2>1, <2>2, <2>3, <2>5
    <3>2. QED
      BY <1>4, <2>4, <2>5, <3>1
  <2>6. CASE ~(b < considered)
    <3>1. k * CHUNK + b - considered \in 0 .. MAX_WIDTH - 1
      BY <1>1, <2>1, <2>3, <2>6
    <3>2. QED
      BY <2>4, <2>6, <3>1 DEF Buffer
  <2>7. QED
    BY <2>5, <2>6
<1>7. \A i \in 0 .. MAX_WIDTH - 1 : bit(i) \in Logic
  <2> HIDE DEF shifted
  <2>1. \A i \in 0 .. MAX_WIDTH - 1 : value[i] \in Logic
    BY DEF Buffer
  <2>2. QED
    BY <1>6, <2>1
<1> HIDE DEF bit
<1>8. v \in Buffer
  BY <1>7 DEF Buffer
<1>9. QED
  BY <1>3, <1>8

LEMMA VcsGetsVlog ==
  ASSUME NEW o, Object(o), NEW p \in Paths, InReach(o, p), NEW value \in Buffer,
         NEW a, a = Vcs!uvm_hdl_get_vlog(o, p, value)
  PROVE  /\ a.ok \in {0, 1} /\ a.value \in Buffer
         /\ a.partsel \in {0, 1} /\ a.finish \in BOOLEAN /\ ~a.finish /\ a.obj = o
         /\ a.ok = 1 <=> ~TooWide(Target(o, p))
<1> DEFINE wide == TooWide(Target(o, p))
           v == IF wide THEN value ELSE GetValue(o, Target(o, p), value)
<1>1. a = Answer(IF wide THEN 0 ELSE 1, o, v)
  BY VcsSim DEF Vcs!uvm_hdl_get_vlog
<1>2. v \in Buffer
  BY GotValueIsValue
<1> HIDE DEF v, wide
<1>3. /\ a.ok = (IF wide THEN 0 ELSE 1) /\ a.value = v /\ a.partsel = 0
      /\ a.finish \in BOOLEAN /\ ~a.finish /\ a.obj = o
  BY <1>1 DEF Answer
<1>4. a.ok \in {0, 1} /\ (a.ok = 1 <=> ~wide)
  BY <1>3
<1>5. QED
  BY <1>2, <1>3, <1>4 DEF wide

\* What a name stands for is the object or nothing.
LEMMA VcsLanguages ==
  ASSUME Object(obj), NEW p \in Paths, tool \in Vcs!Builds
  PROVE  /\ Vcs!Language(tool, obj, p) \in {obj.lang, "none"}
         /\ obj.lang \in {"vlog", "vhdl"}
         /\ Served(p) <=> Vcs!Language(tool, obj, p) # "none"
         /\ Served(p) => InReach(obj, p) /\ Vcs!Language(tool, obj, p) = obj.lang
         /\ Checks(p) <=> Served(p)
         /\ Served(p) /\ tool = "vcs" => obj.lang = "vlog"
<1>1. obj.lang \in {"vlog", "vhdl"} /\ tool \notin {"questa", "xcelium"}
  BY DEF Object, Vcs!Builds
<1>2. Vcs!Language(tool, obj, p) # "none" => InReach(obj, p)
  BY VcsSim DEF Vcs!Language
<1>3. QED
  BY <1>1, <1>2 DEF Vcs!Language, Served, Checks

LEMMA VcsSets ==
  ASSUME Object(obj), NEW p \in Paths, tool \in Vcs!Builds, Meaningful("force", p),
         NEW value \in Buffer, NEW flag \in Flags, NEW a,
         \/ a \in Vcs!Set(tool, obj, p, value, flag)
         \/ flag = "release" /\ a \in Vcs!uvm_hdl_release(tool, obj, p, value)
         \/ /\ flag = "release" /\ Served(p)
            /\ a = Vcs!mhpi_release_force(obj, p, value)
  PROVE  SetAnswer(p, flag, value, a)
<1>1. ~WiderThanValue(p) /\ (obj.lang = "vhdl" => p.sel = "whole")
  BY DEF Meaningful, Vcs!Builds
<1>2. CASE ~Served(p)
  <2>1. a = Answer(0, obj, value)
    BY <1>2, VcsLanguages, VcsSim DEF Vcs!Set, Vcs!uvm_hdl_release
  <2>2. /\ a.ok = 0 /\ a.obj = obj /\ a.value = value /\ a.partsel = 0
        /\ a.finish \in BOOLEAN
    BY <2>1 DEF Answer
  <2>3. Writes(p, flag, a)
    BY <1>2, <2>2, WritesNothing
  <2>4. a.ok \in {0, 1} /\ (a.ok = 1 <=> Served(p))
    BY <1>2, <2>2
  <2>5. QED
    BY <1>2, <2>2, <2>3, <2>4 DEF SetAnswer
<1>3. CASE Served(p)
  <2>1. InReach(obj, p) /\ p.name = "object" /\ Vcs!Language(tool, obj, p) = obj.lang
    BY <1>3, VcsLanguages DEF InReach
  <2>2. \E source :
          /\ flag = "release" \/ \A i \in DOMAIN Target(obj, p) : source[i] \in Logic
          /\ a = Answer(1, PutValue(obj, Target(obj, p), source, flag), value)
    <3>1. CASE flag = "release" /\ a = Vcs!mhpi_release_force(obj, p, value)
      BY <3>1, VcsSim DEF Vcs!mhpi_release_force
    <3>2. CASE obj.lang = "vlog" /\ a = Vcs!uvm_hdl_set_vlog(obj, p, value, flag)
      <4>1. \A i \in DOMAIN Target(obj, p) : value[i] \in Logic
        BY <1>1, <2>1, ValueReaches
      <4>2. QED
        BY <3>2, <4>1, VcsSim DEF Vcs!uvm_hdl_set_vlog
    <3>3. CASE obj.lang = "vhdl" /\ a = Vcs!uvm_hdl_set_mhdl(obj, value, flag)
      BY <1>1, <1>3, <3>3, VcsSetsVhdl
    <3>4. QED
      BY <1>3, <2>1, <3>1, <3>2, <3>3, VcsLanguages DEF Vcs!Set, Vcs!uvm_hdl_release
  <2>3. PICK source :
          /\ flag = "release" \/ \A i \in DOMAIN Target(obj, p) : source[i] \in Logic
          /\ a = Answer(1, PutValue(obj, Target(obj, p), source, flag), value)
    BY <2>2
  <2> DEFINE put == PutValue(obj, Target(obj, p), source, flag)
  <2>4. /\ a.ok = 1 /\ a.obj = put /\ a.value = value /\ a.partsel = 0
        /\ a.finish \in BOOLEAN /\ ~a.finish
    BY <2>3 DEF Answer
  <2>5. Writes(p, flag, a)
    BY <1>3, <2>3, <2>4, PutOnTarget DEF Done
  <2>6. QED
    BY <1>3, <2>4, <2>5 DEF SetAnswer
<1>4. QED
  BY <1>2, <1>3

LEMMA VcsAnswers ==
  ASSUME Object(obj), tool \in Vcs!Builds,
         NEW call \in Calls, NEW p \in Paths, Meaningful(call, p),
         NEW value \in Buffer, NEW a \in Answers(call, p, value)
  PROVE  Outcome(call, p, a)
<1> DEFINE language == Vcs!Language(tool, obj, p)
<1>1. /\ tool \notin {"questa", "xcelium"} /\ tool \in {"vcs", "vcsmx", "vcsmx_fast"}
      /\ obj.lang = "vhdl" => p.sel = "whole"
  BY DEF Meaningful, Vcs!Builds
<1>2. /\ language \in {obj.lang, "none"} /\ obj.lang \in {"vlog", "vhdl"}
      /\ Served(p) <=> language # "none"
      /\ Served(p) => InReach(obj, p) /\ language = obj.lang
      /\ Checks(p) <=> Served(p)
      /\ Served(p) /\ tool = "vcs" => obj.lang = "vlog"
  BY VcsLanguages
<1>3. Served(p) => (WiderThanValue(p) <=> TooWide(Target(obj, p)))
  BY <1>2 DEF WiderThanValue, InReach
<1>4. LeftToChance(p) <=> tool # "vcs" /\ ~Served(p)
  BY <1>1, <1>2 DEF LeftToChance
<1>5. CASE call = "check_path"
  <2>1. a = Answer(IF language = "none" THEN 0 ELSE 1, obj, value)
    BY <1>1, <1>5, VcsSim DEF Answers, Vcs!uvm_hdl_check_path
  <2> HIDE DEF language
  <2>2. /\ a.ok = (IF language = "none" THEN 0 ELSE 1) /\ a.obj = obj /\ a.value = value
        /\ a.partsel = 0 /\ a.finish \in BOOLEAN /\ ~a.finish
    BY <2>1 DEF Answer
  <2>3. a.ok \in {0, 1} /\ (a.ok = 1 <=> Served(p)) /\ (~Checks(p) => a.ok = 0)
    BY <1>2, <2>2
  <2>4. QED
    BY <1>2, <1>5, <2>2, <2>3 DEF Outcome, Looking
<1>6. CASE call = "read" /\ ~Served(p)
  <2>1. PICK ok \in {0, 1} : a = Answer(ok, obj, value) /\ (tool = "vcs" => ok = 0)
    <3>1. a \in Vcs!uvm_hdl_read(tool, obj, p, value)
      BY <1>1, <1>6 DEF Answers
    <3>2. PICK ok \in IF tool = "vcs" THEN {0} ELSE {0, 1} :
            a = Vcs!Answer(ok, obj, value)
      BY <1>2, <1>6, <3>1 DEF Vcs!uvm_hdl_read
    <3>3. QED
      BY <3>2, VcsSim
  <2>2. /\ a.ok = ok /\ a.obj = obj /\ a.value = value
        /\ a.partsel = 0 /\ a.finish \in BOOLEAN /\ ~a.finish
    BY <2>1 DEF Answer
  <2>3. a.ok = 0 \/ LeftToChance(p)
    BY <1>4, <1>6, <2>1, <2>2
  <2>4. a.ok = 1 => LeftToChance(p)
    BY <2>3
  <2>5. QED
    BY <1>2, <1>6, <2>1, <2>2, <2>3, <2>4 DEF Outcome, Looking
<1>7. CASE call = "read" /\ Served(p)
  <2>1. /\ a.ok \in {0, 1} /\ a.value \in Buffer
        /\ a.partsel \in {0, 1} /\ a.finish \in BOOLEAN /\ ~a.finish /\ a.obj = obj
        /\ a.ok = 1 <=> ~TooWide(Target(obj, p))
    <3>1. a \in Vcs!uvm_hdl_read(tool, obj, p, value)
      BY <1>1, <1>7 DEF Answers
    <3>2. CASE obj.lang = "vlog"
      <4>1. a = Vcs!uvm_hdl_get_vlog(obj, p, value)
        BY <1>2, <1>7, <3>1, <3>2 DEF Vcs!uvm_hdl_read
      <4>2. QED
        BY <1>2, <1>7, <4>1, VcsGetsVlog
    <3>3. CASE obj.lang = "vhdl" /\ TooWide(Target(obj, p))
      <4>1. a = Answer(0, obj, value)
        BY <1>2, <1>7, <3>1, <3>3, VcsSim DEF Vcs!uvm_hdl_read
      <4>2. /\ a.ok = 0 /\ a.obj = obj /\ a.value = value
            /\ a.partsel = 0 /\ a.finish \in BOOLEAN /\ ~a.finish
        BY <4>1 DEF Answer
      <4>3. a.ok \in {0, 1} /\ ~(a.ok = 1)
        BY <4>2
      <4>4. QED
        BY <3>3, <4>2, <4>3
    <3>4. CASE obj.lang = "vhdl" /\ ~TooWide(Target(obj, p))
      <4>1. a = Vcs!uvm_hdl_get_vhpi(obj, value) \/ a = Vcs!uvm_hdl_get_mhdl(obj, value)
        BY <1>1, <1>2, <1>7, <3>1, <3>4, VcsSim DEF Vcs!uvm_hdl_read
      <4>2. PICK v \in Buffer : a = Answer(1, obj, v)
        BY <4>1, VcsGetsVhpi, VcsGetsMhdl
      <4>3. /\ a.ok = 1 /\ a.obj = obj /\ a.value = v
            /\ a.partsel = 0 /\ a.finish \in BOOLEAN /\ ~a.finish
        BY <4>2 DEF Answer
      <4>4. QED
        BY <3>4, <4>3
    <3>5. QED
      BY <1>2, <3>2, <3>3, <3>4
  <2>2. (WiderThanValue(p) => a.ok = 0) /\ (~WiderThanValue(p) => a.ok = 1)
    BY <1>3, <1>7, <2>1
  <2>3. QED
    BY <1>7, <2>1, <2>2 DEF Outcome, Looking
<1>8. ASSUME call \notin Looking
      PROVE  Meaningful("force", p) /\ ~WiderThanValue(p)
  BY <1>1, <1>8 DEF Meaningful, Looking
<1>9. CASE call \in {"deposit", "force", "release"}
  <2>1. call \notin Looking /\ FlagOf(call) \in Flags /\ FlagOf(call) = call
    BY <1>9 DEF Looking, FlagOf, Flags
  <2>2. \/ a \in Vcs!Set(tool, obj, p, value, FlagOf(call))
        \/ FlagOf(call) = "release" /\ a \in Vcs!uvm_hdl_release(tool, obj, p, value)
    BY <1>1, <1>9, <2>1 DEF Answers, Vcs!uvm_hdl_deposit, Vcs!uvm_hdl_force
  <2>3. SetAnswer(p, FlagOf(call), value, a)
    BY <1>8, <2>1, <2>2, VcsSets
  <2>4. QED
    BY <1>9, <2>3, SetOutcome
<1>10. CASE call = "release_and_read"
  <2> DEFINE r == IF Served(p) THEN Vcs!mhpi_release_force(obj, p, value)
                  ELSE Answer(0, obj, value)
  <2>1. call \notin Looking /\ "release" \in Flags
    BY <1>10 DEF Looking, Flags
  <2>2. a = r \/ (Served(p) /\ a = Vcs!uvm_hdl_get_vlog(r.obj, p, value))
    BY <1>1, <1>2, <1>10, VcsSim DEF Answers, Vcs!uvm_hdl_release_and_read
  <2>3. SetAnswer(p, "release", value, r)
    <3>1. CASE Served(p)
      BY <1>8, <2>1, <3>1, VcsSets
    <3>2. CASE ~Served(p)
      <4>1. r \in Vcs!uvm_hdl_release(tool, obj, p, value)
        BY <1>2, <3>2, VcsSim DEF Vcs!uvm_hdl_release
      <4>2. QED
        BY <1>8, <2>1, <4>1, VcsSets
    <3>3. QED
      BY <3>1, <3>2
  <2> HIDE DEF r
  <2>4. /\ r.ok \in {0, 1} /\ r.value = value /\ (r.ok = 1 <=> Served(p))
        /\ Writes(p, "release", r) /\ r.finish \in BOOLEAN /\ r.partsel \in {0, 1}
        /\ Served(p) => ~r.finish
    BY <2>3 DEF SetAnswer
  <2>5. CASE a = r
    <3>1. (a.ok = 1 => Served(p)) /\ (Checks(p) => a.ok = 1 /\ ~a.finish)
      BY <1>2, <2>4, <2>5
    <3>2. QED
      BY <1>10, <2>4, <2>5, <3>1, ReleaseOutcome
  <2>6. CASE Served(p) /\ a = Vcs!uvm_hdl_get_vlog(r.obj, p, value)
    <3>1. Object(r.obj) /\ r.obj.lang = obj.lang /\ r.obj.width = obj.width
      BY <2>4 DEF Writes, PutOn
    <3>2. InReach(r.obj, p) /\ Target(r.obj, p) = Target(obj, p)
      BY <1>2, <2>6, <3>1, SameShape
    <3>3. /\ a.ok \in {0, 1} /\ a.value \in Buffer
          /\ a.partsel \in {0, 1} /\ a.finish \in BOOLEAN /\ ~a.finish /\ a.obj = r.obj
          /\ a.ok = 1 <=> ~TooWide(Target(r.obj, p))
      BY <2>6, <3>1, <3>2, VcsGetsVlog
    <3>4. a.ok = 1
      BY <1>3, <1>8, <2>1, <2>6, <3>2, <3>3
    <3>5. QED
      BY <1>10, <2>4, <2>6, <3>3, <3>4, ReleaseOutcome
  <2>7. QED
    BY <2>2, <2>5, <2>6
<1>11. QED
  BY <1>5, <1>6, <1>7, <1>9, <1>10 DEF Calls

-----------------------------------------------------------------------------
(* Every backend.                                                           *)

LEMMA AnswersAreOutcomes ==
  ASSUME Object(obj), partsel \in {0, 1}, tool \in Tools,
         NEW call \in Calls, NEW p \in Paths, Meaningful(call, p),
         NEW value \in Buffer, NEW a \in Answers(call, p, value)
  PROVE  Outcome(call, p, a)
BY QuestaAnswers, XceliumAnswers, VcsAnswers DEF Tools

\* What is written is put on bits of the path, and the object keeps its shape.
LEMMA WritesKeepShape ==
  ASSUME NEW p, NEW flag \in Flags, NEW a, Writes(p, flag, a)
  PROVE  /\ Object(a.obj) /\ a.obj.lang = obj.lang /\ a.obj.width = obj.width
         /\ \A b \in (0 .. obj.width - 1) \ Asked(p) :
              /\ a.obj.val[b] = obj.val[b]
              /\ b \in a.obj.forced <=> b \in obj.forced
<1>1. PICK bits \in SUBSET Asked(p), done \in Flags : PutOn(obj, a.obj, bits, done)
  BY DEF Writes
<1>2. /\ Object(a.obj) /\ a.obj.lang = obj.lang /\ a.obj.width = obj.width
      /\ \A b \in (0 .. obj.width - 1) \ bits : a.obj.val[b] = obj.val[b]
      /\ a.obj.forced = CASE done = "deposit" -> obj.forced
                          [] done = "force"   -> obj.forced \cup bits
                          [] done = "release" -> obj.forced \ bits
  BY <1>1 DEF PutOn
<1>3. a.obj.forced \in {obj.forced, obj.forced \cup bits, obj.forced \ bits}
  BY <1>2 DEF Flags
<1>4. QED
  BY <1>2, <1>3

\* What becomes of the forced bits.
LEMMA WritesForced ==
  ASSUME NEW p, NEW flag \in Flags, NEW a, Writes(p, flag, a)
  PROVE  \E bits \in SUBSET Asked(p) :
           /\ Served(p) => bits = Asked(p)
           /\ flag = "deposit" => a.obj.forced = obj.forced
           /\ flag = "release" => a.obj.forced = obj.forced \ bits
           /\ flag = "force" =>
                \/ a.obj.forced = obj.forced \cup bits
                \/ a.obj.forced = obj.forced /\ tool = "questa" /\ obj.lang = "vhdl"
<1>1. PICK bits \in SUBSET Asked(p), done \in Flags :
        /\ PutOn(obj, a.obj, bits, done)
        /\ Served(p) => bits = Asked(p)
        /\ Done(flag, done)
  BY DEF Writes
<1>2. a.obj.forced = CASE done = "deposit" -> obj.forced
                       [] done = "force"   -> obj.forced \cup bits
                       [] done = "release" -> obj.forced \ bits
  BY <1>1 DEF PutOn
<1>3. QED
  BY <1>1, <1>2 DEF Done, Flags

-----------------------------------------------------------------------------
(* The invariant. A task that holds a path was given one that is served, so  *)
(* that letting go of it reaches every bit; that, and the bookkeeping of     *)
(* held and stray bits, is what the calls of every process keep.             *)

StateOK ==
  /\ tool \in Tools /\ partsel \in {0, 1} /\ finished \in BOOLEAN
  /\ Object(obj) /\ obj.width \in Widths
  /\ timer \in [Tasks -> TimedPaths \cup {Idle}]
  /\ held \subseteq 0 .. obj.width - 1 /\ stray \subseteq 0 .. obj.width - 1

TimersServed ==
  \A t \in Tasks : timer[t] # Idle => Meaningful("force", timer[t]) /\ Served(timer[t])

HdlInv == StateOK /\ TimersServed /\ ForcesAccountedFor

\* What any step leaves: the backend, and the shape of the object.
SameObject == tool' = tool /\ obj'.lang = obj.lang /\ obj'.width = obj.width

LEMMA InitHdlInv == Init => HdlInv
<1> SUFFICES ASSUME Init PROVE HdlInv
  OBVIOUS
<1>1. PICK lang \in {"vlog", "vhdl"}, w \in Widths, v \in DesignValues :
        obj = [lang |-> lang, width |-> w, val |-> [b \in 0 .. w - 1 |-> v[b]],
               forced |-> {}]
  BY DEF Init
<1>2. /\ obj.lang = lang /\ obj.width = w /\ obj.forced = {}
      /\ obj.val = [b \in 0 .. w - 1 |-> v[b]]
  BY <1>1
<1>3. [b \in 0 .. w - 1 |-> v[b]] \in [0 .. w - 1 -> Logic] /\ w \in Nat \ {0}
  BY BackdoorAssumption
<1>4. Object(obj)
  BY <1>1, <1>2, <1>3 DEF Object
<1>5. StateOK
  <2>1. /\ tool \in Tools /\ partsel = 0 /\ finished = FALSE
        /\ timer = [t \in Tasks |-> Idle] /\ held = {} /\ stray = {}
    BY DEF Init
  <2>2. timer \in [Tasks -> TimedPaths \cup {Idle}]
    BY <2>1
  <2>3. finished \in BOOLEAN
    BY <2>1
  <2>4. QED
    BY <1>2, <1>4, <2>1, <2>2, <2>3 DEF StateOK
<1>6. TimersServed
  BY DEF Init, TimersServed
<1>7. ForcesAccountedFor
  BY <1>2 DEF Init, ForcesAccountedFor
<1>8. QED
  BY <1>5, <1>6, <1>7 DEF HdlInv

\* Paths mean the same as long as the object keeps its shape.
LEMMA PathsKeepMeaning ==
  ASSUME SameObject, NEW p
  PROVE  /\ Meaningful("force", p)' <=> Meaningful("force", p)
         /\ Served(p)' <=> Served(p)
BY DEF SameObject, Meaningful, Served, WiderThanValue, TooWide, Target, InReach,
       Questa!WriteFitsBuffers, Questa!ReadFitsBuffers, Vcs!Language, Vcs!InReach

\* A process that holds a path still holds it, and may let go of it.
LEMMA TimersStay ==
  ASSUME SameObject, TimersServed, UNCHANGED timer
  PROVE  TimersServed'
<1>1. \A t \in Tasks : timer[t] # Idle =>
        Meaningful("force", timer[t])' /\ Served(timer[t])'
  <2>1. ASSUME NEW t \in Tasks, timer[t] # Idle
        PROVE  Meaningful("force", timer[t]) /\ Served(timer[t])
    BY <2>1 DEF TimersServed
  <2>2. QED
    BY <2>1, PathsKeepMeaning
<1>2. QED
  BY <1>1 DEF TimersServed

LEMMA GoesKeeps ==
  ASSUME StateOK, NEW call \in Calls, NEW p, NEW a, Outcome(call, p, a), Goes(a)
  PROVE  /\ SameObject /\ obj' = a.obj
         /\ tool' \in Tools /\ partsel' \in {0, 1} /\ finished' \in BOOLEAN
         /\ Object(obj)' /\ obj'.width \in Widths
<1>1. /\ obj' = a.obj /\ partsel' = a.partsel /\ finished' = a.finish /\ tool' = tool
      /\ a.partsel \in {0, 1} /\ a.finish \in BOOLEAN
  BY DEF Goes, Outcome
<1>2. Object(a.obj) /\ a.obj.lang = obj.lang /\ a.obj.width = obj.width
  <2>1. CASE call \in Looking
    BY <2>1 DEF Outcome, StateOK
  <2>2. CASE call \notin Looking
    <3>1. Writes(p, FlagOf(call), a) /\ FlagOf(call) \in Flags
      BY <2>2 DEF Outcome, FlagOf, Flags, Calls, Looking
    <3>2. QED
      BY <3>1, WritesKeepShape
  <2>3. QED
    BY <2>1, <2>2
<1>3. Object(obj')
  BY <1>1, <1>2
<1>4. QED
  BY <1>1, <1>2, <1>3 DEF StateOK, SameObject, Object

\* A force or a release leaves every forced bit accounted for.
LEMMA ForcesKeeps ==
  ASSUME StateOK, ForcesAccountedFor, NEW p \in Paths, NEW a,
         Outcome("force", p, a), Forces(p, a)
  PROVE  /\ ForcesAccountedFor'
         /\ held' \subseteq 0 .. obj'.width - 1 /\ stray' \subseteq 0 .. obj'.width - 1
<1>1. /\ Goes(a) /\ SameObject /\ obj' = a.obj /\ tool' = tool
      /\ held'  = IF a.ok = 1 THEN held \cup Asked(p) ELSE held
      /\ stray' = IF a.ok = 1 THEN stray \ Asked(p) ELSE stray \cup Asked(p)
  <2>1. Goes(a) /\ "force" \in Calls
    BY DEF Forces, Calls
  <2>2. QED
    BY <2>1, GoesKeeps DEF Forces, SameObject
<1>2. PICK bits \in SUBSET Asked(p) :
        /\ Served(p) => bits = Asked(p)
        /\ \/ a.obj.forced = obj.forced \cup bits
           \/ a.obj.forced = obj.forced /\ tool = "questa" /\ obj.lang = "vhdl"
  <2>1. Writes(p, "force", a) /\ "force" \in Flags
    BY DEF Outcome, FlagOf, Flags, Looking
  <2>2. QED
    BY <2>1, WritesForced
<1>3. a.ok = 1 => bits = Asked(p)
  BY <1>2 DEF Outcome
<1>4. Asked(p) \subseteq 0 .. obj.width - 1
  BY AskedNow, AskedInObject
<1>5. held' \subseteq 0 .. obj'.width - 1 /\ stray' \subseteq 0 .. obj'.width - 1
  BY <1>1, <1>4 DEF StateOK, SameObject
<1>6. obj'.forced \subseteq held' \cup stray'
  BY <1>1, <1>2, <1>3 DEF ForcesAccountedFor
<1>7. held' \subseteq obj'.forced \/ (tool' = "questa" /\ obj'.lang = "vhdl")
  BY <1>1, <1>2, <1>3 DEF ForcesAccountedFor, SameObject
<1>8. QED
  BY <1>5, <1>6, <1>7 DEF ForcesAccountedFor

LEMMA ReleasesKeeps ==
  ASSUME StateOK, ForcesAccountedFor, NEW call \in {"release", "release_and_read"},
         NEW p \in Paths, NEW a, Outcome(call, p, a), Releases(p, a)
  PROVE  /\ ForcesAccountedFor'
         /\ held' \subseteq 0 .. obj'.width - 1 /\ stray' \subseteq 0 .. obj'.width - 1
         /\ Served(p) => obj'.forced \cap Asked(p) = {}
<1>1. /\ Goes(a) /\ SameObject /\ obj' = a.obj /\ tool' = tool
      /\ held'  = held \ Asked(p)
      /\ stray' = IF a.ok = 1 THEN stray \ Asked(p) ELSE stray \cup (held \cap Asked(p))
  <2>1. Goes(a) /\ call \in Calls
    BY DEF Releases, Calls
  <2>2. QED
    BY <2>1, GoesKeeps DEF Releases, SameObject
<1>2. PICK bits \in SUBSET Asked(p) :
        (Served(p) => bits = Asked(p)) /\ a.obj.forced = obj.forced \ bits
  <2>1. Writes(p, "release", a) /\ "release" \in Flags
    BY DEF Outcome, FlagOf, Flags, Looking
  <2>2. QED
    BY <2>1, WritesForced
<1>3. a.ok = 1 => bits = Asked(p)
  BY <1>2 DEF Outcome
<1>4. held' \subseteq 0 .. obj'.width - 1 /\ stray' \subseteq 0 .. obj'.width - 1
  BY <1>1 DEF StateOK, SameObject
<1>5. obj'.forced \subseteq held' \cup stray'
  BY <1>1, <1>2, <1>3 DEF ForcesAccountedFor
<1>6. held' \subseteq obj'.forced \/ (tool' = "questa" /\ obj'.lang = "vhdl")
  BY <1>1, <1>2 DEF ForcesAccountedFor, SameObject
<1>7. Served(p) => obj'.forced \cap Asked(p) = {}
  BY <1>1, <1>2
<1>8. QED
  BY <1>4, <1>5, <1>6, <1>7 DEF ForcesAccountedFor

\* Deposits, of a test or of the design, do not touch what is forced.
LEMMA ForcesUntouched ==
  ASSUME ForcesAccountedFor, SameObject, obj'.forced = obj.forced,
         UNCHANGED <<held, stray>>
  PROVE  ForcesAccountedFor'
BY DEF ForcesAccountedFor, SameObject

LEMMA CallIsOutcome ==
  ASSUME StateOK, NEW call \in Calls, NEW p \in Names, Meaningful(call, p),
         NEW value \in Handed, NEW a \in Answers(call, p, value)
  PROVE  Outcome(call, p, a) /\ p \in Paths
<1>1. p \in Paths /\ value \in Buffer
  BY BackdoorAssumption
<1>2. QED
  BY <1>1, AnswersAreOutcomes DEF StateOK

\* The end of a delay releases every bit of the path.
LEMMA ForceTimeEndsKeeps ==
  ASSUME HdlInv, NEW t \in Tasks, ForceTimeEnds(t)
  PROVE  /\ HdlInv'
         /\ obj'.forced \cap Asked(timer[t]) = {}
<1> DEFINE p == timer[t]
<1>1. PICK value \in Handed : \E a \in Answers("release_and_read", timer[t], value) :
        Releases(timer[t], a)
  BY DEF ForceTimeEnds
<1>2. PICK a \in Answers("release_and_read", timer[t], value) : Releases(timer[t], a)
  BY <1>1
<1>3. /\ p # Idle /\ p \in Names /\ Meaningful("force", p) /\ Served(p)
      /\ timer' = [timer EXCEPT ![t] = Idle]
  BY BackdoorAssumption DEF HdlInv, StateOK, TimersServed, ForceTimeEnds
<1>4. Meaningful("release_and_read", p)
  BY <1>3 DEF Meaningful
<1>5. Outcome("release_and_read", p, a) /\ p \in Paths
  BY <1>2, <1>3, <1>4, CallIsOutcome DEF HdlInv, Calls
<1>6. /\ ForcesAccountedFor'
      /\ held' \subseteq 0 .. obj'.width - 1 /\ stray' \subseteq 0 .. obj'.width - 1
      /\ Served(p) => obj'.forced \cap Asked(p) = {}
  BY <1>2, <1>5, ReleasesKeeps DEF HdlInv
<1>7. /\ SameObject /\ tool' \in Tools /\ partsel' \in {0, 1} /\ finished' \in BOOLEAN
      /\ Object(obj)' /\ obj'.width \in Widths
  BY <1>2, <1>5, GoesKeeps DEF HdlInv, Releases, Calls
<1>8. timer' \in [Tasks -> TimedPaths \cup {Idle}]
  BY <1>3 DEF HdlInv, StateOK
<1>9. StateOK'
  BY <1>6, <1>7, <1>8 DEF StateOK, Idle, Path
<1>10. TimersServed'
  <2>1. ASSUME NEW u \in Tasks, timer'[u] # Idle
        PROVE  Meaningful("force", timer[u])' /\ Served(timer[u])'
    <3>1. timer'[u] = timer[u] /\ timer[u] # Idle
      BY <1>3, <2>1 DEF HdlInv, StateOK
    <3>2. Meaningful("force", timer[u]) /\ Served(timer[u])
      BY <3>1 DEF HdlInv, TimersServed
    <3>3. QED
      BY <1>7, <3>1, <3>2, PathsKeepMeaning
  <2>2. QED
    BY <2>1 DEF TimersServed, Idle, Path
<1>11. QED
  BY <1>3, <1>6, <1>9, <1>10 DEF HdlInv

LEMMA ForceTimeKeeps ==
  ASSUME HdlInv, NEW t \in Tasks, NEW p \in TimedPaths, NEW value \in Handed,
         Meaningful("force", p), ForceTime(t, p, value)
  PROVE  HdlInv'
<1>1. PICK a \in Answers("force", p, value) :
        /\ Forces(p, a)
        /\ timer' = [timer EXCEPT ![t] = IF a.ok = 1 THEN p ELSE Idle]
  BY DEF ForceTime
<1>2. Outcome("force", p, a) /\ p \in Paths
  BY <1>1, BackdoorAssumption, CallIsOutcome DEF HdlInv, Calls
<1>3. /\ ForcesAccountedFor'
      /\ held' \subseteq 0 .. obj'.width - 1 /\ stray' \subseteq 0 .. obj'.width - 1
  BY <1>1, <1>2, ForcesKeeps DEF HdlInv
<1>4. /\ SameObject /\ tool' \in Tools /\ partsel' \in {0, 1} /\ finished' \in BOOLEAN
      /\ Object(obj)' /\ obj'.width \in Widths
  BY <1>1, <1>2, GoesKeeps DEF HdlInv, Forces, Calls
<1>5. timer' \in [Tasks -> TimedPaths \cup {Idle}]
  BY <1>1 DEF HdlInv, StateOK
<1>6. StateOK'
  BY <1>3, <1>4, <1>5 DEF StateOK, Idle, Path
<1>7. TimersServed'
  <2>1. ASSUME NEW u \in Tasks, timer'[u] # Idle
        PROVE  Meaningful("force", timer[u])' /\ Served(timer[u])'
    <3>1. CASE u = t
      <4>1. timer'[u] = p /\ a.ok = 1
        BY <1>1, <2>1, <3>1 DEF HdlInv, StateOK
      <4>2. Served(p)
        BY <1>2, <4>1 DEF Outcome
      <4>3. QED
        BY <1>4, <4>1, <4>2, PathsKeepMeaning
    <3>2. CASE u # t
      <4>1. timer'[u] = timer[u] /\ timer[u] # Idle
        BY <1>1, <2>1, <3>2 DEF HdlInv, StateOK
      <4>2. Meaningful("force", timer[u]) /\ Served(timer[u])
        BY <4>1 DEF HdlInv, TimersServed
      <4>3. QED
        BY <1>4, <4>1, <4>2, PathsKeepMeaning
    <3>3. QED
      BY <3>1, <3>2
  <2>2. QED
    BY <2>1 DEF TimersServed, Idle, Path
<1>8. QED
  BY <1>3, <1>6, <1>7 DEF HdlInv

\* A step that leaves the timers, and keeps the rest of the invariant.
LEMMA TestCallKeeps ==
  ASSUME HdlInv, UNCHANGED timer, SameObject,
         tool' \in Tools, partsel' \in {0, 1}, finished' \in BOOLEAN,
         Object(obj)', obj'.width \in Widths, ForcesAccountedFor',
         held' \subseteq 0 .. obj'.width - 1, stray' \subseteq 0 .. obj'.width - 1
  PROVE  HdlInv'
<1>1. TimersServed'
  BY TimersStay DEF HdlInv
<1>2. StateOK'
  BY DEF HdlInv, StateOK, Idle, Path
<1>3. QED
  BY <1>1, <1>2 DEF HdlInv

LEMMA LooksKeeps ==
  ASSUME HdlInv, NEW call \in {"check_path", "read"}, NEW p \in Names,
         NEW value \in Handed,
         Meaningful(call, p), Looks(call, p, value)
  PROVE  HdlInv'
<1>1. PICK a \in Answers(call, p, value) : Goes(a)
  BY DEF Looks
<1>2. call \in Calls /\ Outcome(call, p, a)
  BY <1>1, CallIsOutcome DEF HdlInv, Calls
<1>3. /\ SameObject /\ obj' = a.obj /\ tool' \in Tools /\ partsel' \in {0, 1}
      /\ finished' \in BOOLEAN /\ Object(obj)' /\ obj'.width \in Widths
  BY <1>1, <1>2, GoesKeeps DEF HdlInv
<1>4. obj' = obj /\ UNCHANGED <<timer, held, stray>>
  BY <1>2, <1>3 DEF Outcome, Looking, Looks
<1>5. ForcesAccountedFor'
  BY <1>3, <1>4, ForcesUntouched DEF HdlInv
<1>6. held' \subseteq 0 .. obj'.width - 1 /\ stray' \subseteq 0 .. obj'.width - 1
  BY <1>4 DEF HdlInv, StateOK
<1>7. QED
  BY <1>3, <1>4, <1>5, <1>6, TestCallKeeps

LEMMA DepositKeeps ==
  ASSUME HdlInv, NEW p \in Names, NEW value \in Handed,
         Meaningful("deposit", p), Deposit(p, value)
  PROVE  HdlInv'
<1>1. PICK a \in Answers("deposit", p, value) : Goes(a)
  BY DEF Deposit
<1>2. "deposit" \in Calls /\ Outcome("deposit", p, a)
  BY <1>1, CallIsOutcome DEF HdlInv, Calls
<1>3. /\ SameObject /\ obj' = a.obj /\ tool' \in Tools /\ partsel' \in {0, 1}
      /\ finished' \in BOOLEAN /\ Object(obj)' /\ obj'.width \in Widths
  BY <1>1, <1>2, GoesKeeps DEF HdlInv
<1>4. obj'.forced = obj.forced /\ UNCHANGED <<timer, held, stray>>
  <2>1. Writes(p, "deposit", a) /\ "deposit" \in Flags
    BY <1>2 DEF Outcome, FlagOf, Flags, Looking
  <2>2. a.obj.forced = obj.forced
    BY <2>1, WritesForced
  <2>3. QED
    BY <1>3, <2>2 DEF Deposit
<1>5. ForcesAccountedFor'
  BY <1>3, <1>4, ForcesUntouched DEF HdlInv
<1>6. held' \subseteq 0 .. obj'.width - 1 /\ stray' \subseteq 0 .. obj'.width - 1
  BY <1>3, <1>4 DEF HdlInv, StateOK, SameObject
<1>7. QED
  BY <1>3, <1>4, <1>5, <1>6, TestCallKeeps

LEMMA ForceKeeps ==
  ASSUME HdlInv, NEW p \in Names, NEW value \in Handed,
         Meaningful("force", p), ForceUntilReleased(p, value)
  PROVE  HdlInv'
<1>1. PICK a \in Answers("force", p, value) : Forces(p, a)
  BY DEF ForceUntilReleased
<1>2. "force" \in Calls /\ Outcome("force", p, a) /\ p \in Paths
  BY <1>1, CallIsOutcome DEF HdlInv, Calls
<1>3. /\ ForcesAccountedFor'
      /\ held' \subseteq 0 .. obj'.width - 1 /\ stray' \subseteq 0 .. obj'.width - 1
  BY <1>1, <1>2, ForcesKeeps DEF HdlInv
<1>4. /\ SameObject /\ tool' \in Tools /\ partsel' \in {0, 1} /\ finished' \in BOOLEAN
      /\ Object(obj)' /\ obj'.width \in Widths
  BY <1>1, <1>2, GoesKeeps DEF HdlInv, Forces
<1>5. QED
  BY <1>3, <1>4, TestCallKeeps DEF ForceUntilReleased

LEMMA ReleaseKeeps ==
  ASSUME HdlInv, NEW call \in {"release", "release_and_read"}, NEW p \in Names,
         NEW value \in Handed, Meaningful(call, p), Release(call, p, value)
  PROVE  HdlInv'
<1>1. PICK a \in Answers(call, p, value) : Releases(p, a)
  BY DEF Release
<1>2. call \in Calls /\ Outcome(call, p, a) /\ p \in Paths
  BY <1>1, CallIsOutcome DEF HdlInv, Calls
<1>3. /\ ForcesAccountedFor'
      /\ held' \subseteq 0 .. obj'.width - 1 /\ stray' \subseteq 0 .. obj'.width - 1
  BY <1>1, <1>2, ReleasesKeeps DEF HdlInv
<1>4. /\ SameObject /\ tool' \in Tools /\ partsel' \in {0, 1} /\ finished' \in BOOLEAN
      /\ Object(obj)' /\ obj'.width \in Widths
  BY <1>1, <1>2, GoesKeeps DEF HdlInv, Releases
<1>5. QED
  BY <1>3, <1>4, TestCallKeeps DEF Release

LEMMA DesignWritesKeeps ==
  ASSUME HdlInv, NEW value \in DesignValues, DesignWrites(value)
  PROVE  HdlInv'
<1> DEFINE whole == Path("object", "whole", 0, 0)
<1>1. whole \in Paths /\ whole.sel = "whole"
  BY DEF Paths, Path
<1>2. /\ TargetBits(Target(obj, whole)) = 0 .. obj.width - 1
      /\ DOMAIN Target(obj, whole) = 0 .. obj.width - 1
  BY <1>1, BitsOfTarget DEF Target, HdlInv, StateOK
<1>3. \A i \in 0 .. obj.width - 1 : value[i] \in Logic
  BY BackdoorAssumption DEF HdlInv, StateOK
<1> HIDE DEF whole
<1>4. PutOn(obj, PutValue(obj, Target(obj, whole), value, "deposit"), 0 .. obj.width - 1,
            "deposit")
  BY <1>2, <1>3, PutValuePutsOn DEF HdlInv, StateOK, Flags
<1>5. obj' = PutValue(obj, Target(obj, whole), value, "deposit")
  BY DEF DesignWrites, whole
<1>6. /\ Object(obj') /\ obj'.lang = obj.lang /\ obj'.width = obj.width
      /\ obj'.forced = obj.forced
  BY <1>4, <1>5 DEF PutOn
<1>7. UNCHANGED <<tool, partsel, finished, timer, held, stray>> /\ SameObject
  BY <1>6 DEF DesignWrites, SameObject
<1>8. ForcesAccountedFor'
  BY <1>6, <1>7, ForcesUntouched DEF HdlInv
<1>9. /\ tool' \in Tools /\ partsel' \in {0, 1} /\ finished' \in BOOLEAN
      /\ Object(obj)' /\ obj'.width \in Widths
      /\ held' \subseteq 0 .. obj'.width - 1 /\ stray' \subseteq 0 .. obj'.width - 1
  BY <1>6, <1>7 DEF HdlInv, StateOK, Object
<1>10. QED
  BY <1>7, <1>8, <1>9, TestCallKeeps

LEMMA NextHdlInv == HdlInv /\ [Next]_vars => HdlInv'
<1> SUFFICES ASSUME HdlInv, [Next]_vars PROVE HdlInv'
  OBVIOUS
<1>1. ASSUME NEW p \in Names, NEW value \in Handed, NEW call \in {"check_path", "read"},
             Meaningful(call, p), Looks(call, p, value)
      PROVE  HdlInv'
  BY <1>1, LooksKeeps
<1>2. ASSUME NEW p \in Names, NEW value \in Handed,
             Meaningful("deposit", p), Deposit(p, value)
      PROVE  HdlInv'
  BY <1>2, DepositKeeps
<1>3. ASSUME NEW p \in Names, NEW value \in Handed,
             Meaningful("force", p), ForceUntilReleased(p, value)
      PROVE  HdlInv'
  BY <1>3, ForceKeeps
<1>4. ASSUME NEW p \in Names, NEW value \in Handed,
             NEW call \in {"release", "release_and_read"},
             Meaningful(call, p), Release(call, p, value)
      PROVE  HdlInv'
  BY <1>4, ReleaseKeeps
<1>5. ASSUME NEW t \in Tasks, NEW p \in TimedPaths, NEW value \in Handed,
             Meaningful("force", p), ForceTime(t, p, value)
      PROVE  HdlInv'
  BY <1>5, ForceTimeKeeps
<1>6. ASSUME NEW t \in Tasks, ForceTimeEnds(t) PROVE HdlInv'
  BY <1>6, ForceTimeEndsKeeps
<1>7. ASSUME NEW value \in DesignValues, DesignWrites(value) PROVE HdlInv'
  BY <1>7, DesignWritesKeeps
<1>8. CASE UNCHANGED vars
  <2>1. UNCHANGED timer /\ SameObject
        /\ UNCHANGED <<tool, obj, partsel, finished, held, stray>>
    BY <1>8 DEF vars, SameObject
  <2>2. ForcesAccountedFor'
    BY <2>1, ForcesUntouched DEF HdlInv
  <2>3. /\ tool' \in Tools /\ partsel' \in {0, 1} /\ finished' \in BOOLEAN
        /\ Object(obj)' /\ obj'.width \in Widths
        /\ held' \subseteq 0 .. obj'.width - 1 /\ stray' \subseteq 0 .. obj'.width - 1
    BY <2>1 DEF HdlInv, StateOK, Object
  <2>4. QED
    BY <2>1, <2>2, <2>3, TestCallKeeps
<1>9. QED
  BY <1>1, <1>2, <1>3, <1>4, <1>5, <1>6, <1>7, <1>8 DEF Next

LEMMA HdlInvAlways == Spec => []HdlInv
<1>1. QED
  BY InitHdlInv, NextHdlInv, PTL DEF Spec

-----------------------------------------------------------------------------
(* The theorems.                                                            *)

\* Every forced bit is held by a force that succeeded or left by a call that
\* reported failure half way, and what a force reported held is forced: the
\* bookkeeping a register model does of uvm_hdl_force and uvm_hdl_release.
THEOREM ForcesAccountedForAlways == Spec => []ForcesAccountedFor
<1>1. HdlInv => ForcesAccountedFor
  BY DEF HdlInv
<1>2. QED
  BY <1>1, HdlInvAlways, PTL

\* When the delay of a uvm_hdl_force_time ends, none of its bits stays forced.
THEOREM ForceTimeLetsGoAlways == Spec => ForceTimeLetsGo
<1> DEFINE LetsGo(t) == timer[t] # Idle /\ timer'[t] = Idle =>
                          obj'.forced \cap Asked(timer[t]) = {}
<1>1. ASSUME HdlInv, [Next]_vars, NEW t \in Tasks PROVE LetsGo(t)
  <2> SUFFICES ASSUME timer[t] # Idle, timer'[t] = Idle
               PROVE  obj'.forced \cap Asked(timer[t]) = {}
    OBVIOUS
  <2>1. timer' # timer
    OBVIOUS
  <2>2. CASE \E u \in Tasks, p \in TimedPaths, value \in Handed : ForceTime(u, p, value)
    <3>1. PICK u \in Tasks, p \in TimedPaths : timer[u] = Idle
             /\ \E q : timer' = [timer EXCEPT ![u] = q]
      BY <2>2 DEF ForceTime
    <3>2. timer'[t] = timer[t]
      BY <3>1 DEF HdlInv, StateOK
    <3>3. QED
      BY <3>2
  <2>3. CASE \E u \in Tasks : ForceTimeEnds(u)
    <3>1. PICK u \in Tasks : ForceTimeEnds(u)
      BY <2>3
    <3>2. u = t
      BY <1>1, <3>1 DEF ForceTimeEnds, HdlInv, StateOK
    <3>3. QED
      BY <1>1, <3>1, <3>2, ForceTimeEndsKeeps
  <2>4. QED
    BY <1>1, <2>1, <2>2, <2>3
       DEF Next, Looks, Deposit, ForceUntilReleased, Release, DesignWrites, vars
<1>2. HdlInv /\ [Next]_vars => [\A t \in Tasks : LetsGo(t)]_vars
  BY <1>1
<1>3. QED
  BY <1>2, HdlInvAlways, PTL DEF Spec, ForceTimeLetsGo

\* What the calls promise of any state they are made in follows from what
\* their answers are like.
LEMMA SampleIsOutcome ==
  ASSUME HdlInv, NEW call \in Calls, NEW p \in Names, NEW value \in Samples,
         Meaningful(call, p), NEW a \in Answers(call, p, value)
  PROVE  Outcome(call, p, a)
<1>1. p \in Paths /\ value \in Buffer
  BY BackdoorAssumption
<1>2. QED
  BY <1>1, AnswersAreOutcomes DEF HdlInv, StateOK

\* A call never changes or holds a bit outside the bits that its path names,
\* and check_path and read change nothing.
THEOREM CallsStayInTheirBitsAlways == Spec => []CallsStayInTheirBits
<1>1. HdlInv => CallsStayInTheirBits
  <2> SUFFICES ASSUME HdlInv, NEW call \in Calls, NEW p \in Names, NEW value \in Samples,
                      Meaningful(call, p), NEW a \in Answers(call, p, value)
               PROVE  /\ \A b \in (0 .. obj.width - 1) \ Asked(p) :
                           /\ a.obj.val[b] = obj.val[b]
                           /\ b \in a.obj.forced <=> b \in obj.forced
                      /\ call \in {"check_path", "read"} => a.obj = obj
    BY DEF CallsStayInTheirBits
  <2>1. Outcome(call, p, a)
    BY SampleIsOutcome
  <2>2. CASE call \in Looking
    BY <2>1, <2>2 DEF Outcome
  <2>3. CASE call \notin Looking
    <3>1. Writes(p, FlagOf(call), a) /\ FlagOf(call) \in Flags
      BY <2>1, <2>3 DEF Outcome, FlagOf, Flags, Calls, Looking
    <3>2. QED
      BY <2>3, <3>1, WritesKeepShape DEF Looking
  <2>4. QED
    BY <2>2, <2>3
<1>2. QED
  BY <1>1, HdlInvAlways, PTL

\* Every variable keeps its type, and every backend answers 0 or 1 with a value
\* of four-state bits and an object as wide as it was.
THEOREM HdlTypeOKAlways == Spec => []HdlTypeOK
<1>1. HdlInv => HdlTypeOK
  <2> SUFFICES ASSUME HdlInv PROVE HdlTypeOK
    OBVIOUS
  <2>1. ASSUME NEW call \in Calls, NEW p \in Names, NEW value \in Samples,
               Meaningful(call, p), NEW a \in Answers(call, p, value)
        PROVE  /\ a.ok \in {0, 1} /\ a.value \in Buffer
               /\ a.obj.val \in [0 .. obj.width - 1 -> Logic]
    <3>1. Outcome(call, p, a)
      BY <2>1, SampleIsOutcome
    <3>2. Object(a.obj) /\ a.obj.width = obj.width
      <4>1. CASE call \in Looking
        BY <3>1, <4>1 DEF Outcome, HdlInv, StateOK
      <4>2. CASE call \notin Looking
        <5>1. Writes(p, FlagOf(call), a) /\ FlagOf(call) \in Flags
          BY <2>1, <3>1, <4>2 DEF Outcome, FlagOf, Flags, Calls, Looking
        <5>2. QED
          BY <5>1, WritesKeepShape
      <4>3. QED
        BY <4>1, <4>2
    <3>3. QED
      BY <3>1, <3>2 DEF Outcome, Object
  <2>2. QED
    BY <2>1 DEF HdlTypeOK, HdlInv, StateOK, Object
<1>2. QED
  BY <1>1, HdlInvAlways, PTL

\* A path that checks is served by every other call that the simulation
\* survives, and it survives all but Xcelium's reads of VHDL wider than a chunk;
\* one that does not check is refused, but for ranges that Questa and Xcelium
\* take apart and for reads that VCSMX leaves to chance; and no read of too wide
\* a path reports success.
THEOREM CheckedPathsAnswerAlways == Spec => []CheckedPathsAnswer
<1>1. HdlInv => CheckedPathsAnswer
  <2> SUFFICES ASSUME HdlInv, NEW p \in Names, NEW value \in Samples, NEW call \in Calls,
                      Meaningful(call, p), NEW c \in Answers("check_path", p, value),
                      NEW a \in Answers(call, p, value)
               PROVE  /\ WiderThanValue(p) /\ call = "read" => a.ok = 0 \/ LeftToChance(p)
                      /\ c.ok = 1 /\ (WiderThanValue(p) => call = "check_path") =>
                           (a.ok = 1 /\ ~a.finish) \/ (a.finish /\ MayDie(call))
                      /\ c.ok = 0 /\ ~(IsSlice(p) /\ InReach(obj, p)) =>
                           a.ok = 0 \/ (call = "read" /\ LeftToChance(p))
    BY DEF CheckedPathsAnswer
  <2>1. Outcome(call, p, a)
    BY SampleIsOutcome
  <2>2. Outcome("check_path", p, c)
    <3>1. Meaningful("check_path", p) /\ "check_path" \in Calls
      BY DEF Meaningful, Calls
    <3>2. QED
      BY <3>1, SampleIsOutcome
  <2>3. /\ c.ok = 1 => Checks(p)
        /\ c.ok = 0 => ~Checks(p)
    BY <2>2 DEF Outcome, MayDie
  <2>4. WiderThanValue(p) /\ call = "read" => a.ok = 0 \/ LeftToChance(p)
    BY <2>1 DEF Outcome
  <2>5. c.ok = 1 /\ (WiderThanValue(p) => call = "check_path") =>
          (a.ok = 1 /\ ~a.finish) \/ (a.finish /\ MayDie(call))
    BY <2>1, <2>3 DEF Outcome
  <2>6. c.ok = 0 /\ ~(IsSlice(p) /\ InReach(obj, p)) =>
          a.ok = 0 \/ (call = "read" /\ LeftToChance(p))
    <3>1. a.ok = 0 \/ a.ok = 1
      BY <2>1 DEF Outcome
    <3>2. a.ok = 1 => Served(p) \/ (call = "read" /\ LeftToChance(p))
      BY <2>1 DEF Outcome
    <3>3. Served(p) /\ ~Checks(p) => IsSlice(p) /\ InReach(obj, p)
      BY DEF Served, Checks
    <3>4. QED
      BY <2>3, <3>1, <3>2, <3>3
  <2>7. QED
    BY <2>4, <2>5, <2>6
<1>2. QED
  BY <1>1, HdlInvAlways, PTL

-----------------------------------------------------------------------------
(* Writing. What a deposit or force that succeeds puts on the bits of its   *)
(* path is the value it was called with, whichever way a backend carries it *)
(* there.                                                                   *)

\* The value's own bits are put on the path's, as a deposit or a force.
Placed(p, flag, value, a) ==
  \E done \in {"deposit", "force"} : \E source :
    /\ InReach(obj, p)
    /\ Done(flag, done)
    /\ a.obj = PutValue(obj, Target(obj, p), source, done)
    /\ \A i \in DOMAIN Target(obj, p) : source[i] = value[i]

\* No two positions of a value go to the same bit.
LEMMA TargetIsInjective ==
  ASSUME NEW o, Object(o), NEW p \in Paths,
         NEW i \in DOMAIN Target(o, p), NEW j \in DOMAIN Target(o, p),
         Target(o, p)[i] = Target(o, p)[j]
  PROVE  i = j
<1>1. /\ p.sel \in {"whole", "bit", "range"} /\ p.l \in Nat /\ p.r \in Nat
      /\ o.width \in Nat /\ SliceWidth(p) \in Nat
  BY SliceBits DEF Paths, Object
<1>2. CASE p.sel = "whole"
  BY <1>2 DEF Target
<1>3. CASE p.sel = "bit"
  <2>1. DOMAIN Target(o, p) = 0 .. 0
    BY <1>3 DEF Target
  <2>2. QED
    BY <2>1
<1>4. CASE p.sel = "range"
  <2>1. /\ i \in 0 .. SliceWidth(p) - 1 /\ j \in 0 .. SliceWidth(p) - 1
        /\ SliceBit(p, i) = SliceBit(p, j)
    BY <1>4 DEF Target
  <2>2. QED
    BY <1>1, <2>1 DEF SliceBit
<1>5. QED
  BY <1>1, <1>2, <1>3, <1>4

LEMMA PutPlaces ==
  ASSUME NEW o, Object(o), NEW p \in Paths, InReach(o, p), NEW source,
         NEW done \in {"deposit", "force"}, NEW i \in DOMAIN Target(o, p)
  PROVE  \/ PutValue(o, Target(o, p), source, done).val[Target(o, p)[i]] = source[i]
         \/ done = "deposit" /\ Target(o, p)[i] \in o.forced
<1> DEFINE t == Target(o, p)
           from(b) == source[CHOOSE k \in DOMAIN t : t[k] = b]
<1>1. t[i] \in TargetBits(t) /\ TargetBits(t) \subseteq 0 .. o.width - 1
  BY InReachAsksForTarget, AskedInObject DEF TargetBits
<1>2. DOMAIN o.val = 0 .. o.width - 1
  BY DEF Object
<1>3. from(t[i]) = source[i]
  <2>1. (CHOOSE k \in DOMAIN t : t[k] = t[i]) = i
    BY TargetIsInjective
  <2>2. QED
    BY <2>1
<1> HIDE DEF from, t
<1>4. CASE done = "deposit"
  <2> DEFINE val == [b \in DOMAIN o.val |->
                       IF b \in TargetBits(t) \ o.forced THEN from(b) ELSE o.val[b]]
  <2>1. PutValue(o, t, source, done) = [o EXCEPT !.val = val]
    BY <1>4 DEF PutValue, from
  <2>2. t[i] \notin o.forced => val[t[i]] = source[i]
    BY <1>1, <1>2, <1>3
  <2> HIDE DEF val
  <2>3. [o EXCEPT !.val = val].val = val
    <3>1. [o EXCEPT !.val = val]
            = [lang |-> o.lang, width |-> o.width, val |-> val, forced |-> o.forced]
      BY ObjectWith
    <3>2. QED
      BY <3>1
  <2>4. QED
    BY <1>4, <2>1, <2>2, <2>3 DEF t
<1>5. CASE done = "force"
  <2> DEFINE val == [b \in DOMAIN o.val |->
                       IF b \in TargetBits(t) THEN from(b) ELSE o.val[b]]
             forced == o.forced \cup TargetBits(t)
  <2>1. PutValue(o, t, source, done) = [o EXCEPT !.val = val, !.forced = forced]
    BY <1>5 DEF PutValue, from
  <2>2. val[t[i]] = source[i]
    BY <1>1, <1>2, <1>3
  <2> HIDE DEF val
  <2>3. PutValue(o, t, source, done)
          = [lang |-> o.lang, width |-> o.width, val |-> val, forced |-> forced]
    BY <2>1, ObjectWith
  <2>4. QED
    BY <2>2, <2>3 DEF t
<1>6. QED
  BY <1>4, <1>5

LEMMA PlacedIsWritten ==
  ASSUME Object(obj), NEW p \in Paths,
         NEW flag \in {"deposit", "force"}, NEW value, NEW a,
         Placed(p, flag, value, a), NEW i \in DOMAIN Target(obj, p)
  PROVE  \/ a.obj.val[Target(obj, p)[i]] = value[i]
         \/ /\ flag = "deposit" \/ (tool = "questa" /\ obj.lang = "vhdl")
            /\ Target(obj, p)[i] \in obj.forced
<1>1. PICK done \in {"deposit", "force"} : \E source :
        /\ InReach(obj, p)
        /\ Done(flag, done)
        /\ a.obj = PutValue(obj, Target(obj, p), source, done)
        /\ \A j \in DOMAIN Target(obj, p) : source[j] = value[j]
  BY DEF Placed
<1>2. PICK source :
        /\ InReach(obj, p)
        /\ Done(flag, done)
        /\ a.obj = PutValue(obj, Target(obj, p), source, done)
        /\ \A j \in DOMAIN Target(obj, p) : source[j] = value[j]
  BY <1>1
<1>3. \/ PutValue(obj, Target(obj, p), source, done).val[Target(obj, p)[i]] = source[i]
      \/ done = "deposit" /\ Target(obj, p)[i] \in obj.forced
  BY <1>2, PutPlaces
<1>4. source[i] = value[i]
  BY <1>2
<1>5. QED
  BY <1>2, <1>3, <1>4 DEF Done

LEMMA ReachedAllIsTarget ==
  ASSUME NEW o, NEW p, IsSlice(p), AllReached(o, p)
  PROVE  ReachedTarget(o, p) = Target(o, p)
BY DEF ReachedTarget, AllReached, Target, IsSlice

\* A digit of VHDL for a bit that is known is that bit.
LEMMA FitsIsKnown ==
  ASSUME NEW value, Fits(value), NEW i \in 0 .. MAX_WIDTH - 1
  PROVE  value[i] \in {0, 1} /\ (i >= obj.width => value[i] = 0)
BY DEF Fits, Known, sv_0, sv_1

LEMMA QuestaPlaces ==
  ASSUME Object(obj), tool = "questa", NEW p \in Paths, Meaningful("force", p),
         NEW value \in Buffer, obj.lang = "vhdl" => Fits(value) /\ p.sel # "bit",
         NEW flag \in {"deposit", "force"}, NEW ps \in {0, 1},
         NEW a \in Questa!Set(obj, p, value, ps, flag), a.ok = 1
  PROVE  Placed(p, flag, value, a)
<1> DEFINE vhdl == obj.lang = "vhdl" /\ p.name = "object"
           w == obj.width
<1>1. /\ obj.lang \in {"vlog", "vhdl"} /\ w \in Nat \ {0}
      /\ p.sel \in {"whole", "bit", "range"} /\ p.l \in Nat /\ p.r \in Nat
      /\ p.sel = "whole" => p.l = 0 /\ p.r = 0
  BY DEF Object, Paths
<1>2. ~WiderThanValue(p) /\ (vhdl /\ p.sel # "whole" => InReach(obj, p))
  BY DEF Meaningful
<1>3. CASE vhdl
  <2> DEFINE string == [k \in 0 .. w - 1 |-> value[w - 1 - k]]
             digit(k) == IF string[k] = sv_1 THEN sv_1 ELSE sv_0
             source ==
               CASE p.sel = "whole" -> [i \in 0 .. w - 1 |-> string[(w - 1) - i]]
                 [] p.sel = "bit"   -> [i \in {0} |-> digit((w - 1) - p.l)]
                 [] p.sel = "range" ->
                            [i \in 0 .. SliceWidth(p) - 1 |-> digit((w - i) - 1)]
             done == IF p.sel = "whole" THEN flag
                     ELSE IF flag = "release" THEN "release" ELSE "deposit"
  <2>1. a = Questa!Keeping(
                Answer(1, PutValue(obj, Target(obj, p), source, done), value), ps)
    BY <1>3, QuestaSim
       DEF Questa!Set, Questa!uvm_is_vhdl_path, Questa!uvm_register_set_vhdl,
           Questa!vecval_to_string, Questa!sv_0, Questa!sv_1, sv_0, sv_1
  <2>2. InReach(obj, p)
    BY <1>1, <1>2, <1>3 DEF InReach
  <2>3. done \in {"deposit", "force"} /\ Done(flag, done)
    BY <1>3 DEF Done
  <2>4. \A i \in DOMAIN Target(obj, p) : i \in 0 .. MAX_WIDTH - 1
    BY <1>2, <1>3, ValueReaches
  <2>5. ASSUME NEW i \in DOMAIN Target(obj, p) PROVE source[i] = value[i]
    <3>1. value[i] \in {0, 1}
      BY <1>3, <2>4, FitsIsKnown
    <3>2. CASE p.sel = "whole"
      <4>1. i \in 0 .. w - 1
        BY <3>2, <2>5 DEF Target
      <4>2. (w - 1) - i \in 0 .. w - 1 /\ w - 1 - ((w - 1) - i) = i
        BY <1>1, <4>1
      <4>3. QED
        BY <3>2, <4>1, <4>2
    <3>3. CASE p.sel = "range"
      <4>1. i \in 0 .. SliceWidth(p) - 1
        BY <3>3, <2>5 DEF Target
      <4>2. (w - i) - 1 \in 0 .. w - 1 /\ w - 1 - ((w - i) - 1) = i
        BY <1>1, <2>2, <4>1 DEF SliceWidth, InReach
      <4>3. string[(w - i) - 1] = value[i]
        BY <4>2
      <4>4. digit((w - i) - 1) = value[i]
        BY <3>1, <4>3 DEF sv_0, sv_1
      <4> HIDE DEF digit
      <4>5. QED
        BY <3>3, <4>1, <4>4
    <3>4. QED
      BY <1>1, <1>3, <3>2, <3>3
  <2> HIDE DEF source, done
  <2>6. a.obj = PutValue(obj, Target(obj, p), source, done)
    BY <2>1 DEF Questa!Keeping, Answer
  <2>7. QED
    BY <2>2, <2>3, <2>5, <2>6 DEF Placed
<1>4. CASE ~vhdl /\ IsSlice(p)
  <2> DEFINE ok == IF AllReached(obj, p) THEN 1 ELSE 0
             put == PutValue(obj, ReachedTarget(obj, p), value, flag)
  <2>1. a = Questa!Keeping(Answer(ok, put, value), ps)
    BY <1>4, QuestaSim
       DEF Questa!Set, Questa!uvm_is_vhdl_path, Questa!uvm_hdl_set_vlog,
           Questa!uvm_hdl_set_vlog_partsel
  <2> HIDE DEF put
  <2>2. a.ok = ok /\ a.obj = put
    BY <2>1 DEF Questa!Keeping, Answer
  <2>3. AllReached(obj, p)
    BY <2>2
  <2>4. QED
    BY <1>4, <2>2, <2>3, ReachedAllIsTarget, ReachedBits DEF Placed, Done, put
<1>5. CASE ~vhdl /\ ~IsSlice(p)
  <2> DEFINE served == VlogResolves(obj, p)
             put == PutValue(obj, Target(obj, p), value, flag)
  <2>1. a = Questa!Keeping(IF served THEN Answer(1, put, value)
                            ELSE Answer(0, obj, value), ps)
    BY <1>5, QuestaSim
       DEF Questa!Set, Questa!uvm_is_vhdl_path, Questa!uvm_hdl_set_vlog
  <2> HIDE DEF put, served
  <2>2. a.ok = (IF served THEN 1 ELSE 0) /\ (served => a.obj = put)
    BY <2>1 DEF Questa!Keeping, Answer
  <2>3. QED
    BY <2>2 DEF Placed, Done, put, served, VlogResolves
<1>6. QED
  BY <1>3, <1>4, <1>5

\* The bits of a chunk are all of a value.
LEMMA ChunkInValue ==
  ASSUME NEW i \in 0 .. MAX_WIDTH - 1
  PROVE  i \div CHUNK \in 0 .. MAX_CHUNKS - 1
<1>1. /\ CHUNK \in Nat \ {0} /\ MAX_CHUNKS \in Nat \ {0} /\ i \in Nat
      /\ i < CHUNK * MAX_CHUNKS
  BY ChunkAssumption DEF MAX_WIDTH
<1> DEFINE q == i \div CHUNK
<1>2. q \in Nat /\ q * CHUNK <= i
  BY <1>1, ChunkOfBit
<1> HIDE DEF q
<1>3. q >= MAX_CHUNKS => q * CHUNK >= CHUNK * MAX_CHUNKS
  BY <1>1, <1>2
<1>4. q < MAX_CHUNKS
  BY <1>1, <1>2, <1>3
<1>5. QED
  BY <1>1, <1>2, <1>4 DEF q

\* The unmasked index does no harm where every bit is known.
LEMMA VhpiOfKnown ==
  ASSUME NEW value, Fits(value), NEW i \in 0 .. MAX_WIDTH - 1
  PROVE  Xcelium!vhpi2val(value, i) = value[i]
<1> DEFINE first == (i \div CHUNK) * CHUNK
           last == first + CHUNK - 1
           counted == IF i = first THEN i .. last - 1 ELSE i .. last
<1>1. /\ i \in Nat /\ i \div CHUNK \in 0 .. MAX_CHUNKS - 1 /\ CHUNK \in Nat \ {0}
      /\ first \in Nat /\ first <= i
  BY ChunkInValue, ChunkOfBit, ChunkAssumption
<1> MAX_WIDTH \in Nat
  BY ChunkAssumption DEF MAX_WIDTH
<1>2. first + (CHUNK - 1) \in 0 .. MAX_WIDTH - 1
  BY <1>1, BitOfChunk
<1>3. Xcelium!vhpi2val(value, i)
        = IF aval(value[i]) = 1 \/ \E k \in counted : bval(value[k]) = 1 THEN 1 ELSE 0
  BY DEF Xcelium!vhpi2val, Xcelium!aval, aval, Xcelium!bval, bval,
         Xcelium!sv_0, Xcelium!sv_1
<1> HIDE DEF first
<1>4. counted \subseteq 0 .. MAX_WIDTH - 1
  BY <1>1, <1>2
<1>5. \A k \in counted : value[k] \in {0, 1}
  BY <1>4, FitsIsKnown
<1>6. \A k \in counted : bval(value[k]) # 1
  <2>1. \A l \in {0, 1} : bval(l) # 1
    BY DEF bval
  <2>2. QED
    BY <1>5, <2>1
<1>7. value[i] \in {0, 1}
  BY FitsIsKnown
<1>8. \A l \in {0, 1} : (IF aval(l) = 1 THEN 1 ELSE 0) = l
  BY DEF aval
<1> HIDE DEF counted
<1>9. QED
  BY <1>3, <1>6, <1>7, <1>8

LEMMA XceliumPlaces ==
  ASSUME Object(obj), tool = "xcelium", NEW p \in Paths, Meaningful("force", p),
         NEW value \in Buffer, obj.lang = "vhdl" => Fits(value),
         NEW flag \in {"deposit", "force"},
         NEW a \in Xcelium!Set(obj, p, value, flag), a.ok = 1
  PROVE  Placed(p, flag, value, a)
<1>1. CASE IsSlice(p)
  <2> DEFINE put == PutValue(obj, ReachedTarget(obj, p), value, flag)
  <2>1. a = Answer(IF AllReached(obj, p) THEN 1 ELSE 0, put, value)
    BY <1>1, XceliumSim
       DEF Xcelium!Set, Xcelium!is_valid_path_slice, Xcelium!uvm_hdl_set_vlog_partsel
  <2> HIDE DEF put
  <2>2. a.ok = (IF AllReached(obj, p) THEN 1 ELSE 0) /\ a.obj = put
    BY <2>1 DEF Answer
  <2>3. AllReached(obj, p)
    BY <2>2
  <2>4. InReach(obj, p) /\ a.obj = PutValue(obj, Target(obj, p), value, flag)
    BY <1>1, <2>2, <2>3, ReachedAllIsTarget, ReachedBits DEF put
  <2>5. QED
    BY <2>4 DEF Placed, Done
<1>2. CASE ~IsSlice(p)
  <2>1. PICK language \in Xcelium!m_uvm_get_object_handle(obj, p) :
          a = XceliumSet(language, p, value, flag)
    BY <1>2, XceliumSim DEF Xcelium!Set, Xcelium!is_valid_path_slice, XceliumSet
  <2>2. /\ SetAnswer(p, flag, value, a)
        /\ Xcelium!Found(obj, p) <=> Served(p)
        /\ Xcelium!Found(obj, p) => language = obj.lang
    BY <1>2, <2>1, XceliumSetsNames DEF Flags
  <2>3. Served(p) /\ InReach(obj, p) /\ p.name = "object" /\ Xcelium!Found(obj, p)
    BY <2>2 DEF SetAnswer, Served, InReach
  <2>4. ~WiderThanValue(p) /\ obj.lang \in {"vlog", "vhdl"}
    BY DEF Meaningful, Object
  <2>5. CASE obj.lang = "vlog"
    <3>1. VlogResolves(obj, p)
      BY <1>2, <2>3, <2>5 DEF VlogResolves
    <3>2. a = Answer(1, PutValue(obj, Target(obj, p), value, flag), value)
      BY <2>1, <2>2, <2>3, <2>5, <3>1, XceliumSim DEF XceliumSet, Xcelium!uvm_hdl_set_vlog
    <3>3. a.obj = PutValue(obj, Target(obj, p), value, flag)
      BY <3>2 DEF Answer
    <3>4. QED
      BY <2>3, <3>3 DEF Placed, Done
  <2>6. CASE obj.lang = "vhdl"
    <3> DEFINE bits == [i \in 0 .. obj.width - 1 |-> Xcelium!vhpi2val(value, i)]
    <3>1. a = Answer(1, PutValue(obj, Target(obj, p), bits, flag), value)
      BY <2>1, <2>2, <2>3, <2>6, XceliumSim DEF XceliumSet, Xcelium!uvm_hdl_set_vhdl
    <3>2. \A i \in DOMAIN Target(obj, p) : bits[i] = value[i]
      <4>1. DOMAIN Target(obj, p) = 0 .. obj.width - 1
        <5>1. p.sel = "whole"
          BY <2>6 DEF Meaningful
        <5>2. QED
          BY <5>1 DEF Target
      <4>2. \A i \in DOMAIN Target(obj, p) : i \in 0 .. MAX_WIDTH - 1
        BY <2>3, <2>4, ValueReaches
      <4>3. \A i \in DOMAIN Target(obj, p) : Xcelium!vhpi2val(value, i) = value[i]
        BY <2>6, <4>2, VhpiOfKnown
      <4>4. QED
        BY <4>1, <4>3
    <3> HIDE DEF bits
    <3>3. a.obj = PutValue(obj, Target(obj, p), bits, flag)
      BY <3>1 DEF Answer
    <3>4. QED
      BY <2>3, <3>2, <3>3 DEF Placed, Done
  <2>7. QED
    BY <2>4, <2>5, <2>6
<1>3. QED
  BY <1>1, <1>2

-----------------------------------------------------------------------------
(* Under VCSMX a value goes to a VHDL object as a string of digits.         *)

\* A chunk in full is its bits, the highest first.
LEMMA LowDigits ==
  ASSUME NEW value, NEW chunk, NEW b \in 0 .. CHUNK - 1
  PROVE  Vcs!uvm_hdl_dtob(value, chunk, FALSE)[CHUNK - 1 - b]
           = aval(value[chunk * CHUNK + b])
<1>1. CHUNK \in Nat \ {0} /\ b \in Nat
  BY ChunkAssumption
<1> DEFINE bit(k) == aval(value[chunk * CHUNK + k])
<1>2. Vcs!uvm_hdl_dtob(value, chunk, FALSE)
        = [k \in 0 .. CHUNK - 1 |-> bit(CHUNK - 1 - k)]
  BY DEF Vcs!uvm_hdl_dtob, Vcs!aval, aval
<1>3. CHUNK - 1 - b \in 0 .. CHUNK - 1 /\ CHUNK - 1 - (CHUNK - 1 - b) = b
  BY <1>1
<1> HIDE DEF bit
<1>4. Vcs!uvm_hdl_dtob(value, chunk, FALSE)[CHUNK - 1 - b] = bit(b)
  BY <1>2, <1>3
<1>5. QED
  BY <1>4 DEF bit

LEMMA CountFromOne ==
  \A n \in Nat \ {0} : IsFiniteSet(1 .. n - 1) /\ Cardinality(1 .. n - 1) = n - 1
<1>1. ASSUME NEW n \in Nat \ {0}
      PROVE  IsFiniteSet(1 .. n - 1) /\ Cardinality(1 .. n - 1) = n - 1
  <2>1. /\ 1 \in Int /\ n - 1 \in Int
        /\ (IF 1 > n - 1 THEN 0 ELSE (n - 1) - 1 + 1) = n - 1
    OBVIOUS
  <2>2. QED
    BY <2>1, FS_Interval
<1>2. QED
  BY <1>1

\* The n digits are a chunk's bits, the highest first, and what they leave out is 0.
DigitsAre(digits, value, chunk, n) ==
  /\ DOMAIN digits = 0 .. n - 1
  /\ \A b \in 0 .. n - 1 : digits[n - 1 - b] = aval(value[chunk * CHUNK + b])
  /\ \A b \in n .. CHUNK - 1 : value[chunk * CHUNK + b] = 0

\* The most significant chunk gives up to its highest 1: no more digits than
\* the object has room for, if the value fits, and only zeros are left out.
LEMMA TopDigits ==
  ASSUME Object(obj), NEW value, Fits(value), NEW chunk \in 0 .. MAX_CHUNKS - 1,
         NEW room \in Nat \ {0}, obj.width = chunk * CHUNK + room
  PROVE  \E n \in 1 .. room :
           DigitsAre(Vcs!uvm_hdl_dtob(value, chunk, TRUE), value, chunk, n)
<1> DEFINE top(b) == value[chunk * CHUNK + b]
           bit(b) == aval(top(b))
           places == {b \in 1 .. CHUNK - 1 : \E h \in b .. CHUNK - 1 : bit(h) = 1}
           length == 1 + Cardinality(places)
<1>1. CHUNK \in Nat \ {0} /\ chunk \in Nat /\ chunk * CHUNK \in Nat
  BY ChunkAssumption
<1>2. \A b \in 0 .. CHUNK - 1 : top(b) \in {0, 1} /\ (b >= room => top(b) = 0)
  <2>1. ASSUME NEW b \in 0 .. CHUNK - 1
        PROVE  top(b) \in {0, 1} /\ (b >= room => top(b) = 0)
    <3>1. chunk * CHUNK + b \in 0 .. MAX_WIDTH - 1
      BY BitOfChunk
    <3>2. top(b) \in {0, 1} /\ (chunk * CHUNK + b >= obj.width => top(b) = 0)
      BY <3>1, FitsIsKnown
    <3>3. b >= room => chunk * CHUNK + b >= obj.width
      BY <1>1
    <3>4. QED
      BY <3>2, <3>3
  <2>2. QED
    BY <2>1
<1>3. Vcs!uvm_hdl_dtob(value, chunk, TRUE)
        = [k \in 0 .. length - 1 |-> bit(length - 1 - k)]
  BY VcsCounts DEF Vcs!uvm_hdl_dtob, Vcs!aval, aval
<1> HIDE DEF top
<1>4. \A b \in 0 .. CHUNK - 1 : bit(b) = 1 => b < room
  BY <1>1, <1>2 DEF aval
<1>5. \A b \in 0 .. CHUNK - 1 : bit(b) # 1 => top(b) = 0
  BY <1>2 DEF aval
<1> HIDE DEF bit
<1>6. /\ IsFiniteSet(places) /\ Cardinality(places) \in Nat
      /\ Cardinality(places) <= room - 1
  <2>1. places \subseteq 1 .. room - 1
    BY <1>1, <1>4
  <2>2. IsFiniteSet(1 .. room - 1) /\ Cardinality(1 .. room - 1) = room - 1
    BY CountFromOne
  <2>3. QED
    BY <2>1, <2>2, FS_Subset, FS_CardinalityType
<1>7. ASSUME NEW b \in 1 .. CHUNK - 1, bit(b) = 1
      PROVE  b <= Cardinality(places)
  <2>1. 1 .. b \subseteq places
    BY <1>1, <1>7
  <2>2. b + 1 \in Nat \ {0} /\ (b + 1) - 1 = b
    BY <1>1
  <2>3. Cardinality(1 .. b) = b
    BY <2>2, CountFromOne
  <2>4. QED
    BY <1>6, <2>1, <2>3, FS_Subset
<1> HIDE DEF places
<1>8. length \in 1 .. room
  BY <1>6
<1>9. \A b \in length .. CHUNK - 1 : top(b) = 0
  <2>1. \A b \in length .. CHUNK - 1 : b \in 1 .. CHUNK - 1 /\ ~(b <= Cardinality(places))
    BY <1>1, <1>6
  <2>2. \A b \in length .. CHUNK - 1 : bit(b) # 1
    BY <1>7, <2>1
  <2>3. \A b \in length .. CHUNK - 1 : b \in 0 .. CHUNK - 1
    BY <1>1, <1>8
  <2>4. QED
    BY <1>5, <2>2, <2>3
<1> HIDE DEF length
<1>10. \A b \in 0 .. length - 1 :
         Vcs!uvm_hdl_dtob(value, chunk, TRUE)[length - 1 - b] = bit(b)
  <2>1. \A b \in 0 .. length - 1 :
          length - 1 - b \in 0 .. length - 1 /\ length - 1 - (length - 1 - b) = b
    BY <1>8
  <2>2. QED
    BY <1>3, <2>1
<1>11. DOMAIN Vcs!uvm_hdl_dtob(value, chunk, TRUE) = 0 .. length - 1
  BY <1>3
<1>12. QED
  BY <1>8, <1>9, <1>10, <1>11 DEF top, bit, DigitsAre

\* So the digits put on the object are the value's bits.
LEMMA VcsPlacesVhdl ==
  ASSUME Object(obj), NEW p \in Paths, p.sel = "whole", obj.width <= MAX_WIDTH,
         NEW value \in Buffer, Fits(value), NEW flag
  PROVE  \E source :
           /\ \A i \in DOMAIN Target(obj, p) : source[i] = value[i]
           /\ Vcs!uvm_hdl_set_mhdl(obj, value, flag)
                = Answer(1, PutValue(obj, Target(obj, p), source, flag), value)
<1> DEFINE w == obj.width
           max_i == Chunks(w)
           room == w - CHUNK * (max_i - 1)
           digits == Vcs!uvm_hdl_dtob(value, max_i - 1, TRUE)
           sz == IF Cardinality(DOMAIN digits) < room
                 THEN Cardinality(DOMAIN digits) ELSE room
           digit(i) ==
             IF i \div CHUNK < max_i - 1
             THEN Vcs!uvm_hdl_dtob(value, i \div CHUNK, FALSE)[CHUNK - 1 - (i % CHUNK)]
             ELSE IF i % CHUNK < sz THEN digits[sz - 1 - (i % CHUNK)] ELSE sv_0
           source == [i \in 0 .. w - 1 |-> digit(i)]
<1>1. /\ CHUNK \in Nat \ {0} /\ MAX_CHUNKS \in Nat \ {0}
      /\ w \in Nat \ {0} /\ MAX_WIDTH \in Nat
  BY ChunkAssumption DEF Object, MAX_WIDTH
<1>2. /\ Target(obj, p) = [i \in 0 .. w - 1 |-> i]
      /\ Target(obj, Path("object", "whole", 0, 0)) = Target(obj, p)
  BY DEF Target, Path
<1>3. /\ max_i \in Nat \ {0} /\ max_i <= MAX_CHUNKS
      /\ (max_i - 1) * CHUNK \in 0 .. w - 1
  BY <1>1, ChunksOfWidth
<1>4. CHUNK * (max_i - 1) = (max_i - 1) * CHUNK
  BY <1>1, <1>3
<1>5. room \in Nat \ {0} /\ w = (max_i - 1) * CHUNK + room
  BY <1>1, <1>3, <1>4
<1>6. Vcs!uvm_hdl_set_mhdl(obj, value, flag)
        = Answer(1, PutValue(obj, Target(obj, p), source, flag), value)
  BY <1>2, VcsSim, VcsCounts DEF Vcs!uvm_hdl_set_mhdl, Vcs!sv_0, sv_0
<1>7. \A i \in 0 .. w - 1 : i \div CHUNK <= max_i - 1
  <2>1. ASSUME NEW i \in 0 .. w - 1 PROVE i \div CHUNK <= (w - 1) \div CHUNK
    <3> DEFINE q == i \div CHUNK
               r == (w - 1) \div CHUNK
    <3>1. /\ q \in Nat /\ q * CHUNK <= i
          /\ r \in Nat /\ w - 1 = r * CHUNK + ((w - 1) % CHUNK)
          /\ (w - 1) % CHUNK \in 0 .. CHUNK - 1
      BY <1>1, ChunkOfBit
    <3> HIDE DEF q, r
    <3>2. r * CHUNK \in Nat /\ q * CHUNK < r * CHUNK + CHUNK
      BY <1>1, <3>1
    <3>3. q >= r + 1 => q * CHUNK >= r * CHUNK + CHUNK
      BY <1>1, <3>1
    <3>4. QED
      BY <1>1, <3>1, <3>2, <3>3 DEF q, r
  <2>2. max_i - 1 = (w - 1) \div CHUNK
    <3>1. (w - 1) \div CHUNK \in Nat
      BY <1>1, ChunkOfBit
    <3>2. QED
      BY <3>1 DEF Chunks
  <2>3. QED
    BY <2>1, <2>2
<1> HIDE DEF max_i, room
<1>8. PICK n \in 1 .. room :
        /\ DOMAIN digits = 0 .. n - 1
        /\ \A b \in 0 .. n - 1 :
             digits[n - 1 - b] = aval(value[(max_i - 1) * CHUNK + b])
        /\ \A b \in n .. CHUNK - 1 : value[(max_i - 1) * CHUNK + b] = 0
  <2>1. max_i - 1 \in 0 .. MAX_CHUNKS - 1
    BY <1>1, <1>3
  <2>2. obj.width = (max_i - 1) * CHUNK + room
    BY <1>5
  <2>3. \E n \in 1 .. room : DigitsAre(digits, value, max_i - 1, n)
    BY <1>5, <2>1, <2>2, TopDigits
  <2>4. QED
    BY <2>3 DEF DigitsAre
<1> HIDE DEF digits
<1>9. sz = n
  <2>1. Cardinality(DOMAIN digits) = n
    BY <1>5, <1>8, IntervalCount
  <2>2. QED
    BY <1>5, <1>8, <2>1
<1> HIDE DEF sz
<1>10. ASSUME NEW i \in 0 .. w - 1 PROVE digit(i) = value[i]
  <2> DEFINE q == i \div CHUNK
             b == i % CHUNK
  <2>1. /\ q \in Nat /\ b \in 0 .. CHUNK - 1 /\ i = q * CHUNK + b
        /\ q <= max_i - 1
    BY <1>1, <1>7, ChunkOfBit
  <2>2. aval(value[i]) = value[i]
    <3>1. value[i] \in {0, 1}
      BY <1>1, FitsIsKnown
    <3>2. QED
      BY <3>1 DEF aval
  <2>3. /\ q < max_i - 1 =>
             digit(i) = Vcs!uvm_hdl_dtob(value, q, FALSE)[CHUNK - 1 - b]
        /\ ~(q < max_i - 1) /\ b < sz => digit(i) = digits[sz - 1 - b]
        /\ ~(q < max_i - 1) /\ ~(b < sz) => digit(i) = 0
    BY DEF sv_0
  <2> HIDE DEF q, b, digit
  <2>4. CASE q < max_i - 1
    BY <2>1, <2>2, <2>3, <2>4, LowDigits
  <2>5. CASE ~(q < max_i - 1) /\ b < sz
    <3>1. q = max_i - 1 /\ b \in 0 .. n - 1
      BY <1>3, <1>8, <1>9, <2>1, <2>5
    <3>2. QED
      BY <1>8, <1>9, <2>1, <2>2, <2>3, <2>5, <3>1
  <2>6. CASE ~(q < max_i - 1) /\ ~(b < sz)
    <3>1. q = max_i - 1 /\ b \in n .. CHUNK - 1
      BY <1>1, <1>3, <1>8, <1>9, <2>1, <2>6
    <3>2. QED
      BY <1>8, <2>1, <2>3, <2>6, <3>1
  <2>7. QED
    BY <2>4, <2>5, <2>6
<1> HIDE DEF digit
<1>11. \A i \in DOMAIN Target(obj, p) : source[i] = value[i]
  BY <1>2, <1>10
<1> HIDE DEF source
<1>12. QED
  BY <1>6, <1>11

LEMMA VcsPlaces ==
  ASSUME Object(obj), NEW p \in Paths, tool \in Vcs!Builds, Meaningful("force", p),
         NEW value \in Buffer, obj.lang = "vhdl" => Fits(value),
         NEW flag \in {"deposit", "force"},
         NEW a \in Vcs!Set(tool, obj, p, value, flag), a.ok = 1
  PROVE  Placed(p, flag, value, a)
<1>1. ~WiderThanValue(p) /\ (obj.lang = "vhdl" => p.sel = "whole")
  BY DEF Meaningful, Vcs!Builds
<1>2. Served(p)
  BY VcsSets DEF SetAnswer, Flags
<1>3. /\ InReach(obj, p) /\ p.name = "object"
      /\ Vcs!Language(tool, obj, p) = obj.lang /\ obj.lang \in {"vlog", "vhdl"}
  BY <1>2, VcsLanguages DEF InReach
<1>4. CASE obj.lang = "vlog"
  <2>1. a = Answer(1, PutValue(obj, Target(obj, p), value, flag), value)
    BY <1>3, <1>4, VcsSim DEF Vcs!Set, Vcs!uvm_hdl_set_vlog
  <2>2. a.obj = PutValue(obj, Target(obj, p), value, flag)
    BY <2>1 DEF Answer
  <2>3. QED
    BY <1>3, <2>2 DEF Placed, Done
<1>5. CASE obj.lang = "vhdl"
  <2>1. obj.width <= MAX_WIDTH
    <3>1. Cardinality(DOMAIN Target(obj, p)) = obj.width /\ MAX_WIDTH \in Nat
      BY <1>1, <1>5, TargetDomain, ChunkAssumption DEF MAX_WIDTH
    <3>2. QED
      BY <1>1, <1>3, <3>1 DEF WiderThanValue, TooWide, Object
  <2>2. PICK source :
          /\ \A i \in DOMAIN Target(obj, p) : source[i] = value[i]
          /\ Vcs!uvm_hdl_set_mhdl(obj, value, flag)
               = Answer(1, PutValue(obj, Target(obj, p), source, flag), value)
    BY <1>1, <1>5, <2>1, VcsPlacesVhdl
  <2>3. a = Answer(1, PutValue(obj, Target(obj, p), source, flag), value)
    BY <1>3, <1>5, <2>2 DEF Vcs!Set
  <2>4. a.obj = PutValue(obj, Target(obj, p), source, flag)
    BY <2>3 DEF Answer
  <2>5. QED
    BY <1>3, <2>2, <2>4 DEF Placed, Done
<1>6. QED
  BY <1>3, <1>4, <1>5

\* The deposits and forces of every backend.
LEMMA AnswersPlace ==
  ASSUME StateOK, NEW call \in {"deposit", "force"}, NEW p \in Paths, Meaningful(call, p),
         NEW value \in Buffer, obj.lang = "vhdl" => Fits(value) /\ p.sel # "bit",
         NEW a \in Answers(call, p, value), a.ok = 1
  PROVE  Placed(p, call, value, a)
<1>1. Object(obj) /\ partsel \in {0, 1} /\ tool \in Tools /\ Meaningful("force", p)
  BY DEF StateOK, Meaningful
<1>2. CASE tool = "questa"
  <2>1. a \in Questa!Set(obj, p, value, partsel, call)
    BY <1>2 DEF Answers, Questa!uvm_hdl_deposit, Questa!uvm_hdl_force
  <2>2. QED
    BY <1>1, <1>2, <2>1, QuestaPlaces
<1>3. CASE tool = "xcelium"
  <2>1. a \in Xcelium!Set(obj, p, value, call)
    BY <1>3 DEF Answers, Xcelium!uvm_hdl_deposit, Xcelium!uvm_hdl_force
  <2>2. QED
    BY <1>1, <1>3, <2>1, XceliumPlaces
<1>4. CASE tool \in Vcs!Builds
  <2>1. a \in Vcs!Set(tool, obj, p, value, call)
    BY <1>4 DEF Answers, Vcs!Builds, Vcs!uvm_hdl_deposit, Vcs!uvm_hdl_force
  <2>2. QED
    BY <1>1, <1>4, <2>1, VcsPlaces
<1>5. QED
  BY <1>1, <1>2, <1>3, <1>4 DEF Tools

\* A deposit or a force that reports success has put the value's bits on the
\* path's, but for bits held by a force and the single elements of VHDL under
\* Questa: for VHDL through the digits of a string, at every width, provided
\* the value fits the object.
THEOREM WritesWhatWasAskedAlways == Spec => []WritesWhatWasAsked
<1>1. HdlInv => WritesWhatWasAsked
  <2> SUFFICES ASSUME HdlInv, NEW call \in {"deposit", "force"}, NEW p \in Names,
                      NEW value \in Samples, Meaningful(call, p),
                      obj.lang = "vhdl" => Fits(value) /\ p.sel # "bit",
                      NEW a \in Answers(call, p, value), a.ok = 1,
                      NEW i \in DOMAIN Target(obj, p)
               PROVE  \/ a.obj.val[Target(obj, p)[i]] = value[i]
                      \/ /\ call = "deposit" \/ (tool = "questa" /\ obj.lang = "vhdl")
                         /\ Target(obj, p)[i] \in obj.forced
    BY DEF WritesWhatWasAsked
  <2>1. StateOK /\ Object(obj) /\ p \in Paths /\ value \in Buffer
    BY BackdoorAssumption DEF HdlInv, StateOK
  <2>2. Placed(p, call, value, a)
    BY <2>1, AnswersPlace
  <2>3. QED
    BY <2>1, <2>2, PlacedIsWritten
<1>2. QED
  BY <1>1, HdlInvAlways, PTL

-----------------------------------------------------------------------------
(* Reading. What a read that succeeds gives back are the bits of its path,  *)
(* in order.                                                                *)

ReadsOf(o, p, value) == \A i \in DOMAIN Target(o, p) : value[i] = o.val[Target(o, p)[i]]

\* The positions of a path that is not too wide are positions of a value.
LEMMA TargetInValue ==
  ASSUME NEW o, Object(o), NEW p \in Paths, ~TooWide(Target(o, p))
  PROVE  \A i \in DOMAIN Target(o, p) : i \in 0 .. MAX_WIDTH - 1
<1>1. MAX_WIDTH \in Nat
  BY ChunkAssumption DEF MAX_WIDTH
<1>2. QED
  BY <1>1, TargetDomain DEF TooWide

LEMMA GetValueReads ==
  ASSUME NEW o, Object(o), NEW p \in Paths, ~TooWide(Target(o, p)), NEW value
  PROVE  ReadsOf(o, p, GetValue(o, Target(o, p), value))
<1> DEFINE t == Target(o, p)
           n == Cardinality(DOMAIN t)
<1>1. DOMAIN t = 0 .. n - 1 /\ n \in Nat \ {0}
  BY TargetDomain
<1>2. \A i \in DOMAIN t : i \in 0 .. MAX_WIDTH - 1
  BY TargetInValue
<1>3. GetValue(o, t, value)
        = [i \in 0 .. MAX_WIDTH - 1 |->
             IF i < n THEN o.val[t[i]] ELSE IF i < ChunkEnd(n) THEN 0 ELSE value[i]]
  BY DEF GetValue
<1> HIDE DEF t, n
<1>4. \A i \in DOMAIN t : GetValue(o, t, value)[i] = o.val[t[i]]
  BY <1>1, <1>2, <1>3
<1>5. QED
  BY <1>4 DEF ReadsOf, t

\* A string that one chunk holds is shifted in the right way round.
LEMMA FilledReversed ==
  ASSUME NEW n \in 1 .. CHUNK, NEW char, NEW value, NEW i \in 0 .. n - 1
  PROVE  FillFromTheLeft(n, char, value)[i] = char[n - 1 - i]
<1>1. CHUNK \in Nat \ {0} /\ i \in Nat /\ n \in Nat
  BY ChunkAssumption
<1>2. i \in 0 .. MAX_WIDTH - 1
  <2>1. MAX_CHUNKS \in Nat \ {0}
    BY ChunkAssumption
  <2>2. CHUNK <= CHUNK * MAX_CHUNKS /\ CHUNK * MAX_CHUNKS \in Nat
    BY <1>1, <2>1
  <2>3. QED
    BY <1>1, <2>2 DEF MAX_WIDTH
<1>3. i \div CHUNK = 0 /\ (n - 1) \div CHUNK = 0
  BY <1>1
<1>4. ChunkEnd(n) = CHUNK
  BY <1>1, <1>3 DEF ChunkEnd, Chunks
<1>5. BitsInChunk(n, 0) = n /\ 0 * CHUNK = 0
  BY <1>1 DEF BitsInChunk
<1> DEFINE bit(k) ==
      LET j == k \div CHUNK
      IN  IF k >= ChunkEnd(n) THEN value[k]
          ELSE IF k - j * CHUNK >= BitsInChunk(n, j) THEN 0
          ELSE char[j * CHUNK + BitsInChunk(n, j) - 1 - (k - j * CHUNK)]
<1>6. FillFromTheLeft(n, char, value) = [k \in 0 .. MAX_WIDTH - 1 |-> bit(k)]
  BY DEF FillFromTheLeft
<1>7. bit(i) = char[0 * CHUNK + BitsInChunk(n, 0) - 1 - (i - 0 * CHUNK)]
  BY <1>1, <1>3, <1>4, <1>5
<1>8. 0 * CHUNK + BitsInChunk(n, 0) - 1 - (i - 0 * CHUNK) = n - 1 - i
  BY <1>1, <1>5
<1> HIDE DEF bit
<1>9. QED
  BY <1>2, <1>6, <1>7, <1>8

\* So is a whole VHDL object of one chunk.
LEMMA FilledReads ==
  ASSUME NEW o, Object(o), NEW p \in Paths, p.sel = "whole", o.width <= CHUNK, NEW value,
         NEW char, \A k \in 0 .. o.width - 1 : char[k] = o.val[o.width - 1 - k]
  PROVE  ReadsOf(o, p, FillFromTheLeft(o.width, char, value))
<1> DEFINE w == o.width
           v == FillFromTheLeft(w, char, value)
<1>1. w \in Nat \ {0} /\ w \in 1 .. CHUNK
  BY ChunkAssumption DEF Object
<1>2. Target(o, p) = [i \in 0 .. w - 1 |-> i]
  BY DEF Target
<1>3. ASSUME NEW i \in 0 .. w - 1 PROVE v[i] = o.val[i]
  <2>1. v[i] = char[w - 1 - i]
    BY <1>1, FilledReversed
  <2>2. w - 1 - i \in 0 .. w - 1 /\ w - 1 - (w - 1 - i) = i
    BY <1>1
  <2>3. QED
    BY <2>1, <2>2
<1> HIDE DEF v
<1>4. ReadsOf(o, p, v)
  BY <1>2, <1>3 DEF ReadsOf
<1>5. QED
  BY <1>4 DEF v

\* A release leaves the bits as they are.
LEMMA ReleaseKeepsBits ==
  ASSUME NEW o, Object(o), NEW t, NEW value
  PROVE  PutValue(o, t, value, "release").val = o.val
<1> DEFINE forced == o.forced \ TargetBits(t)
<1>1. PutValue(o, t, value, "release") = [o EXCEPT !.forced = forced]
  BY DEF PutValue
<1> HIDE DEF forced
<1>2. [o EXCEPT !.forced = forced]
        = [lang |-> o.lang, width |-> o.width, val |-> o.val, forced |-> forced]
  BY ObjectWith
<1>3. QED
  BY <1>1, <1>2

\* And then a read finds what was there before.
LEMMA ReadsSameBits ==
  ASSUME NEW o, Object(o), NEW n, n.lang = o.lang, n.width = o.width, n.val = o.val,
         NEW p, NEW value, ReadsOf(n, p, value)
  PROVE  ReadsOf(o, p, value)
BY SameShape DEF ReadsOf

LEMMA QuestaReadsVhdl ==
  ASSUME NEW o, Object(o), NEW p \in Paths, InReach(o, p), o.width <= CHUNK, NEW value
  PROVE  \E v : /\ Questa!uvm_register_get_vhdl(o, p, value) = Answer(1, o, v)
                /\ ReadsOf(o, p, v)
<1> DEFINE w == o.width
           vectors == [k \in 0 .. w - 1 |-> o.val[w - 1 - k]]
           incr == IF p.l > p.r THEN 1 ELSE -1
           bit == [i \in {0} |-> vectors[(w - 1) - p.l]]
           range == [i \in 0 .. SliceWidth(p) - 1 |-> vectors[(w - 1) - (p.l - i * incr)]]
           get == Questa!uvm_register_get_vhdl(o, p, value)
<1>1. /\ w \in Nat \ {0} /\ p.l \in Nat /\ p.r \in Nat /\ CHUNK \in Nat \ {0}
      /\ p.sel \in {"whole", "bit", "range"}
      /\ p.l < w /\ p.r < w /\ w <= CHUNK
  BY ChunkAssumption DEF Object, Paths, InReach
<1>2. \A k \in 0 .. w - 1 : vectors[(w - 1) - k] = o.val[k]
  <2>1. \A k \in 0 .. w - 1 : (w - 1) - k \in 0 .. w - 1 /\ w - 1 - ((w - 1) - k) = k
    BY <1>1
  <2>2. QED
    BY <2>1
<1>3. CASE p.sel = "whole"
  <2>1. Cardinality(DOMAIN vectors) = w
    BY <1>1, IntervalCount
  <2>2. get = Answer(1, o, FillFromTheLeft(Cardinality(DOMAIN vectors), vectors, value))
    BY <1>3, QuestaSim, QuestaCounts
       DEF Questa!uvm_register_get_vhdl, Questa!string_to_vecval,
           Questa!vhdl_array_of_char2string
  <2>3. \A k \in 0 .. w - 1 : vectors[k] = o.val[w - 1 - k]
    OBVIOUS
  <2> HIDE DEF vectors
  <2>4. QED
    BY <1>1, <1>3, <2>1, <2>2, <2>3, FilledReads
<1>4. CASE p.sel = "bit"
  <2>1. Cardinality(DOMAIN bit) = 1
    BY FS_Singleton
  <2>2. get = Answer(1, o, FillFromTheLeft(Cardinality(DOMAIN bit), bit, value))
    BY <1>4, QuestaSim, QuestaCounts
       DEF Questa!uvm_register_get_vhdl, Questa!string_to_vecval,
           Questa!vhdl_array_of_char2string
  <2>3. bit[0] = o.val[p.l]
    <3>1. bit[0] = vectors[(w - 1) - p.l] /\ p.l \in 0 .. w - 1
      BY <1>1
    <3> HIDE DEF bit, vectors
    <3>2. QED
      BY <1>2, <3>1
  <2> HIDE DEF bit
  <2>4. FillFromTheLeft(1, bit, value)[0] = o.val[p.l]
    <3>1. 1 \in 1 .. CHUNK /\ 0 \in 0 .. 1 - 1 /\ 1 - 1 - 0 = 0
      BY <1>1
    <3>2. FillFromTheLeft(1, bit, value)[0] = bit[1 - 1 - 0]
      BY <3>1, FilledReversed
    <3>3. QED
      BY <2>3, <3>1, <3>2
  <2>5. Target(o, p) = [i \in 0 .. 0 |-> p.l]
    BY <1>4 DEF Target
  <2>6. ReadsOf(o, p, FillFromTheLeft(1, bit, value))
    BY <2>4, <2>5 DEF ReadsOf
  <2>7. QED
    BY <2>1, <2>2, <2>6
<1>5. CASE p.sel = "range"
  <2> DEFINE n == SliceWidth(p)
  <2>1. Cardinality(DOMAIN range) = n /\ n \in Nat \ {0}
    BY SliceBits, IntervalCount
  <2>2. get = Answer(1, o, FillFromTheLeft(Cardinality(DOMAIN range), range, value))
    BY <1>5, QuestaSim, QuestaCounts
       DEF Questa!uvm_register_get_vhdl, Questa!string_to_vecval,
           Questa!vhdl_array_of_char2string
  <2>3. n \in 1 .. CHUNK
    BY <1>1 DEF SliceWidth
  <2>4. ASSUME NEW i \in 0 .. n - 1 PROVE range[n - 1 - i] = o.val[SliceBit(p, i)]
    <3> DEFINE k == n - 1 - i
    <3>1. /\ k \in 0 .. n - 1
          /\ p.l - k * incr = SliceBit(p, i) /\ SliceBit(p, i) \in 0 .. w - 1
      <4>1. k \in 0 .. n - 1 /\ i \in Nat /\ k \in Int
        BY <2>1, <2>4
      <4>2. CASE p.l > p.r
        <5>1. incr = 1 /\ n = p.l - p.r + 1
          BY <4>2 DEF SliceWidth
        <5>2. p.l - k * incr = p.r + i /\ p.r + i \in 0 .. w - 1
          BY <1>1, <2>4, <4>1, <5>1
        <5>3. QED
          BY <4>1, <4>2, <5>2 DEF SliceBit
      <4>3. CASE ~(p.l > p.r)
        <5>1. incr = -1 /\ n = p.r - p.l + 1
          BY <4>3 DEF SliceWidth
        <5>2. p.l - k * incr = p.r - i /\ p.r - i \in 0 .. w - 1
          BY <1>1, <2>4, <4>1, <4>3, <5>1
        <5>3. QED
          BY <4>1, <4>3, <5>2 DEF SliceBit
      <4>4. QED
        BY <4>2, <4>3
    <3>2. range[k] = vectors[(w - 1) - (p.l - k * incr)]
      BY <3>1
    <3> HIDE DEF k, range, vectors, incr
    <3>3. range[k] = o.val[SliceBit(p, i)]
      BY <1>2, <3>1, <3>2
    <3>4. QED
      BY <3>3 DEF k
  <2> HIDE DEF range
  <2>5. \A i \in 0 .. n - 1 : FillFromTheLeft(n, range, value)[i] = range[n - 1 - i]
    BY <2>3, FilledReversed
  <2>6. Target(o, p) = [i \in 0 .. n - 1 |-> SliceBit(p, i)]
    BY <1>5 DEF Target
  <2> HIDE DEF n
  <2>7. ReadsOf(o, p, FillFromTheLeft(n, range, value))
    BY <2>4, <2>5, <2>6 DEF ReadsOf
  <2>8. QED
    BY <2>1, <2>2, <2>7
<1>6. QED
  BY <1>1, <1>3, <1>4, <1>5

LEMMA QuestaReadsBack ==
  ASSUME NEW o, Object(o), NEW p \in Paths, InReach(o, p), ~TooWide(Target(o, p)),
         o.lang = "vhdl" => o.width <= CHUNK,
         NEW value, NEW ps, NEW a \in Questa!uvm_hdl_read(o, p, value, ps)
  PROVE  ReadsOf(o, p, a.value)
<1> DEFINE vhdl == o.lang = "vhdl" /\ p.name = "object"
           cleared == IF ps = 1 THEN value ELSE ClearedAllButLast(value)
<1>1. o.lang \in {"vlog", "vhdl"} /\ p.name = "object"
  BY DEF Object, InReach
<1>2. CASE vhdl
  <2>1. PICK v : /\ Questa!uvm_register_get_vhdl(o, p, value) = Answer(1, o, v)
                 /\ ReadsOf(o, p, v)
    BY <1>2, QuestaReadsVhdl
  <2>2. a = Questa!Keeping(Answer(1, o, v), ps)
    BY <1>2, <2>1 DEF Questa!uvm_hdl_read, Questa!uvm_is_vhdl_path
  <2>3. a.value = v
    BY <2>2 DEF Questa!Keeping, Answer
  <2>4. QED
    BY <2>1, <2>3
<1>3. CASE ~vhdl /\ IsSlice(p)
  <2> DEFINE got == Cardinality(Reached(o, p))
             bit(i) == o.val[SliceBit(p, i)]
             last == IF got = 0 THEN sv_0 ELSE bit(got - 1)
             v == [i \in 0 .. MAX_WIDTH - 1 |->
                     IF i < got THEN bit(i)
                     ELSE IF i = got /\ ~AllReached(o, p) THEN last ELSE cleared[i]]
             ok == IF AllReached(o, p) THEN 1 ELSE 0
             left == IF AllReached(o, p) THEN 0 ELSE 1
  <2>1. a = Questa!Keeping(Answer(ok, o, v), left)
    BY <1>3, QuestaSim, QuestaCounts
       DEF Questa!uvm_hdl_read, Questa!uvm_is_vhdl_path, Questa!uvm_hdl_get_vlog,
           Questa!uvm_hdl_get_vlog_partsel, Questa!Keeping, Questa!MAX_WIDTH, MAX_WIDTH,
           Questa!sv_0, sv_0
  <2>2. AllReached(o, p)
    BY <1>1, <1>3, ReachedBits
  <2>3. got = SliceWidth(p) /\ got \in Nat
    BY <2>2, SliceBits, IntervalCount DEF AllReached
  <2>4. Target(o, p) = [i \in 0 .. SliceWidth(p) - 1 |-> SliceBit(p, i)]
    BY <1>3 DEF Target, IsSlice
  <2>5. \A i \in DOMAIN Target(o, p) : i \in 0 .. MAX_WIDTH - 1
    BY TargetInValue
  <2> HIDE DEF got, last, cleared
  <2>6. ReadsOf(o, p, v)
    BY <2>3, <2>4, <2>5 DEF ReadsOf
  <2> HIDE DEF v
  <2>7. a.value = v
    BY <2>1 DEF Questa!Keeping, Answer
  <2>8. QED
    BY <2>6, <2>7
<1>4. CASE ~vhdl /\ ~IsSlice(p)
  <2> DEFINE v == GetValue(o, Target(o, p), cleared)
  <2>1. VlogResolves(o, p)
    BY <1>1, <1>4 DEF VlogResolves
  <2>2. a = Questa!Keeping(Answer(1, o, v), ps)
    BY <1>4, <2>1, QuestaSim
       DEF Questa!uvm_hdl_read, Questa!uvm_is_vhdl_path, Questa!uvm_hdl_get_vlog,
           Questa!Keeping
  <2> HIDE DEF cleared
  <2>3. ReadsOf(o, p, v)
    BY GetValueReads
  <2> HIDE DEF v
  <2>4. a.value = v
    BY <2>2 DEF Questa!Keeping, Answer
  <2>5. QED
    BY <2>3, <2>4
<1>5. QED
  BY <1>2, <1>3, <1>4

LEMMA QuestaReleases ==
  ASSUME Object(obj), NEW p, NEW value, NEW ps,
         NEW r \in Questa!Set(obj, p, value, ps, "release")
  PROVE  r.obj.val = obj.val
<1>1. PICK ok, t, source :
        \/ r = Questa!Keeping(Answer(ok, PutValue(obj, t, source, "release"), value), ps)
        \/ r = Questa!Keeping(Answer(0, obj, value), ps)
  BY QuestaSim
     DEF Questa!Set, Questa!uvm_register_set_vhdl, Questa!uvm_hdl_set_vlog,
         Questa!uvm_hdl_set_vlog_partsel
<1> DEFINE put == PutValue(obj, t, source, "release")
<1>2. put.val = obj.val
  BY ReleaseKeepsBits
<1> HIDE DEF put
<1>3. r.obj = put \/ r.obj = obj
  BY <1>1 DEF Questa!Keeping, Answer, put
<1>4. QED
  BY <1>2, <1>3

\* What is read after the release of anything but a range of Verilog bits.
LEMMA QuestaReadsReleased ==
  ASSUME Object(obj), partsel \in {0, 1}, tool = "questa", NEW p \in Paths,
         Meaningful("release_and_read", p), InReach(obj, p),
         obj.lang = "vhdl" => obj.width <= CHUNK, NEW value \in Buffer,
         NEW a \in Answers("release_and_read", p, value), ~(IsSlice(p) /\ obj.lang = "vlog")
  PROVE  ReadsBack(p, a)
<1>1. /\ Meaningful("force", p) /\ ~TooWide(Target(obj, p)) /\ p.name = "object"
      /\ "release" \in Flags /\ obj.lang \in {"vlog", "vhdl"}
  BY DEF Meaningful, WiderThanValue, InReach, Flags, Object
<1>2. Served(p)
  BY DEF Served, Vcs!Builds
<1>3. PICK r \in Questa!Set(obj, p, value, partsel, "release") :
        a \in IF r.ok = 0 THEN {r}
              ELSE IF Questa!uvm_is_vhdl_path(obj, p) \/ ~IsSlice(p)
                   THEN Questa!uvm_hdl_read(r.obj, p, r.value, partsel)
              ELSE Questa!uvm_hdl_read(r.obj, LastElement(p), r.value, partsel)
  BY QuestaSim DEF Answers, Questa!uvm_hdl_release_and_read
<1>4. SetAnswer(p, "release", value, r)
  BY <1>1, <1>3, QuestaSets
<1>5. r.ok = 1 /\ r.value = value /\ Writes(p, "release", r)
  BY <1>2, <1>4 DEF SetAnswer
<1>6. Object(r.obj) /\ r.obj.lang = obj.lang /\ r.obj.width = obj.width
  BY <1>5 DEF Writes, PutOn
<1>7. r.obj.val = obj.val
  BY <1>3, QuestaReleases
<1>8. a \in Questa!uvm_hdl_read(r.obj, p, value, partsel)
  BY <1>1, <1>3, <1>5 DEF Questa!uvm_is_vhdl_path
<1>9. InReach(r.obj, p) /\ ~TooWide(Target(r.obj, p))
  BY <1>1, <1>6, SameShape
<1>10. ReadsOf(r.obj, p, a.value)
  BY <1>6, <1>8, <1>9, QuestaReadsBack
<1>11. ReadsOf(obj, p, a.value)
  BY <1>6, <1>7, <1>10, ReadsSameBits
<1>12. QED
  BY <1>11 DEF ReadsOf, ReadsBack

\* What is read through the language of a handle.
XceliumGet(o, p, value) ==
  IF o.lang = "vlog" THEN {Xcelium!uvm_hdl_get_vlog(o, p, value)}
  ELSE Xcelium!uvm_hdl_get_vhdl(o, p, value)

LEMMA XceliumReadsNames ==
  ASSUME NEW o, Object(o), NEW p \in Paths, InReach(o, p), ~IsSlice(p),
         o.lang = "vhdl" => p.sel = "whole" /\ o.width <= CHUNK, NEW value,
         NEW a \in XceliumGet(o, p, value), a.ok = 1
  PROVE  ReadsOf(o, p, a.value)
<1>1. CASE o.lang = "vlog"
  <2> DEFINE served == VlogResolves(o, p) /\ ~TooWide(Target(o, p))
             v == GetValue(o, Target(o, p), value)
  <2>1. a = IF served THEN Answer(1, o, v) ELSE Answer(0, o, value)
    BY <1>1, XceliumSim DEF XceliumGet, Xcelium!uvm_hdl_get_vlog
  <2>2. served
    <3> HIDE DEF served, v
    <3>1. QED
      BY <2>1 DEF Answer
  <2>3. ReadsOf(o, p, v)
    BY <2>2, GetValueReads
  <2> HIDE DEF v
  <2>4. a.value = v
    BY <2>1, <2>2 DEF Answer
  <2>5. QED
    BY <2>3, <2>4
<1>2. CASE o.lang # "vlog"
  <2> DEFINE enumvs == [k \in 0 .. o.width - 1 |-> o.val[o.width - 1 - k]]
             blank == [i \in 0 .. MAX_WIDTH - 1 |-> sv_0]
             kept == IF o.width = 1 THEN value ELSE blank
             v == FillFromTheLeft(o.width, enumvs, kept)
  <2>1. o.lang = "vhdl" /\ p.sel = "whole" /\ o.width <= CHUNK
    BY <1>2 DEF Object
  <2>2. Xcelium!Found(o, p)
    BY <2>1, XceliumSim DEF Xcelium!Found
  <2>3. a = Answer(1, o, v)
    <3>1. ~Xcelium!FreedInTheLoop(o)
      BY <2>1, ChunkAssumption DEF Object, Xcelium!FreedInTheLoop
    <3>2. QED
      BY <1>2, <2>2, <3>1, XceliumSim
         DEF XceliumGet, Xcelium!uvm_hdl_get_vhdl, Xcelium!MAX_WIDTH, MAX_WIDTH,
             Xcelium!sv_0, sv_0
  <2>4. \A k \in 0 .. o.width - 1 : enumvs[k] = o.val[o.width - 1 - k]
    OBVIOUS
  <2> HIDE DEF enumvs, kept
  <2>5. ReadsOf(o, p, v)
    BY <2>1, <2>4, FilledReads
  <2> HIDE DEF v
  <2>6. a.value = v
    BY <2>3 DEF Answer
  <2>7. QED
    BY <2>5, <2>6
<1>3. QED
  BY <1>1, <1>2

LEMMA XceliumReadsSlices ==
  ASSUME NEW o, Object(o), NEW p \in Paths, IsSlice(p), ~TooWide(Target(o, p)), NEW value,
         NEW a, a = Xcelium!uvm_hdl_get_vlog_partsel(o, p, value), a.ok = 1
  PROVE  ReadsOf(o, p, a.value)
<1> DEFINE all == AllReached(o, p)
           v == [i \in 0 .. MAX_WIDTH - 1 |->
                   IF i \in Reached(o, p) THEN o.val[SliceBit(p, i)] ELSE value[i]]
<1>1. a = Answer(IF all THEN 1 ELSE 0, o, v)
  BY XceliumSim
     DEF Xcelium!uvm_hdl_get_vlog_partsel, Xcelium!is_valid_path_slice,
         Xcelium!MAX_WIDTH, MAX_WIDTH
<1>2. all /\ a.value = v
  <2> HIDE DEF all, v
  <2>1. QED
    BY <1>1 DEF Answer
<1>3. Target(o, p) = [i \in 0 .. SliceWidth(p) - 1 |-> SliceBit(p, i)]
  BY DEF Target, IsSlice
<1>4. \A i \in DOMAIN Target(o, p) : i \in 0 .. MAX_WIDTH - 1 /\ i \in Reached(o, p)
  BY <1>2, <1>3, TargetInValue DEF AllReached
<1>5. ReadsOf(o, p, v)
  BY <1>3, <1>4 DEF ReadsOf
<1> HIDE DEF v
<1>6. QED
  BY <1>2, <1>5

LEMMA XceliumHandle ==
  ASSUME NEW o, Object(o), NEW p, InReach(o, p), ~IsSlice(p),
         o.lang = "vhdl" => p.sel = "whole", p \in Paths
  PROVE  Xcelium!m_uvm_get_object_handle(o, p) = {o.lang}
<1>1. Xcelium!Found(o, p)
  BY XceliumSim DEF Xcelium!Found, Object, Paths, IsSlice
<1>2. QED
  BY <1>1 DEF Xcelium!m_uvm_get_object_handle

LEMMA XceliumReadsBack ==
  ASSUME Object(obj), tool = "xcelium", NEW p \in Paths, Meaningful("read", p),
         InReach(obj, p), obj.lang = "vhdl" => obj.width <= CHUNK,
         NEW value, NEW a \in Answers("read", p, value), a.ok = 1
  PROVE  ReadsOf(obj, p, a.value)
<1>1. /\ obj.lang \in {"vlog", "vhdl"} /\ (obj.lang = "vhdl" => p.sel = "whole")
      /\ IsSlice(p) => ~TooWide(Target(obj, p))
  BY DEF Object, Meaningful, WiderThanValue, InReach, Vcs!Builds
<1>2. a \in Xcelium!uvm_hdl_read(obj, p, value)
  BY DEF Answers
<1>3. CASE IsSlice(p)
  <2>1. PICK given : a = Xcelium!uvm_hdl_get_vlog_partsel(obj, p, given)
    BY <1>2, <1>3, XceliumSim DEF Xcelium!uvm_hdl_read, Xcelium!is_valid_path_slice
  <2>2. QED
    BY <1>1, <1>3, <2>1, XceliumReadsSlices
<1>4. CASE ~IsSlice(p)
  <2>1. Xcelium!m_uvm_get_object_handle(obj, p) = {obj.lang}
    BY <1>1, <1>4, XceliumHandle
  <2>2. a \in XceliumGet(obj, p, value)
    BY <1>1, <1>2, <1>4, <2>1, XceliumSim
       DEF Xcelium!uvm_hdl_read, Xcelium!is_valid_path_slice, XceliumGet
  <2>3. QED
    BY <1>1, <1>4, <2>2, XceliumReadsNames
<1>5. QED
  BY <1>3, <1>4

\* What is read after the release of anything but a range.
LEMMA XceliumReadsReleased ==
  ASSUME Object(obj), tool = "xcelium", NEW p \in Paths,
         Meaningful("release_and_read", p), InReach(obj, p),
         obj.lang = "vhdl" => obj.width <= CHUNK, NEW value \in Buffer,
         NEW a \in Answers("release_and_read", p, value), ~IsSlice(p), a.ok = 1
  PROVE  ReadsBack(p, a)
<1>1. /\ Meaningful("force", p) /\ p.name = "object" /\ "release" \in Flags
      /\ obj.lang \in {"vlog", "vhdl"} /\ (obj.lang = "vhdl" => p.sel = "whole")
  BY DEF Meaningful, InReach, Flags, Object, Vcs!Builds, Paths
<1>2. Served(p)
  BY DEF Served, Vcs!Builds
<1>3. a \in Xcelium!uvm_hdl_release_and_read(obj, p, value)
  BY DEF Answers
<1> DEFINE r == XceliumSet(obj.lang, p, value, "release")
           source == [i \in 0 .. obj.width - 1 |-> Xcelium!vhpi2val(value, i)]
           vlogPut == PutValue(obj, Target(obj, p), value, "release")
           vhdlPut == PutValue(obj, Target(obj, p), source, "release")
<1>4. Xcelium!m_uvm_get_object_handle(obj, p) = {obj.lang}
  BY <1>1, XceliumHandle
<1>5. obj.lang = "vlog" => a = Xcelium!uvm_hdl_get_vlog(r.obj, p, value)
  BY <1>3, <1>4, XceliumSim
     DEF Xcelium!uvm_hdl_release_and_read, Xcelium!is_valid_path_slice, XceliumSet
<1>6. obj.lang = "vhdl" => a \in Xcelium!uvm_hdl_get_vhdl(r.obj, p, value)
  BY <1>3, <1>4, XceliumSim
     DEF Xcelium!uvm_hdl_release_and_read, Xcelium!is_valid_path_slice, XceliumSet
<1>7. Xcelium!Found(obj, p)
  BY <1>1, XceliumSim DEF Xcelium!Found, Paths, IsSlice
<1>8. VlogResolves(obj, p) <=> obj.lang = "vlog"
  BY DEF VlogResolves
<1>9. /\ vlogPut.val = obj.val /\ vhdlPut.val = obj.val
  BY ReleaseKeepsBits
<1>10. r.obj.val = obj.val
  <2>1. CASE obj.lang = "vlog"
    <3>1. r = Answer(1, vlogPut, value)
      BY <1>8, <2>1, XceliumSim DEF XceliumSet, Xcelium!uvm_hdl_set_vlog
    <3> HIDE DEF vlogPut, r
    <3>2. r.obj = vlogPut
      BY <3>1 DEF Answer
    <3>3. QED
      BY <1>9, <3>2
  <2>2. CASE obj.lang = "vhdl"
    <3>1. r = Answer(1, vhdlPut, value)
      BY <1>7, <2>2, XceliumSim DEF XceliumSet, Xcelium!uvm_hdl_set_vhdl
    <3> HIDE DEF vhdlPut, r
    <3>2. r.obj = vhdlPut
      BY <3>1 DEF Answer
    <3>3. QED
      BY <1>9, <3>2
  <2>3. QED
    BY <1>1, <2>1, <2>2
<1>11. SetAnswer(p, "release", value, r)
  BY <1>1, <1>4, XceliumSetsNames
<1> HIDE DEF r
<1>12. Object(r.obj) /\ r.obj.lang = obj.lang /\ r.obj.width = obj.width
  BY <1>11 DEF SetAnswer, Writes, PutOn
<1>13. InReach(r.obj, p)
  BY <1>12, SameShape
<1>14. a \in XceliumGet(r.obj, p, value)
  BY <1>1, <1>5, <1>6, <1>12 DEF XceliumGet
<1>15. ReadsOf(r.obj, p, a.value)
  BY <1>1, <1>12, <1>13, <1>14, XceliumReadsNames
<1>16. ReadsOf(obj, p, a.value)
  BY <1>10, <1>12, <1>15, ReadsSameBits
<1>17. QED
  BY <1>16 DEF ReadsOf, ReadsBack

LEMMA FullChunks ==
  ASSUME NEW n \in Nat \ {0}, n % CHUNK = 0
  PROVE  Chunks(n) * CHUNK = n
<1> DEFINE q == n \div CHUNK
           c == (n - 1) \div CHUNK
           r == (n - 1) % CHUNK
<1>1. CHUNK \in Nat \ {0} /\ n - 1 \in Nat
  BY ChunkAssumption
<1>2. q \in Nat /\ n = q * CHUNK + (n % CHUNK) /\ q * CHUNK \in Nat
  BY ChunkOfBit
<1>3. c \in Nat /\ r \in 0 .. CHUNK - 1 /\ n - 1 = c * CHUNK + r /\ c * CHUNK \in Nat
  BY <1>1, ChunkOfBit
<1>4. Chunks(n) = c + 1
  BY DEF Chunks
<1> HIDE DEF q, c, r
<1>5. (c + 1) * CHUNK = c * CHUNK + CHUNK /\ (c + 2) * CHUNK = c * CHUNK + CHUNK + CHUNK
  BY <1>1, <1>3
<1>6. q * CHUNK = c * CHUNK + r + 1
  BY <1>1, <1>2, <1>3
<1>7. q > c
  <2>1. q <= c => q * CHUNK <= c * CHUNK
    BY <1>1, <1>2, <1>3
  <2>2. QED
    BY <1>1, <1>2, <1>3, <1>6, <2>1
<1>8. q < c + 2
  <2>1. q >= c + 2 => q * CHUNK >= (c + 2) * CHUNK
    BY <1>1, <1>2, <1>3
  <2>2. QED
    BY <1>1, <1>2, <1>3, <1>5, <1>6, <2>1
<1>9. q = c + 1
  BY <1>2, <1>3, <1>7, <1>8
<1>10. QED
  BY <1>1, <1>2, <1>4, <1>9

\* The pieces come out in the right order when there is one, or all are full.
LEMMA VcsReadsMhdl ==
  ASSUME Object(obj), NEW p \in Paths, p.sel = "whole", ~TooWide(Target(obj, p)),
         obj.width <= CHUNK \/ obj.width % CHUNK = 0, NEW value
  PROVE  \E v : /\ Vcs!uvm_hdl_get_mhdl(obj, value) = Answer(1, obj, v)
                /\ ReadsOf(obj, p, v)
<1> DEFINE w == obj.width
           max_i == Chunks(w)
           string(k) == IF k < w THEN obj.val[w - 1 - k] ELSE sv_x
           bits_to_consider(i) == IF i = 0 THEN w - (max_i - 1) * CHUNK ELSE CHUNK
           shifted(k, b) ==
             LET i == max_i - k - 1
             IN  IF b < bits_to_consider(i)
                 THEN string(i * CHUNK + bits_to_consider(i) - 1 - b)
                 ELSE value[k * CHUNK + b - bits_to_consider(i)]
           bit(i) == IF i \div CHUNK < max_i THEN shifted(i \div CHUNK, i % CHUNK)
                     ELSE value[i]
           v == [i \in 0 .. MAX_WIDTH - 1 |-> bit(i)]
<1>1. CHUNK \in Nat \ {0} /\ MAX_WIDTH \in Nat /\ w \in Nat \ {0}
  BY ChunkAssumption DEF Object, MAX_WIDTH
<1>2. max_i \in Nat \ {0} /\ (max_i - 1) * CHUNK \in 0 .. w - 1
  BY <1>1, ChunksOfWidth
<1>3. Vcs!uvm_hdl_get_mhdl(obj, value) = Answer(1, obj, v)
  BY VcsSim DEF Vcs!uvm_hdl_get_mhdl, Vcs!MAX_WIDTH, MAX_WIDTH, Vcs!sv_x, sv_x
<1>4. \A i \in 0 .. w - 1 : string(w - 1 - i) = obj.val[i]
  <2>1. \A i \in 0 .. w - 1 : w - 1 - i < w /\ w - 1 - (w - 1 - i) = i
    BY <1>1
  <2>2. QED
    BY <2>1
<1>5. bits_to_consider(0) = w - (max_i - 1) * CHUNK
      /\ \A i : i # 0 => bits_to_consider(i) = CHUNK
  OBVIOUS
<1>6. w <= CHUNK => max_i = 1
  BY <1>1 DEF Chunks
<1>7. w % CHUNK = 0 => max_i * CHUNK = w
  BY <1>1, FullChunks
<1> HIDE DEF max_i, string, bits_to_consider
<1>8. ASSUME NEW i \in 0 .. w - 1 PROVE bit(i) = obj.val[i]
  <2> DEFINE k == i \div CHUNK
             b == i % CHUNK
             m == max_i - k - 1
             considered == bits_to_consider(m)
  <2>1. /\ k \in Nat /\ b \in 0 .. CHUNK - 1 /\ i = k * CHUNK + b /\ k * CHUNK \in Nat
    BY <1>1, ChunkOfBit
  <2>2. w <= CHUNK => k = 0
    BY <1>1
  <2>3. bit(i) = IF k < max_i
                 THEN IF b < considered THEN string(m * CHUNK + considered - 1 - b)
                      ELSE value[k * CHUNK + b - considered]
                 ELSE value[i]
    OBVIOUS
  <2> HIDE DEF k, b, bit
  <2>4. k < max_i /\ b < considered /\ m * CHUNK + considered - 1 - b = w - 1 - i
    <3>1. CASE w <= CHUNK
      <4>1. max_i = 1 /\ k = 0 /\ m = 0
        BY <1>6, <2>2, <3>1
      <4>2. considered = w - (max_i - 1) * CHUNK
        BY <1>5, <4>1
      <4>3. considered = w /\ m * CHUNK = 0 /\ b = i
        BY <1>1, <2>1, <4>1, <4>2
      <4> HIDE DEF m, considered
      <4>4. QED
        BY <1>1, <2>1, <4>1, <4>3
    <3>2. CASE w % CHUNK = 0
      <4>1. max_i * CHUNK = w /\ (max_i - 1) * CHUNK = w - CHUNK
        BY <1>1, <1>2, <1>7, <3>2
      <4>2. k < max_i
        <5>1. k >= max_i => k * CHUNK >= max_i * CHUNK
          BY <1>1, <1>2, <2>1
        <5>2. QED
          BY <1>1, <1>2, <2>1, <4>1, <5>1
      <4>3. considered = CHUNK
        <5>1. CASE m = 0
          BY <1>1, <1>5, <4>1, <5>1
        <5>2. CASE m # 0
          BY <1>5, <5>2
        <5>3. QED
          BY <5>1, <5>2
      <4>4. m * CHUNK = w - k * CHUNK - CHUNK
        <5>1. (max_i - k - 1) * CHUNK = max_i * CHUNK - k * CHUNK - CHUNK
          BY <1>1, <1>2, <2>1
        <5>2. QED
          BY <4>1, <5>1
      <4> HIDE DEF m, considered
      <4>5. m * CHUNK + considered - 1 - b = w - 1 - i
        BY <1>1, <2>1, <4>3, <4>4
      <4>6. QED
        BY <1>1, <2>1, <4>2, <4>3, <4>5
    <3>3. QED
      BY <3>1, <3>2
  <2> HIDE DEF m, considered
  <2>5. bit(i) = string(w - 1 - i)
    BY <2>3, <2>4
  <2>6. QED
    BY <1>4, <2>5
<1> HIDE DEF bit
<1>9. Target(obj, p) = [i \in 0 .. w - 1 |-> i]
  BY DEF Target
<1>10. \A i \in 0 .. w - 1 : i \in 0 .. MAX_WIDTH - 1
  BY <1>9, TargetInValue
<1>11. ReadsOf(obj, p, v)
  BY <1>8, <1>9, <1>10 DEF ReadsOf
<1>12. QED
  BY <1>3, <1>11

LEMMA VcsReadsVhpi ==
  ASSUME Object(obj), NEW p \in Paths, p.sel = "whole", obj.width <= CHUNK, NEW value
  PROVE  \E v : /\ Vcs!uvm_hdl_get_vhpi(obj, value) = Answer(1, obj, v)
                /\ ReadsOf(obj, p, v)
<1> DEFINE enums == [k \in 0 .. obj.width - 1 |-> obj.val[obj.width - 1 - k]]
           wiped == [i \in 0 .. MAX_WIDTH - 1 |->
                       IF i \div CHUNK < MAX_CHUNKS \div Vcs!CHUNK_BYTES
                       THEN sv_0 ELSE value[i]]
<1>1. Vcs!uvm_hdl_get_vhpi(obj, value)
        = Answer(1, obj, FillFromTheLeft(obj.width, enums, wiped))
  BY VcsSim DEF Vcs!uvm_hdl_get_vhpi, Vcs!MAX_WIDTH, MAX_WIDTH, Vcs!sv_0, sv_0
<1>2. \A k \in 0 .. obj.width - 1 : enums[k] = obj.val[obj.width - 1 - k]
  OBVIOUS
<1> HIDE DEF enums, wiped
<1>3. QED
  BY <1>1, <1>2, FilledReads

LEMMA VcsReadsBack ==
  ASSUME Object(obj), tool \in Vcs!Builds, NEW p \in Paths, Meaningful("read", p),
         InReach(obj, p), Assembles, ~LeftToChance(p),
         NEW value, NEW a \in Answers("read", p, value), a.ok = 1
  PROVE  ReadsOf(obj, p, a.value)
<1> DEFINE lang == Vcs!Language(tool, obj, p)
<1>1. /\ lang \in {obj.lang, "none"} /\ obj.lang \in {"vlog", "vhdl"}
      /\ lang # "none" /\ tool = "vcs" => obj.lang = "vlog"
  BY VcsLanguages
<1>2. /\ tool \in {"vcs", "vcsmx", "vcsmx_fast"} /\ tool # "questa"
      /\ obj.lang = "vhdl" => p.sel = "whole"
      /\ obj.lang = "vhdl" =>
           obj.width <= CHUNK \/ (tool = "vcsmx" /\ obj.width % CHUNK = 0)
  BY DEF Vcs!Builds, Meaningful, Assembles
<1>3. a \in Vcs!uvm_hdl_read(tool, obj, p, value)
  BY <1>2 DEF Answers
<1>4. lang # "none"
  <2> SUFFICES ASSUME lang = "none" PROVE FALSE
    OBVIOUS
  <2>1. tool = "vcs"
    BY <1>2 DEF LeftToChance
  <2>2. a = Answer(0, obj, value)
    BY <1>1, <1>3, <2>1, VcsSim DEF Vcs!uvm_hdl_read
  <2>3. a.ok = 0
    BY <2>2 DEF Answer
  <2>4. QED
    BY <2>3
<1>5. CASE obj.lang = "vlog"
  <2> DEFINE v == GetValue(obj, Target(obj, p), value)
             wide == TooWide(Target(obj, p))
  <2>1. a = IF wide THEN Answer(0, obj, value) ELSE Answer(1, obj, v)
    BY <1>1, <1>3, <1>4, <1>5, VcsSim DEF Vcs!uvm_hdl_read, Vcs!uvm_hdl_get_vlog
  <2>2. ~wide /\ a.value = v
    <3> HIDE DEF wide, v
    <3>1. QED
      BY <2>1 DEF Answer
  <2>3. ReadsOf(obj, p, v)
    BY <2>2, GetValueReads
  <2> HIDE DEF v
  <2>4. QED
    BY <2>2, <2>3
<1>6. CASE obj.lang = "vhdl"
  <2>1. ~TooWide(Target(obj, p))
    <3> SUFFICES ASSUME TooWide(Target(obj, p)) PROVE FALSE
      OBVIOUS
    <3>1. a = Answer(0, obj, value)
      BY <1>1, <1>3, <1>4, <1>6, VcsSim DEF Vcs!uvm_hdl_read
    <3>2. a.ok = 0
      BY <3>1 DEF Answer
    <3>3. QED
      BY <3>2
  <2>2. \/ tool = "vcsmx_fast" /\ a = Vcs!uvm_hdl_get_vhpi(obj, value)
        \/ tool = "vcsmx" /\ a = Vcs!uvm_hdl_get_mhdl(obj, value)
    BY <1>1, <1>2, <1>3, <1>4, <1>6, <2>1, VcsSim DEF Vcs!uvm_hdl_read
  <2>3. PICK v : a = Answer(1, obj, v) /\ ReadsOf(obj, p, v)
    <3>1. CASE tool = "vcsmx_fast" /\ a = Vcs!uvm_hdl_get_vhpi(obj, value)
      BY <1>2, <1>6, <3>1, VcsReadsVhpi
    <3>2. CASE tool = "vcsmx" /\ a = Vcs!uvm_hdl_get_mhdl(obj, value)
      BY <1>2, <1>6, <2>1, <3>2, VcsReadsMhdl
    <3>3. QED
      BY <2>2, <3>1, <3>2
  <2>4. a.value = v
    BY <2>3 DEF Answer
  <2>5. QED
    BY <2>3, <2>4
<1>7. QED
  BY <1>1, <1>5, <1>6

\* The reads of every backend.
LEMMA AnswersReadBack ==
  ASSUME StateOK, NEW p \in Paths, Meaningful("read", p), InReach(obj, p),
         Assembles, ~LeftToChance(p),
         NEW value \in Buffer, NEW a \in Answers("read", p, value), a.ok = 1
  PROVE  ReadsBack(p, a)
<1>1. Object(obj) /\ partsel \in {0, 1} /\ tool \in Tools
  BY DEF StateOK
<1>2. ReadsOf(obj, p, a.value)
  <2>1. CASE tool = "questa"
    <3>1. ~TooWide(Target(obj, p))
      <4>1. Outcome("read", p, a)
        BY <1>1, AnswersAreOutcomes DEF Calls
      <4>2. ~WiderThanValue(p)
        BY <4>1 DEF Outcome
      <4>3. QED
        BY <4>2 DEF WiderThanValue, InReach
    <3>2. a \in Questa!uvm_hdl_read(obj, p, value, partsel)
      BY <2>1 DEF Answers
    <3>3. obj.lang = "vhdl" => obj.width <= CHUNK
      BY <2>1 DEF Assembles
    <3>4. QED
      BY <1>1, <3>1, <3>2, <3>3, QuestaReadsBack
  <2>2. CASE tool = "xcelium"
    <3>1. obj.lang = "vhdl" => obj.width <= CHUNK
      BY <2>2 DEF Assembles
    <3>2. QED
      BY <1>1, <2>2, <3>1, XceliumReadsBack
  <2>3. CASE tool \in Vcs!Builds
    BY <1>1, <2>3, VcsReadsBack
  <2>4. QED
    BY <1>1, <2>1, <2>2, <2>3 DEF Tools
<1>3. QED
  BY <1>2 DEF ReadsOf, ReadsBack

\* A read that reports success has the bits of its path in order, whatever an
\* earlier call left in the caller's value or in the static flag, for VHDL that
\* one chunk holds or, under VCSMX, whole chunks; so has a release and read of
\* anything but a range of Verilog bits under Questa and Xcelium.
THEOREM ReadsWhatIsThereAlways == Spec => []ReadsWhatIsThere
<1>1. HdlInv => ReadsWhatIsThere
  <2> SUFFICES ASSUME HdlInv, NEW p \in Names, NEW value \in Samples,
                      Meaningful("read", p), InReach(obj, p), Assembles, ~LeftToChance(p)
               PROVE  /\ \A a \in Answers("read", p, value) : a.ok = 1 => ReadsBack(p, a)
                      /\ /\ tool \in {"questa", "xcelium"}
                         /\ Meaningful("release_and_read", p)
                         /\ ~(IsSlice(p) /\ obj.lang = "vlog")
                         => \A a \in Answers("release_and_read", p, value) :
                              a.ok = 1 => ReadsBack(p, a)
    BY DEF ReadsWhatIsThere
  <2>1. StateOK /\ Object(obj) /\ partsel \in {0, 1} /\ p \in Paths /\ value \in Buffer
    BY BackdoorAssumption DEF HdlInv, StateOK
  <2>2. ASSUME NEW a \in Answers("read", p, value), a.ok = 1 PROVE ReadsBack(p, a)
    BY <2>1, <2>2, AnswersReadBack
  <2>3. tool \in {"questa", "xcelium"} /\ obj.lang = "vhdl" => obj.width <= CHUNK
    BY DEF Assembles
  <2>4. ASSUME tool \in {"questa", "xcelium"}, Meaningful("release_and_read", p),
               ~(IsSlice(p) /\ obj.lang = "vlog"),
               NEW a \in Answers("release_and_read", p, value), a.ok = 1
        PROVE  ReadsBack(p, a)
    <3>1. CASE tool = "questa"
      BY <2>1, <2>3, <2>4, <3>1, QuestaReadsReleased
    <3>2. CASE tool = "xcelium"
      <4>1. ~IsSlice(p)
        BY <2>1, <2>4, <3>2 DEF Meaningful, Object, IsSlice
      <4>2. QED
        BY <2>1, <2>3, <2>4, <3>2, <4>1, XceliumReadsReleased
    <3>3. QED
      BY <2>4, <3>1, <3>2
  <2>5. QED
    BY <2>2, <2>4
<1>2. QED
  BY <1>1, HdlInvAlways, PTL
=============================================================================
