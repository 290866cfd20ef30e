------------------------------- MODULE MCHdl ------------------------------
(* The back door on chunks of two bits, for objects of one bit, of two full *)
(* chunks, of a width between and of more bits than a value; samples tell   *)
(* bits and chunks apart.                                                   *)
EXTENDS HdlBackdoor

Bits(a, b, c, d) == [i \in 0 .. MAX_WIDTH - 1 |-> <<a, b, c, d>>[i + 1]]

MCSamples == {Bits(0, 1, 1, 0), Bits(1, 0, 0, 0), Bits(3, 2, 2, 1)}
MCHanded  == {Bits(0, 1, 1, 0)}
MCDesign  == {[i \in 0 .. 4 |-> <<0, 1, 3, 2, 1>>[i + 1]]}

MCNames ==
  { Path("object", "whole", 0, 0), Path("object", "bit", 2, 2),
    Path("object", "range", 0, 2), Path("object", "range", 3, 1),
    Path("object", "range", 4, 0), Path("nothing", "whole", 0, 0),
    Path("nothing", "range", 1, 0) }

MCTimed == {Path("object", "range", 3, 1), Path("object", "whole", 0, 0)}
=============================================================================
