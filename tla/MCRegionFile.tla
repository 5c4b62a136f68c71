---------------------------- MODULE MCRegionFile ----------------------------
(***************************************************************************)
(* TLC instance of RegionFile: words of the width of Unallocated, whose    *)
(* bits are cleared one by one by programming.                             *)
(***************************************************************************)
EXTENDS RegionFile, Bitwise

\* One and two blocks, and a size that can never fit.
MCUpdates ==
  {[value |-> 5, size |-> 1], [value |-> 0, size |-> 4], [value |-> 5, size |-> 16]}

MCAndWord(v, w) == v & w
MCTornWord(v) == {w \in Word : w & v = v}
=============================================================================
