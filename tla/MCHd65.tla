------------------------------- MODULE MCHd65 --------------------------------
(* Instance of Hd65 for TLC: a drive of two cylinders, two heads and two     *)
(* sectors per track.                                                        *)
EXTENDS Hd65

\* Asked by cylinder, head and sector: the last sector of the first cylinder.
MCAsked == {[cyl |-> 0, head |-> 1, sector |-> 1]}
==============================================================================
