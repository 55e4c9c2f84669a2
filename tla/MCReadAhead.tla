---------------------------- MODULE MCReadAhead ----------------------------
(* Small films for TLC.  Byte o of the file is the number o, so a byte read *)
(* from the wrong offset, or a stale one, is told apart.                   *)
EXTENDS ReadAhead

FilmOf(bytes) == [o \in 0 .. bytes - 1 |-> o]

MCFile == FilmOf(9)
MCStarts == {1, 3}
MCStreamEnds == {6, 9, 10}      \* 10: a file cut short
MCSizes == {1, 2}
=============================================================================
