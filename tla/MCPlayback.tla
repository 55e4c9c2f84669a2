----------------------------- MODULE MCPlayback -----------------------------
(***************************************************************************)
(* A card of two films, and an alarm that asks for one of them or for any  *)
(* of them; either may fail to open.                                       *)
(***************************************************************************)
EXTENDS Playback

MCFilms == {"rain", "fire"}
MCMedia == {"rain", "random"}
MCSleepTimers == {"none", "left"}

(* What is left of two rings, two touches and a failure.                   *)
From(with, r, t, f) ==
    [with |-> with, rings |-> MaxRings - r, taps |-> MaxTaps - t,
     faults |-> MaxFaults - f]
MCBeginnings == {From("boot", 1, 2, 0), From("snooze", 1, 2, 0), From("snooze", 1, 1, 1),
                 From("film", 2, 0, 1), From("film", 0, 2, 0)}
=============================================================================
