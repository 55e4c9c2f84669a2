--------------------------- MODULE MCClockManager ---------------------------
(* Two alarms, a one-off and a recurrent one whose time falls into the     *)
(* one-off's hour, and what the user may turn them into.                   *)
EXTENDS ClockManager

MCAlarmIds == {1, 2}
OneOff(at) == [kind |-> "one_off", at |-> at, enabled |-> TRUE]
Daily(at) == [kind |-> "recurrent", at |-> at, enabled |-> TRUE]
Off(alarm) == [alarm EXCEPT !.enabled = FALSE]

MCFirstSchedules == {<<OneOff(1), Daily(2)>>}
MCSavedAlarms == {OneOff(4)}

(* Of one correction, three presses, one edit and one failure: two presses *)
(* and the correction, or all but the correction.                          *)
Spending(c, p, e, f) ==
    [corrections |-> c, presses |-> p, edits |-> e, faults |-> f]
MCSpent == {Spending(0, 1, 1, 1), Spending(1, 0, 0, 0)}
MCNothing == {Spending(0, 0, 0, 0)}
=============================================================================
