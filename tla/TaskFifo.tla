------------------------------ MODULE TaskFifo ------------------------------
(***************************************************************************)
(* What the task queue promises: a bounded first-in first-out line.  An    *)
(* item takes its place at the back, once, if there is room; the consumer  *)
(* takes items from the front, each once; nothing overtakes, disappears or *)
(* comes back.                                                             *)
(***************************************************************************)
EXTENDS Integers, Sequences

CONSTANTS Capacity, Items

VARIABLES line

Init == line = << >>

Join(item) ==
    /\ Len(line) < Capacity
    /\ line' = Append(line, item)

Leave ==
    /\ line # << >>
    /\ line' = Tail(line)

Next == (\E item \in Items : Join(item)) \/ Leave

Spec == Init /\ [][Next]_line
=============================================================================
