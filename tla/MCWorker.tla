------------------------------ MODULE MCWorker ------------------------------
(* Two callers, a queue of two slots: three posts in flight fill it.       *)
EXTENDS Worker, TLC

CONSTANTS a, b, creator, thread

MCCallers == {a, b}
MCThreads == {a, b, creator, thread}
MCTasks == Tasks

(* Calls of a, of b, and from inside callbacks.                            *)
Calls(n, m, k) == (a :> n) @@ (b :> m) @@ (creator :> 1) @@ (thread :> k)
TwoPosts == Calls(1, 1, 0)
ThreePosts == Calls(1, 1, 1)

OneWaits == (a :> {TRUE}) @@ (b :> BOOLEAN)
=============================================================================
