------------------------------- MODULE Worker -------------------------------
(***************************************************************************)
(* A task worker, worker.c: one thread that runs callbacks in order,       *)
(* callers that post to it from any thread (nn20_worker_post) or post and  *)
(* wait (nn20_worker_post_sync), and an owner that creates it and stops it *)
(* with or without draining (nn20_worker_stop, nn20_worker_stop_now).  The *)
(* queue is MpscQueue, step for step.                                      *)
(*                                                                         *)
(* The wake-up is the FreeRTOS one: a task notification that latches once  *)
(* the thread has registered for it and is dropped before that.  The idle  *)
(* wait times out after WORKER_IDLE_WAIT_MS: here it may, and no property  *)
(* needs it to.  The statistics, which nothing in the program reads, are   *)
(* left out.                                                               *)
(***************************************************************************)
EXTENDS MpscQueue, Sequences

CONSTANTS
    Callers,             \* threads that post
    Creator,             \* the thread that creates and stops the worker
    WorkerThread,        \* the worker's own thread, which posts to itself
    MaxCalls,            \* bound: calls each thread makes; the worker's own
                         \* are the ones made from inside its callbacks
    Kinds,               \* which calls each caller makes: FALSE is post, TRUE
                         \* is post_sync
    Stops                \* shutdowns the owner may ask for

Drain == "stop"          \* nn20_worker_stop()
Discard == "stop_now"    \* nn20_worker_stop_now(), and nn20_worker_delete()
                         \* up to the release of the memory

(* A task is named by who posted it and by the number of that post.        *)
Tasks == UNION {[by : {t}, n : 1 .. MaxCalls[t], sync : BOOLEAN] : t \in Threads}

ASSUME WorkerAssumption ==
    /\ Threads = Callers \cup {Creator, WorkerThread}
    /\ Creator \notin Callers /\ WorkerThread \notin Callers
    /\ Creator # WorkerThread
    /\ MaxCalls \in [Threads -> Nat] /\ MaxCalls[Creator] = 1
    /\ Kinds \in [Callers -> SUBSET BOOLEAN]
    /\ Stops \subseteq {Drain, Discard}
    /\ Items = Tasks

VARIABLES
    call,                \* [pc, sync, n]: the call in each thread
    answer,              \* what the last call of each thread returned
    done,                \* the completion each thread waits on
    worker,              \* the worker thread: [pc, some, final, task]
    owner,               \* the owner: [pc, kind]
    flag, bound,         \* the notification, and whether it is registered for
    running, drain_before_exit, stop_requested, joined,
    ran,                 \* history: the posted tasks that ran, in order
    at_stop              \* history: [ran, calls], how many tasks had begun when
                         \* `running' fell, and who was inside a post when the
                         \* stop was requested

callVars == <<call, answer, done>>
eventVars == <<flag, bound>>
stopVars == <<running, drain_before_exit, stop_requested, joined>>
history == <<ran, at_stop>>
workerVars == <<callVars, worker, owner, eventVars, stopVars, history>>
vars == <<queueVars, workerVars>>

IdleCall == [pc |-> "idle", sync |-> FALSE, n |-> 0]
IdleWorker == [pc |-> "start", some |-> FALSE, final |-> FALSE, task |-> NoItem]

Init ==
    /\ QueueInit
    /\ call = [t \in Threads |-> IdleCall]
    /\ answer = [t \in Threads |-> "none"]
    /\ done = [t \in Threads |-> "none"]
    /\ worker = IdleWorker
    /\ owner = [pc |-> "create", kind |-> "none"]
    /\ flag = FALSE /\ bound = FALSE
    /\ running = TRUE /\ drain_before_exit = FALSE
    /\ stop_requested = FALSE /\ joined = FALSE
    /\ ran = << >> /\ at_stop = [ran |-> 0, calls |-> {}]

TaskOf(t) == [by |-> t, n |-> call[t].n, sync |-> call[t].sync]

GoCall(t, pc) == call' = [call EXCEPT ![t].pc = pc]
GoWorker(pc) == worker' = [worker EXCEPT !.pc = pc]
GoOwner(pc) == owner' = [owner EXCEPT !.pc = pc]

Return(t, result) ==
    /\ GoCall(t, "idle")
    /\ answer' = [answer EXCEPT ![t] = result]

Notify == flag' = (flag \/ bound) /\ UNCHANGED bound

-----------------------------------------------------------------------------
(* nn20_worker_post() and nn20_worker_post_sync(), by thread t.            *)

BeginCall(t, sync) ==
    /\ call[t].pc = "idle"
    /\ call' = [call EXCEPT ![t] = [pc |-> IF sync THEN "sync_check" ELSE "check",
                                    sync |-> sync, n |-> @.n + 1]]
    /\ answer' = [answer EXCEPT ![t] = "none"]
    /\ UNCHANGED done

(* A caller's next call: the worker exists once nn20_worker_create() has   *)
(* returned.                                                               *)
Call(t) ==
    /\ t \in Callers /\ call[t].n < MaxCalls[t]
    /\ owner.pc \notin {"create", "creating", "reset"}
    /\ \E sync \in Kinds[t] : BeginCall(t, sync)
    /\ UNCHANGED <<queueVars, worker, owner, eventVars, stopVars, history>>

(* The first look at stop_requested, post_sync()'s own; then the completion *)
(* is made ready.                                                          *)
SyncCheck(t) ==
    /\ call[t].pc = "sync_check"
    /\ \/ /\ stop_requested
          /\ Return(t, "refused") /\ UNCHANGED done
       \/ /\ ~stop_requested
          /\ done' = [done EXCEPT ![t] = "pending"]
          /\ GoCall(t, "check") /\ UNCHANGED answer
    /\ UNCHANGED <<queueVars, worker, owner, eventVars, stopVars, history>>

Refuse(t) ==
    /\ call[t].pc = "check" /\ stop_requested
    /\ Return(t, "refused")
    /\ UNCHANGED <<queueVars, done, worker, owner, eventVars, stopVars,
                   history>>

Accept(t) ==
    /\ call[t].pc = "check" /\ ~stop_requested
    /\ PushBegin(t, TaskOf(t))
    /\ GoCall(t, "push")
    /\ UNCHANGED <<answer, done, worker, owner, eventVars, stopVars, history>>

Push(t) == PushStep(t) /\ UNCHANGED workerVars

Full(t) ==
    /\ push[t].pc = "full"
    /\ PushReturn(t)
    /\ Return(t, "full")
    /\ UNCHANGED <<done, worker, owner, eventVars, stopVars, history>>

(* The task is in.                                                         *)
Pushed(t) ==
    /\ push[t].pc = "pushed"
    /\ PushReturn(t)
    /\ GoCall(t, "signal")
    /\ UNCHANGED <<answer, done, worker, owner, eventVars, stopVars, history>>

MuteSignal(t) ==         \* fault: an async post forgets to wake the worker
    /\ call[t].pc = "signal"
    /\ IF call[t].sync THEN Notify /\ GoCall(t, "wait") /\ UNCHANGED answer
                       ELSE Return(t, "ok") /\ UNCHANGED eventVars
    /\ UNCHANGED <<queueVars, done, worker, owner, stopVars, history>>

SignalPosted(t) ==
    /\ call[t].pc = "signal"
    /\ Notify
    /\ IF call[t].sync THEN GoCall(t, "wait") /\ UNCHANGED answer
                       ELSE Return(t, "ok")
    /\ UNCHANGED <<queueVars, done, worker, owner, stopVars, history>>

ImpatientWait(t) ==      \* fault: the wait gives up, the request stays queued
    /\ call[t].pc = "wait"
    /\ Return(t, IF done[t] = "ran" THEN "ok" ELSE "refused")
    /\ UNCHANGED <<queueVars, done, worker, owner, eventVars, stopVars,
                   history>>

TrustingWait(t) ==       \* fault: any signal counts as success
    /\ call[t].pc = "wait" /\ done[t] # "pending"
    /\ Return(t, "ok")
    /\ UNCHANGED <<queueVars, done, worker, owner, eventVars, stopVars,
                   history>>

(* The completion was signalled; req.callback says whether it ran.         *)
WaitOver(t) ==
    /\ call[t].pc = "wait" /\ done[t] # "pending"
    /\ Return(t, IF done[t] = "ran" THEN "ok" ELSE "refused")
    /\ UNCHANGED <<queueVars, done, worker, owner, eventVars, stopVars,
                   history>>

CallStep(t) ==
    \/ SyncCheck(t) \/ Refuse(t) \/ Accept(t) \/ Push(t) \/ Full(t)
    \/ Pushed(t) \/ SignalPosted(t) \/ WaitOver(t)

-----------------------------------------------------------------------------
(* The worker's thread: worker_loop(), run_pending(), sync_trampoline().   *)

Bind ==
    /\ worker.pc = "start"
    /\ bound' = TRUE
    /\ GoWorker("loop")
    /\ UNCHANGED <<queueVars, callVars, owner, flag, stopVars, history>>

Loop ==
    /\ worker.pc = "loop"
    /\ worker' = [IdleWorker EXCEPT !.pc = IF running THEN "pop" ELSE "exit"]
    /\ UNCHANGED <<queueVars, callVars, owner, eventVars, stopVars, history>>

WorkerPop == worker.pc = "pop" /\ PopStep /\ UNCHANGED workerVars

RunTask ==
    /\ worker.pc = "pop" /\ pop.pc = "popped"
    /\ PopReturn
    /\ worker' = [worker EXCEPT !.pc = "callback", !.some = TRUE, !.task = pop.item]
    /\ ran' = Append(ran, pop.item)
    /\ UNCHANGED <<callVars, owner, eventVars, stopVars, at_stop>>

(* From inside a callback: a post to the worker itself.  (A post_sync from *)
(* there runs its callback inline and touches nothing that is shared.)     *)
NestedPost ==
    /\ worker.pc = "callback"
    /\ call[WorkerThread].n < MaxCalls[WorkerThread]
    /\ BeginCall(WorkerThread, FALSE)
    /\ UNCHANGED <<queueVars, worker, owner, eventVars, stopVars, history>>

CallbackReturns ==
    /\ worker.pc = "callback" /\ call[WorkerThread].pc = "idle"
    /\ GoWorker("abandon")
    /\ IF worker.task.sync
         THEN done' = [done EXCEPT ![worker.task.by] = "ran"]
         ELSE UNCHANGED done
    /\ UNCHANGED <<queueVars, call, answer, owner, eventVars, stopVars,
                   history>>

(* Between two tasks: a stop that does not drain abandons the rest.  The   *)
(* two flags are loaded one after the other.                               *)
AbandonDrain ==
    /\ worker.pc = "abandon"
    /\ GoWorker(IF drain_before_exit THEN "pop" ELSE "abandon_stop")
    /\ UNCHANGED <<queueVars, callVars, owner, eventVars, stopVars, history>>

(* Where run_pending() returns to.                                         *)
AfterPending == IF worker.final THEN "leave"
                ELSE IF worker.some THEN "loop" ELSE "stop_check"

RunTheRest ==            \* fault: a stop is not noticed between two tasks
    /\ worker.pc = "abandon_stop"
    /\ GoWorker("pop")
    /\ UNCHANGED <<queueVars, callVars, owner, eventVars, stopVars, history>>

OnePerWake ==            \* fault: one task per wake-up
    /\ worker.pc = "abandon_stop"
    /\ GoWorker(IF stop_requested THEN AfterPending ELSE "stop_check")
    /\ UNCHANGED <<queueVars, callVars, owner, eventVars, stopVars, history>>

AbandonStop ==
    /\ worker.pc = "abandon_stop"
    /\ GoWorker(IF stop_requested THEN AfterPending ELSE "pop")
    /\ UNCHANGED <<queueVars, callVars, owner, eventVars, stopVars, history>>

NothingPending ==
    /\ worker.pc = "pop" /\ PopEmpty
    /\ GoWorker(AfterPending)
    /\ UNCHANGED <<callVars, owner, eventVars, stopVars, history>>

StopCheck ==
    /\ worker.pc = "stop_check"
    /\ GoWorker(IF stop_requested THEN "exit" ELSE "wait")
    /\ UNCHANGED <<queueVars, callVars, owner, eventVars, stopVars, history>>

Wake ==
    /\ worker.pc = "wait" /\ flag
    /\ flag' = FALSE
    /\ GoWorker("loop")
    /\ UNCHANGED <<queueVars, callVars, owner, bound, stopVars, history>>

IdleTimeout ==
    /\ worker.pc = "wait" /\ ~flag
    /\ GoWorker("loop")
    /\ UNCHANGED <<queueVars, callVars, owner, eventVars, stopVars, history>>

QuickExit ==             \* fault: nothing is drained on the way out
    /\ worker.pc = "exit"
    /\ worker' = [IdleWorker EXCEPT !.pc = "leave"]
    /\ UNCHANGED <<queueVars, callVars, owner, eventVars, stopVars, history>>

ExitLoop ==
    /\ worker.pc = "exit"
    /\ worker' = IF drain_before_exit
                   THEN [IdleWorker EXCEPT !.pc = "pop", !.final = TRUE]
                   ELSE [IdleWorker EXCEPT !.pc = "leave"]
    /\ UNCHANGED <<queueVars, callVars, owner, eventVars, stopVars, history>>

Leave ==
    /\ worker.pc = "leave"
    /\ running' = FALSE
    /\ GoWorker("gone")
    /\ UNCHANGED <<queueVars, callVars, owner, eventVars, drain_before_exit,
                   stop_requested, joined, history>>

WorkerStep ==
    \/ Bind \/ Loop \/ WorkerPop \/ RunTask \/ CallbackReturns
    \/ AbandonDrain \/ AbandonStop \/ NothingPending \/ StopCheck \/ Wake
    \/ ExitLoop \/ Leave \/ CallStep(WorkerThread)

-----------------------------------------------------------------------------
(* The owner: nn20_worker_create_with(), and shutdown_worker() under       *)
(* nn20_worker_stop() or nn20_worker_stop_now().                           *)

(* The thread is running; wait for it with a synchronous no-op.            *)
StartupBarrier ==
    /\ owner.pc = "create"
    /\ BeginCall(Creator, TRUE)
    /\ GoOwner("creating")
    /\ UNCHANGED <<queueVars, worker, eventVars, stopVars, history>>

Created ==
    /\ owner.pc = "creating" /\ call[Creator].pc = "idle"
    /\ GoOwner("up")
    /\ UNCHANGED <<queueVars, callVars, worker, eventVars, stopVars, history>>

BeginShutdown ==
    /\ owner.pc = "up"
    /\ \E kind \in Stops :
         /\ owner' = [pc |-> "request", kind |-> kind]
         /\ drain_before_exit' = (kind = Drain)
    /\ UNCHANGED <<queueVars, callVars, worker, eventVars, running,
                   stop_requested, joined, history>>

RequestStop ==
    /\ owner.pc = "request"
    /\ stop_requested' = TRUE
    /\ at_stop' = [at_stop EXCEPT !.calls =
                      {t \in Callers : call[t].pc \notin {"idle", "wait"}}]
    /\ GoOwner(IF owner.kind = Drain THEN "signal" ELSE "halt")
    /\ UNCHANGED <<queueVars, callVars, worker, eventVars, running,
                   drain_before_exit, joined, ran>>

StopRunning ==
    /\ owner.pc = "halt"
    /\ running' = FALSE
    /\ at_stop' = [at_stop EXCEPT !.ran = Len(ran)]
    /\ GoOwner("signal")
    /\ UNCHANGED <<queueVars, callVars, worker, eventVars, drain_before_exit,
                   stop_requested, joined, ran>>

MuteStop ==              \* fault: the worker is not woken to stop
    /\ owner.pc = "signal"
    /\ GoOwner("join")
    /\ UNCHANGED <<queueVars, callVars, worker, eventVars, stopVars, history>>

SignalStop ==
    /\ owner.pc = "signal"
    /\ Notify
    /\ GoOwner("join")
    /\ UNCHANGED <<queueVars, callVars, worker, stopVars, history>>

JoinThread ==
    /\ owner.pc = "join" /\ worker.pc = "gone"
    /\ joined' = TRUE /\ running' = FALSE
    /\ GoOwner(IF owner.kind = Drain THEN "stopped" ELSE "discard")
    /\ UNCHANGED <<queueVars, callVars, worker, eventVars, drain_before_exit,
                   stop_requested, history>>

(* discard_pending(), on the owner's thread, now the only consumer.        *)
DiscardPop == owner.pc = "discard" /\ PopStep /\ UNCHANGED workerVars

DropTask ==
    /\ owner.pc = "discard" /\ pop.pc = "popped"
    /\ PopReturn
    /\ IF pop.item.sync THEN done' = [done EXCEPT ![pop.item.by] = "dropped"]
                        ELSE UNCHANGED done
    /\ UNCHANGED <<call, answer, worker, owner, eventVars, stopVars, history>>

Discarded ==
    /\ owner.pc = "discard" /\ PopEmpty
    /\ GoOwner("stopped")
    /\ UNCHANGED <<callVars, worker, eventVars, stopVars, history>>

(* A later nn20_worker_stop_now() or _delete() finds the thread joined and *)
(* only discards.                                                          *)
DiscardAgain ==
    /\ owner.pc = "stopped" /\ Discard \in Stops
    /\ GoOwner("discard")
    /\ UNCHANGED <<queueVars, callVars, worker, eventVars, stopVars, history>>

OwnerStep ==
    \/ StartupBarrier \/ Created \/ RequestStop \/ StopRunning
    \/ SignalStop \/ JoinThread \/ DiscardPop \/ DropTask \/ Discarded
    \/ CallStep(Creator)

-----------------------------------------------------------------------------
Next ==
    \/ \E t \in Callers : Call(t) \/ CallStep(t)
    \/ WorkerStep \/ NestedPost \/ IdleTimeout
    \/ OwnerStep \/ BeginShutdown \/ DiscardAgain

Spec == Init /\ [][Next]_vars

(* The scheduler runs every thread that can move.  Nobody has to call, to  *)
(* stop the worker, or to post from a callback, and the idle time out does *)
(* not have to expire.                                                     *)
FairSpec ==
    /\ Spec
    /\ \A t \in Callers : WF_vars(CallStep(t))
    /\ WF_vars(WorkerStep) /\ WF_vars(OwnerStep)

-----------------------------------------------------------------------------
(* Type invariant.                                                         *)
CallTypeOK ==
    /\ call \in [Threads -> [pc : {"idle", "sync_check", "check", "push",
                                   "signal", "wait"},
                             sync : BOOLEAN, n : Nat]]
    /\ answer \in [Threads -> {"none", "ok", "refused", "full"}]
    /\ done \in [Threads -> {"none", "pending", "ran", "dropped"}]

WorkerTypeOK ==
    /\ worker \in [pc : {"start", "loop", "pop", "callback", "abandon",
                         "abandon_stop", "stop_check", "wait", "exit", "leave",
                         "gone"},
                   some : BOOLEAN, final : BOOLEAN, task : Tasks \cup {NoItem}]
    /\ ran \in Seq(Tasks)

OwnerTypeOK ==
    /\ owner \in [pc : {"create", "creating", "up", "request", "halt", "signal",
                        "join", "discard", "stopped"},
                  kind : Stops \cup {"none"}]
    /\ at_stop \in [ran : Nat, calls : SUBSET Callers]

FlagTypeOK ==
    /\ flag \in BOOLEAN /\ bound \in BOOLEAN
    /\ running \in BOOLEAN /\ drain_before_exit \in BOOLEAN
    /\ stop_requested \in BOOLEAN /\ joined \in BOOLEAN

TypeOK ==
    QueueTypeOK /\ CallTypeOK /\ WorkerTypeOK /\ OwnerTypeOK /\ FlagTypeOK

(* The tasks that have a place in the queue, first to last: a claimed slot *)
(* still being written counts with the item its producer brings.           *)
ItemAt(pos) ==
    IF \E t \in Threads : Owner(t, pos)
      THEN push[CHOOSE t \in Threads : Owner(t, pos)].item
      ELSE slots[Slot(pos)].item

Line == [k \in 1 .. tail - First |-> ItemAt(First + k - 1)]

(* The lock-free queue, with its consumer handed from the worker's thread  *)
(* to the owner's, is a bounded FIFO line: claims are joins, and freeing a *)
(* slot is a departure.                                                    *)
Fifo == INSTANCE TaskFifo WITH line <- Line, Items <- Tasks
ImplementsFifo == Fifo!Spec

(* No wake-up is ever lost: when the worker sleeps with no notification    *)
(* pending and its next task is ready, the thread that posted it, or one   *)
(* it waits behind, has yet to signal.  So the time out is not what gets   *)
(* tasks run.                                                              *)
NoLostWakeup ==
    worker.pc = "wait" /\ ~flag /\ Published =>
        \/ \E t \in Threads : push[t].pc = "pushed" \/ call[t].pc = "signal"

(* The request of a post_sync() lives on its caller's stack: whatever is   *)
(* queued or running points at a caller still inside that very call.       *)
NoDanglingRequest ==
    LET alive(task) == /\ call[task.by].pc \in {"push", "signal", "wait"}
                       /\ call[task.by].n = task.n
                       /\ done[task.by] = "pending"
    IN  /\ \A k \in DOMAIN Line : Line[k].sync => alive(Line[k])
        /\ worker.pc = "callback" /\ worker.task.sync => alive(worker.task)

(* post_sync() tells the truth: 0 means that its callback has run and      *)
(* returned, anything else that it never will.                             *)
SyncAnswersAreTrue ==
    \A t \in Callers :
        call[t].pc = "idle" /\ call[t].sync =>
            LET task == TaskOf(t)
                began == \E k \in DOMAIN ran : ran[k] = task
            IN  /\ answer[t] = "ok" <=> began
                /\ began => ~(worker.pc = "callback" /\ worker.task = task)
                /\ \A k \in DOMAIN Line : Line[k] # task

(* Once stop_now() has lowered `running' the task in hand finishes; at most *)
(* one more, which the thread was already popping, may still begin         *)
(* (worker.h: "the current callback completes, anything still queued is    *)
(* dropped").                                                              *)
StopNowStartsAtMostOne ==
    owner.kind = Discard =>
        owner.pc \in {"request", "halt"} \/ Len(ran) <= at_stop.ran + 1

(* stop() runs what was queued before it (worker.h: "Tasks already queued  *)
(* ahead of the request still run"), as long as nobody was in the middle   *)
(* of a post at that moment.                                               *)
DrainRunsEverything ==
    owner.pc = "stopped" /\ owner.kind = Drain /\ at_stop.calls = {}
        => Line = << >>

(* A shutdown ends: the thread always comes to the join, even with a full  *)
(* queue and callers still posting.                                        *)
ShutdownEnds == owner.pc = "request" ~> owner.pc = "stopped"

(* While nobody stops the worker every accepted task runs, and with them   *)
(* every synchronous caller is released, without help from the time out.   *)
(* (Calls being bounded here, the worker catches up with all of them.)     *)
Busy == Line # << >> \/ \E t \in Threads : call[t].pc = "wait"
EverythingRuns == Busy ~> ~Busy \/ owner.pc \in {"request", "stopped"}

(* worker.h: "If the worker is stopped while a caller is waiting, the wait *)
(* is released and the callback does not run."                             *)
StopReleasesWaiters ==
    \A t \in Callers :
        call[t].pc = "wait" /\ owner.pc = "request" ~> call[t].pc # "wait"
=============================================================================
