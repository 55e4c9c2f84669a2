------------------------- MODULE ClockManagerProofs -------------------------
(***************************************************************************)
(* What holds of the clock manager for every number of alarms, horizon,    *)
(* length of the queue and bound.  The type invariant comes first: what a  *)
(* job carries is an alarm and an occurrence whenever a later step uses    *)
(* them, and requests never outgrow their slots.  The records, the live    *)
(* schedule and what was dismissed are followed on top of it.              *)
(***************************************************************************)
EXTENDS ClockManager, SequenceTheorems, TLAPS

USE TimerAssumption, ManagerAssumption

-----------------------------------------------------------------------------
(* The parts of the handlers.                                              *)

(* Posting keeps the queue a sequence of requests and fills no more than   *)
(* the free slots (nn20clock_manager.c, on_timer_event).                   *)
LEMMA PostFits ==
    ASSUME queue \in Seq(Requests), NEW events \in Seq(Requests),
           NEW room \in Nat, Post(room, events)
    PROVE  /\ queue' \in Seq(Requests)
           /\ Len(queue') <= Len(queue) + room
<1> DEFINE n == IF Len(events) < room THEN Len(events) ELSE room
           sent == SubSeq(events, 1, n)
<1>1. n \in Nat /\ n <= room /\ n <= Len(events)
  OBVIOUS
<1>2. sent \in Seq(Requests) /\ Len(sent) = n
  BY <1>1
<1>3. queue' = queue \o sent
  BY DEF Post
<1> HIDE DEF sent, n
<1>4. QED
  BY <1>1, <1>2, <1>3

(* A transition leads from a state to a state, and its job to a screen.    *)
LEMMA EnterTyped ==
    ASSUME state \in States, NEW to \in States, Enter(to)
    PROVE  state' \in States /\ mgr' \in Jobs
<1>1. ScreenOf(to) \in Screens
  BY DEF ScreenOf, Screens
<1>2. Job("screen", NoId, 0, ScreenOf(to)) \in Jobs
  BY <1>1 DEF Job, Jobs
<1>3. Idle \in Jobs
  BY DEF Jobs
<1>4. QED
  BY <1>2, <1>3 DEF Enter

LEMMA FinishTyped ==
    ASSUME state \in States, NEW next \in {"TIME", "stay"}, Finish(next)
    PROVE  state' \in States /\ mgr' \in Jobs
<1>1. CASE next = "stay"
  BY <1>1 DEF Finish, Jobs
<1>2. CASE next = "TIME"
  BY <1>2, EnterTyped DEF Finish, States
<1>3. QED
  BY <1>1, <1>2

(* Taking a request frees room for the slot its handler keeps.             *)
LEMMA TakeFits ==
    ASSUME queue \in Seq(Requests), Room >= 0, NEW type, Take(type)
    PROVE  /\ Request \in Requests /\ Request.type = type
           /\ queue' \in Seq(Requests) /\ Room' >= 0
<1>1. queue # <<>> /\ Len(queue) \in Nat /\ Len(queue) > 0
  BY DEF Take
<1>2. Request \in Requests
  BY <1>1 DEF Request
<1>3. queue' \in Seq(Requests) /\ Len(queue') = Len(queue) - 1
  BY <1>1 DEF Take
<1>4. QED
  BY <1>1, <1>2, <1>3 DEF Take, Room

(* The end of a step of a job takes no room.                               *)
LEMMA StepFits ==
    ASSUME Len(queue) \in Nat, Room >= 0, mgr # Idle, queue' = queue
    PROVE  Room' >= 0
  BY DEF Room
-----------------------------------------------------------------------------
(* The type invariant, an action at a time.                                *)

(* Which jobs carry an alarm.                                              *)
LEMMA JobCarries ==
    ASSUME mgr \in Jobs
    PROVE  /\ mgr.pc \in {"get", "delete", "reload", "snooze"} =>
                /\ mgr.alarm \in AlarmIds /\ mgr.of \in Times
                /\ mgr.next \in {"TIME", "stay"}
           /\ mgr.pc = "cancel" =>
                /\ mgr.alarm # NoId => mgr.alarm \in AlarmIds /\ mgr.of \in Times
                /\ mgr.next \in {"TIME", "stay"}
           /\ mgr.pc = "screen" => mgr.next \in Screens
           /\ mgr.pc # "idle" => mgr # Idle
  BY DEF Jobs, Idle, Job, NoId

LEMMA MoveTyped ==
    TypeOK /\ ApplyMove => TypeOK'
<1> SUFFICES ASSUME TypeOK, ApplyMove PROVE TypeOK'
  OBVIOUS
<1>1. Request \in Requests /\ Request.type = "move" /\ queue' \in Seq(Requests)
      /\ Room' >= 0
  BY TakeFits DEF ApplyMove, TypeOK, TimerTypeOK
<1>2. Request.to \in States
  BY <1>1 DEF Requests
<1>3. state' \in States /\ mgr' \in Jobs
  BY <1>2, EnterTyped DEF ApplyMove, TypeOK
<1>4. TimerTypeOK'
  BY <1>1 DEF ApplyMove, timerKept, TypeOK, TimerTypeOK
<1>5. QED
  BY <1>1, <1>3, <1>4 DEF ApplyMove, screenVars, counters, TypeOK

LEMMA ScreenTyped ==
    TypeOK /\ ApplyScreen => TypeOK'
<1> SUFFICES ASSUME TypeOK, ApplyScreen PROVE TypeOK'
  OBVIOUS
<1>1. queue' \in Seq(Requests) /\ Room' >= 0
  BY TakeFits DEF ApplyScreen, TypeOK, TimerTypeOK
<1>2. mgr' \in Jobs
  BY DEF ApplyScreen, Job, Jobs, Screens
<1>3. TimerTypeOK'
  BY <1>1 DEF ApplyScreen, timerKept, TypeOK, TimerTypeOK
<1>4. QED
  BY <1>1, <1>2, <1>3 DEF ApplyScreen, screenVars, counters, TypeOK

(* A dismissal of what rings, or of nothing; it ends in TIME either way.   *)
LEMMA DismissTyped ==
    ASSUME ringing \in [alarm : AlarmIds, of : Times] \union {NoRinging},
           Dismiss(ringing.alarm, ringing.of, "TIME")
    PROVE  ringing' = NoRinging /\ mgr' \in Jobs
  BY DEF Dismiss, Job, Jobs, NoRinging, NoId

LEMMA StopTyped ==
    TypeOK /\ ApplyStop => TypeOK'
<1> SUFFICES ASSUME TypeOK, ApplyStop PROVE TypeOK'
  OBVIOUS
<1>1. queue' \in Seq(Requests) /\ Room' >= 0
  BY TakeFits DEF ApplyStop, TypeOK, TimerTypeOK
<1>2. ringing' = NoRinging /\ mgr' \in Jobs
  BY DismissTyped DEF ApplyStop, TypeOK
<1>3. TimerTypeOK'
  BY <1>1 DEF ApplyStop, timerKept, TypeOK, TimerTypeOK
<1>4. QED
  BY <1>1, <1>2, <1>3 DEF ApplyStop, screenVars, counters, TypeOK

LEMMA TimeUpTyped ==
    TypeOK /\ ApplyTimeUp => TypeOK'
<1> SUFFICES ASSUME TypeOK, ApplyTimeUp PROVE TypeOK'
  OBVIOUS
<1>1. queue' \in Seq(Requests) /\ Room' >= 0
  BY TakeFits DEF ApplyTimeUp, TypeOK, TimerTypeOK
<1>2. ringing' = NoRinging /\ mgr' \in Jobs
  BY DismissTyped DEF ApplyTimeUp, TypeOK
<1>3. TimerTypeOK'
  BY <1>1 DEF ApplyTimeUp, timerKept, TypeOK, TimerTypeOK
<1>4. QED
  BY <1>1, <1>2, <1>3 DEF ApplyTimeUp, screenVars, counters, TypeOK

LEMMA SnoozeTyped ==
    TypeOK /\ ApplySnooze => TypeOK'
<1> SUFFICES ASSUME TypeOK, ApplySnooze PROVE TypeOK'
  OBVIOUS
<1>1. queue' \in Seq(Requests) /\ Room' >= 0
  BY TakeFits DEF ApplySnooze, TypeOK, TimerTypeOK
<1>2. state' \in States /\ mgr' \in Jobs
  <2>1. CASE ringing.alarm = NoId
    BY <2>1, EnterTyped DEF ApplySnooze, TypeOK, States
  <2>2. CASE ringing.alarm # NoId
    <3>1. ringing.alarm \in AlarmIds /\ ringing.of \in Times
      BY <2>2 DEF TypeOK, NoRinging
    <3>2. QED
      BY <2>2, <3>1 DEF ApplySnooze, TypeOK, Job, Jobs
  <2>3. QED
    BY <2>1, <2>2
<1>3. TimerTypeOK'
  BY <1>1 DEF ApplySnooze, timerKept, TypeOK, TimerTypeOK
<1>4. QED
  BY <1>1, <1>2, <1>3 DEF ApplySnooze, screenVars, counters, TypeOK

LEMMA CancelSnoozeTyped ==
    TypeOK /\ ApplyCancelSnooze => TypeOK'
<1> SUFFICES ASSUME TypeOK, ApplyCancelSnooze PROVE TypeOK'
  OBVIOUS
<1>1. queue' \in Seq(Requests) /\ Room' >= 0
  BY TakeFits DEF ApplyCancelSnooze, TypeOK, TimerTypeOK
<1>2. snooze.alarm \in AlarmIds \union {NoId} /\ snooze.of \in Instants
  BY DEF TypeOK, TimerTypeOK, NoSnooze, NoId, Times, Instants
<1>3. mgr' \in Jobs
  BY <1>2 DEF ApplyCancelSnooze, Job, Jobs
<1>4. TimerTypeOK'
  BY <1>1 DEF ApplyCancelSnooze, timerKept, TypeOK, TimerTypeOK
<1>5. QED
  BY <1>1, <1>3, <1>4 DEF ApplyCancelSnooze, screenVars, counters, TypeOK

LEMMA TickTyped ==
    TypeOK /\ ApplyTick => TypeOK'
<1> SUFFICES ASSUME TypeOK, ApplyTick PROVE TypeOK'
  OBVIOUS
<1>1. /\ Request \in Requests /\ Request.type = "tick"
      /\ queue' \in Seq(Requests) /\ Room' >= 0
  BY TakeFits DEF ApplyTick, TypeOK, TimerTypeOK
<1>2. Request.pending \in BOOLEAN
  BY <1>1 DEF Requests
<1>3. badge' \in BOOLEAN
  BY <1>2 DEF ApplyTick, TypeOK
<1>4. TimerTypeOK'
  BY <1>1 DEF ApplyTick, timerKept, TypeOK, TimerTypeOK
<1>5. QED
  BY <1>1, <1>3, <1>4 DEF ApplyTick, managerVars, counters, TypeOK

LEMMA AlarmTyped ==
    TypeOK /\ ApplyAlarm => TypeOK'
<1> SUFFICES ASSUME TypeOK, ApplyAlarm PROVE TypeOK'
  OBVIOUS
<1>1. /\ Request \in Requests /\ Request.type = "alarm"
      /\ queue' \in Seq(Requests) /\ Room' >= 0
  BY TakeFits DEF ApplyAlarm, TypeOK, TimerTypeOK
<1>2. /\ Request.alarm \in AlarmIds /\ Request.at \in Nat
      /\ Request.of \in Times
  BY <1>1 DEF Requests
<1>3. ringDeadline' \in [alarm : AlarmIds, at : Nat] \union {NoDeadline}
  BY <1>2 DEF ApplyAlarm, Armed, TypeOK
<1>4. /\ ringing' \in [alarm : AlarmIds, of : Times] \union {NoRinging}
      /\ state' \in States /\ mgr' \in Jobs
  <2>1. CASE Passed(ringDeadline', Request.at)
    BY <1>2, <2>1 DEF ApplyAlarm, Dismiss, Job, Jobs, TypeOK
  <2>2. CASE ~Passed(ringDeadline', Request.at)
    <3>1. ringing' = [alarm |-> Request.alarm, of |-> Request.of]
          /\ Enter("ALARM_RINGING")
      BY <2>2 DEF ApplyAlarm
    <3>2. QED
      BY <1>2, <3>1, EnterTyped DEF TypeOK, States
  <2>3. QED
    BY <2>1, <2>2
<1>5. TimerTypeOK'
  BY <1>1 DEF ApplyAlarm, timerKept, TypeOK, TimerTypeOK
<1>6. QED
  BY <1>1, <1>3, <1>4, <1>5 DEF ApplyAlarm, screenVars, counters, TypeOK

(* The later steps of a job.                                               *)

LEMMA SwapTyped ==
    TypeOK /\ SwapScreen => TypeOK'
<1> SUFFICES ASSUME TypeOK, SwapScreen PROVE TypeOK'
  OBVIOUS
<1>1. mgr.next \in Screens /\ mgr # Idle
  BY JobCarries DEF SwapScreen, At, TypeOK
<1>2. Room' >= 0
  BY <1>1, StepFits DEF SwapScreen, TypeOK, TimerTypeOK
<1>3. mgr' \in Jobs
  BY DEF SwapScreen, Jobs
<1>4. TimerTypeOK'
  BY DEF SwapScreen, Refresh, TypeOK, TimerTypeOK
<1>5. QED
  BY <1>1, <1>2, <1>3, <1>4 DEF SwapScreen, counters, TypeOK

LEMMA SnoozeStepTyped ==
    TypeOK /\ SnoozeStep => TypeOK'
<1> SUFFICES ASSUME TypeOK, SnoozeStep PROVE TypeOK'
  OBVIOUS
<1>1. /\ mgr.alarm \in AlarmIds /\ mgr.of \in Times
      /\ mgr.next \in {"TIME", "stay"} /\ mgr # Idle
  BY JobCarries DEF SnoozeStep, At, TypeOK
<1>2. Room' >= 0
  BY <1>1, StepFits DEF SnoozeStep, TypeOK, TimerTypeOK
<1>3. state' \in States /\ mgr' \in Jobs
  BY <1>1, FinishTyped DEF SnoozeStep, TypeOK
<1>4. snooze' \in [alarm : AlarmIds, at : Nat, of : Times]
  BY <1>1 DEF SnoozeStep, SnoozeFor, TypeOK, TimerTypeOK, Instants
<1>5. TimerTypeOK'
  BY <1>4 DEF SnoozeStep, TypeOK, TimerTypeOK
<1>6. QED
  BY <1>2, <1>3, <1>5 DEF SnoozeStep, screenVars, counters, TypeOK

LEMMA ForgetTyped ==
    TypeOK /\ ForgetStep => TypeOK'
<1> SUFFICES ASSUME TypeOK, ForgetStep PROVE TypeOK'
  OBVIOUS
<1>1. mgr # Idle
  BY JobCarries DEF ForgetStep, At, TypeOK
<1>2. Room' >= 0
  BY <1>1, StepFits DEF ForgetStep, TypeOK, TimerTypeOK
<1>3. mgr' \in Jobs
  BY DEF ForgetStep, Jobs
<1>4. TimerTypeOK'
  BY DEF ForgetStep, CancelSnooze, Refresh, TypeOK, TimerTypeOK
<1>5. QED
  BY <1>2, <1>3, <1>4 DEF ForgetStep, screenVars, counters, TypeOK

LEMMA CancelTyped ==
    TypeOK /\ CancelStep => TypeOK'
<1> SUFFICES ASSUME TypeOK, CancelStep PROVE TypeOK'
  OBVIOUS
<1>1. /\ mgr.alarm # NoId => mgr.alarm \in AlarmIds /\ mgr.of \in Times
      /\ mgr.next \in {"TIME", "stay"} /\ mgr # Idle
  BY JobCarries DEF CancelStep, At, TypeOK
<1>2. Room' >= 0
  BY <1>1, StepFits DEF CancelStep, TypeOK, TimerTypeOK
<1>3. TimerTypeOK'
  BY DEF CancelStep, CancelSnooze, TypeOK, TimerTypeOK
<1>4. /\ state' \in States /\ mgr' \in Jobs
      /\ dismissed' \in [AlarmIds -> Instants]
  <2>1. CASE mgr.alarm = NoId
    BY <1>1, <2>1, FinishTyped DEF CancelStep, TypeOK
  <2>2. CASE mgr.alarm # NoId
    <3>1. mgr.of \in Instants
      BY <1>1, <2>2 DEF Times, Instants
    <3>2. [mgr EXCEPT !.pc = "get"] = Job("get", mgr.alarm, mgr.of, mgr.next)
      BY DEF Job, Jobs, Idle, TypeOK
    <3>3. mgr' \in Jobs
      BY <1>1, <2>2, <3>2 DEF CancelStep, Job, Jobs
    <3>4. QED
      BY <2>2, <3>1, <3>3 DEF CancelStep, TypeOK
  <2>3. QED
    BY <2>1, <2>2
<1>5. QED
  BY <1>2, <1>3, <1>4 DEF CancelStep, screenVars, counters, TypeOK

LEMMA GetTyped ==
    TypeOK /\ GetStep => TypeOK'
<1> SUFFICES ASSUME TypeOK, GetStep PROVE TypeOK'
  OBVIOUS
<1>1. /\ mgr.alarm \in AlarmIds /\ mgr.of \in Times
      /\ mgr.next \in {"TIME", "stay"} /\ mgr # Idle
  BY JobCarries DEF GetStep, At, TypeOK
<1>2. Room' >= 0
  BY <1>1, StepFits DEF GetStep, timerVars, TypeOK, TimerTypeOK
<1>3. [mgr EXCEPT !.pc = "delete"] \in Jobs
  <2>1. [mgr EXCEPT !.pc = "delete"]
            = Job("delete", mgr.alarm, mgr.of, mgr.next)
    BY DEF Job, Jobs, Idle, TypeOK
  <2>2. QED
    BY <1>1, <2>1 DEF Job, Jobs
<1>4. state' \in States /\ mgr' \in Jobs /\ faults' \in 0 .. MaxFaults
  BY <1>1, <1>3, FinishTyped DEF GetStep, Succeed, Fail, TypeOK
<1>5. TimerTypeOK'
  BY DEF GetStep, timerVars, TypeOK, TimerTypeOK
<1>6. QED
  BY <1>2, <1>4, <1>5 DEF GetStep, screenVars, TypeOK

LEMMA DeleteTyped ==
    TypeOK /\ DeleteStep => TypeOK'
<1> SUFFICES ASSUME TypeOK, DeleteStep PROVE TypeOK'
  OBVIOUS
<1>1. /\ mgr.alarm \in AlarmIds /\ mgr.of \in Times
      /\ mgr.next \in {"TIME", "stay"} /\ mgr # Idle
  BY JobCarries DEF DeleteStep, At, TypeOK
<1>2. Room' >= 0
  BY <1>1, StepFits DEF DeleteStep, timerVars, TypeOK, TimerTypeOK
<1>3. [mgr EXCEPT !.pc = "reload"] \in Jobs
  <2>1. [mgr EXCEPT !.pc = "reload"]
            = Job("reload", mgr.alarm, mgr.of, mgr.next)
    BY DEF Job, Jobs, Idle, TypeOK
  <2>2. QED
    BY <1>1, <2>1 DEF Job, Jobs
<1>4. stored' \in Schedules
  BY DEF DeleteStep, TypeOK, Schedules
<1>5. state' \in States /\ mgr' \in Jobs /\ faults' \in 0 .. MaxFaults
  BY <1>1, <1>3, FinishTyped DEF DeleteStep, Succeed, Fail, TypeOK
<1>6. TimerTypeOK'
  BY DEF DeleteStep, timerVars, TypeOK, TimerTypeOK
<1>7. QED
  BY <1>2, <1>4, <1>5, <1>6 DEF DeleteStep, screenVars, TypeOK

(* A reload takes the records or leaves the schedule as it is.             *)
LEMMA ReloadTaskTyped ==
    ASSUME TypeOK, ReloadTask
    PROVE  alarms' \in Schedules /\ faults' \in 0 .. MaxFaults
  BY DEF ReloadTask, Reload, Succeed, Fail, TypeOK, TimerTypeOK

LEMMA ReloadTyped ==
    TypeOK /\ ReloadStep => TypeOK'
<1> SUFFICES ASSUME TypeOK, ReloadStep PROVE TypeOK'
  OBVIOUS
<1>1. mgr.next \in {"TIME", "stay"} /\ mgr # Idle
  BY JobCarries DEF ReloadStep, At, TypeOK
<1>2. Room' >= 0
  BY <1>1, StepFits DEF ReloadStep, TypeOK, TimerTypeOK
<1>3. alarms' \in Schedules /\ faults' \in 0 .. MaxFaults
  BY ReloadTaskTyped DEF ReloadStep
<1>4. state' \in States /\ mgr' \in Jobs
  BY <1>1, FinishTyped DEF ReloadStep, TypeOK
<1>5. TimerTypeOK'
  BY <1>3 DEF ReloadStep, TypeOK, TimerTypeOK
<1>6. QED
  BY <1>2, <1>3, <1>4, <1>5 DEF ReloadStep, screenVars, TypeOK

-----------------------------------------------------------------------------
(* The UiWorker.                                                           *)

LEMMA ButtonsAreRequests ==
    ASSUME NEW request, shown \in Screens, request \in Buttons[shown]
    PROVE  request \in Requests
<1>1. \A to \in States : Move(to) \in Requests
  BY DEF Move, Requests
<1>2. \A type \in {"stop", "snooze", "cancel", "screen"} :
        Answer(type) \in Requests
  BY DEF Answer, Requests
<1>3. QED
  BY <1>1, <1>2 DEF Buttons, States

LEMMA PressTyped ==
    ASSUME TypeOK, NEW request, Press(request)
    PROVE  TypeOK'
<1>1. <<request>> \in Seq(Requests)
  BY ButtonsAreRequests DEF Press, TypeOK
<1>2. Room \in Nat
  BY DEF Room, TypeOK, TimerTypeOK
<1>3. queue' \in Seq(Requests) /\ Len(queue') <= Len(queue) + Room
  BY <1>1, <1>2, PostFits DEF Press, TypeOK, TimerTypeOK
<1>4. Room' >= 0
  BY <1>3 DEF Press, managerVars, Room, TypeOK, TimerTypeOK
<1>5. TimerTypeOK'
  BY <1>3 DEF Press, timerKept, TypeOK, TimerTypeOK
<1>6. QED
  BY <1>4, <1>5 DEF Press, managerVars, screenVars, TypeOK

LEMMA StoreTyped ==
    ASSUME TypeOK, NEW id \in AlarmIds, NEW alarm \in Alarm \union {NoAlarm},
           Store(id, alarm)
    PROVE  TypeOK'
<1>1. stored' \in Schedules /\ dismissed' \in [AlarmIds -> Instants]
  BY DEF Store, TypeOK, Schedules, Instants
<1>2. TimerTypeOK'
  BY DEF Store, timerVars, TypeOK, TimerTypeOK
<1>3. Room' >= 0
  BY DEF Store, timerVars, Room, TypeOK
<1>4. QED
  BY <1>1, <1>2, <1>3 DEF Store, TypeOK

LEMMA UiReloadTyped ==
    TypeOK /\ UiReload => TypeOK'
<1> SUFFICES ASSUME TypeOK, UiReload PROVE TypeOK'
  OBVIOUS
<1>1. alarms' \in Schedules /\ faults' \in 0 .. MaxFaults
  BY ReloadTaskTyped DEF UiReload
<1>2. TimerTypeOK'
  BY <1>1 DEF UiReload, TypeOK, TimerTypeOK
<1>3. Room' >= 0
  BY DEF UiReload, managerVars, Room, TypeOK
<1>4. QED
  BY <1>1, <1>2, <1>3 DEF UiReload, managerVars, TypeOK

-----------------------------------------------------------------------------
(* The Timer's worker.  What a poll posts are requests, and the free slots *)
(* bound them.                                                             *)

LEMMA TickIsRequest ==
    ASSUME TypeOK
    PROVE  /\ Tick(clock, FALSE) \in Requests
           /\ Tick(clock, snooze.alarm # NoId) \in Requests
<1>1. clock \in Instants
  BY DEF TypeOK, TimerTypeOK
<1>2. ASSUME NEW pending \in BOOLEAN
      PROVE  Tick(clock, pending) \in Requests
  BY <1>1 DEF Tick, Requests
<1>3. QED
  BY <1>2

(* What is posted while the manager stands still.                          *)
LEMMA PostTyped ==
    ASSUME TypeOK, NEW events \in Seq(Requests), Post(Room, events),
           mgr' = mgr
    PROVE  queue' \in Seq(Requests) /\ Room' >= 0
<1>1. Room \in Nat
  BY DEF Room, TypeOK, TimerTypeOK
<1>2. queue' \in Seq(Requests) /\ Len(queue') <= Len(queue) + Room
  BY <1>1, PostFits DEF TypeOK, TimerTypeOK
<1>3. QED
  BY <1>2 DEF Room, TypeOK, TimerTypeOK

LEMMA ReportTyped ==
    ASSUME TypeOK, NEW rings \in Seq(Requests), NEW pending,
           Tick(clock, pending) \in Requests, Report(Room, rings, pending),
           mgr' = mgr
    PROVE  queue' \in Seq(Requests) /\ Room' >= 0
<1> DEFINE ticks == IF SecondChanged THEN <<Tick(clock, pending)>> ELSE <<>>
<1>1. ticks \in Seq(Requests)
  OBVIOUS
<1>2. Post(Room, rings \o ticks)
  BY DEF Report
<1> HIDE DEF ticks
<1>3. rings \o ticks \in Seq(Requests)
  BY <1>1
<1>4. QED
  BY <1>2, <1>3, PostTyped

(* A poll's reading of the clock.                                          *)
LEMMA ReadTyped ==
    ASSUME TypeOK, Read
    PROVE  last' \in Instants \union {NoReading} /\ forced' \in BOOLEAN
  BY DEF Read, TypeOK, TimerTypeOK

LEMMA PollQuietTyped ==
    TypeOK /\ PollQuiet(Room) /\ UNCHANGED otherVars => TypeOK'
<1> SUFFICES ASSUME TypeOK, PollQuiet(Room), UNCHANGED otherVars
             PROVE  TypeOK'
  OBVIOUS
<1>1. /\ mgr' = mgr /\ Read /\ <<>> \in Seq(Requests)
      /\ Report(Room, <<>>, snooze.alarm # NoId)
  BY DEF PollQuiet, otherVars, managerVars
<1>2. queue' \in Seq(Requests) /\ Room' >= 0
  BY <1>1, ReportTyped, TickIsRequest
<1>3. TimerTypeOK'
  BY <1>1, <1>2, ReadTyped DEF PollQuiet, TypeOK, TimerTypeOK
<1>4. QED
  BY <1>2, <1>3 DEF otherVars, managerVars, screenVars, counters, TypeOK

LEMMA PollSnoozeTyped ==
    TypeOK /\ PollSnooze(Room) /\ UNCHANGED otherVars => TypeOK'
<1> SUFFICES ASSUME TypeOK, PollSnooze(Room), UNCHANGED otherVars
             PROVE  TypeOK'
  OBVIOUS
<1> DEFINE rings == IF Late(snooze.at) THEN <<>>
                    ELSE <<Ring(snooze.alarm, snooze.at, snooze.of)>>
<1>1. snooze \in [alarm : AlarmIds, at : Nat, of : Times]
  BY DEF PollSnooze, SnoozeFirst, SnoozeDue, NoSnooze, TypeOK, TimerTypeOK
<1>2. Ring(snooze.alarm, snooze.at, snooze.of) \in Requests
  BY <1>1 DEF Ring, Requests
<1>3. rings \in Seq(Requests)
  BY <1>2
<1>4. mgr' = mgr /\ Read /\ Report(Room, rings, FALSE)
  BY DEF PollSnooze, otherVars, managerVars
<1> HIDE DEF rings
<1>5. queue' \in Seq(Requests) /\ Room' >= 0
  BY <1>3, <1>4, ReportTyped, TickIsRequest
<1>6. TimerTypeOK'
  BY <1>4, <1>5, ReadTyped DEF PollSnooze, TypeOK, TimerTypeOK
<1>7. QED
  BY <1>5, <1>6 DEF otherVars, managerVars, screenVars, counters, TypeOK

(* The alarm that is due is one of the list, at an instant of time.        *)
LEMMA PollAlarmTyped ==
    ASSUME TypeOK, PollAlarm(Room), mgr' = mgr
    PROVE  TimerTypeOK' /\ Room' >= 0
<1>1. PICK o \in FirstIn(last, clock) :
        /\ lastFired' = [lastFired EXCEPT ![o[1]] = o[2]]
        /\ Report(Room, IF Fires(o) THEN <<Ring(o[1], o[2], o[2])>> ELSE <<>>,
                  snooze.alarm # NoId)
  BY DEF PollAlarm
<1> DEFINE rings == IF Fires(o) THEN <<Ring(o[1], o[2], o[2])>> ELSE <<>>
<1>2. o[1] \in AlarmIds /\ o[2] \in Times
  BY DEF FirstIn, Crossed
<1>3. Ring(o[1], o[2], o[2]) \in Requests
  BY <1>2 DEF Ring, Requests, Times
<1>4. rings \in Seq(Requests)
  BY <1>3
<1>5. Report(Room, rings, snooze.alarm # NoId)
  BY <1>1
<1> HIDE DEF rings
<1>6. queue' \in Seq(Requests) /\ Room' >= 0
  BY <1>4, <1>5, ReportTyped, TickIsRequest
<1>7. lastFired' \in [AlarmIds -> Instants]
  BY <1>1, <1>2 DEF TypeOK, TimerTypeOK, Times, Instants
<1>8. QED
  BY <1>6, <1>7, ReadTyped DEF PollAlarm, TypeOK, TimerTypeOK

LEMMA PollTyped ==
    TypeOK /\ Poll => TypeOK'
<1> SUFFICES ASSUME TypeOK, Poll PROVE TypeOK'
  OBVIOUS
<1>1. CASE PollQuiet(Room) /\ UNCHANGED otherVars
  BY <1>1, PollQuietTyped
<1>2. CASE PollSnooze(Room) /\ UNCHANGED otherVars
  BY <1>2, PollSnoozeTyped
<1>3. CASE /\ PollAlarm(Room)
           /\ dismissed' = [id \in AlarmIds |->
                IF lastFired'[id] = lastFired[id] THEN dismissed[id] ELSE 0]
           /\ UNCHANGED <<managerVars, screenVars, counters>>
  <2>1. TimerTypeOK' /\ Room' >= 0
    BY <1>3, PollAlarmTyped DEF managerVars
  <2>2. dismissed' \in [AlarmIds -> Instants]
    BY <1>3 DEF TypeOK, Instants
  <2>3. QED
    BY <1>3, <2>1, <2>2 DEF managerVars, screenVars, counters, TypeOK
<1>4. QED
  BY <1>1, <1>2, <1>3 DEF Poll

LEMMA PollFailsTyped ==
    TypeOK /\ PollFails => TypeOK'
<1> SUFFICES ASSUME TypeOK, PollFails PROVE TypeOK'
  OBVIOUS
<1> DEFINE event == [type |-> "move", to |-> "ERROR"]
<1>1. <<event>> \in Seq(Requests)
  BY DEF Requests, States
<1>2. Post(Room, <<event>>) /\ mgr' = mgr
  BY DEF PollFails, PollError, managerVars
<1> HIDE DEF event
<1>3. queue' \in Seq(Requests) /\ Room' >= 0
  BY <1>1, <1>2, PostTyped
<1>4. TimerTypeOK'
  BY <1>3 DEF PollFails, PollError, TypeOK, TimerTypeOK
<1>5. QED
  BY <1>3, <1>4 DEF PollFails, Fail, managerVars, screenVars, TypeOK

-----------------------------------------------------------------------------
(* The clock.                                                              *)

LEMMA TimeTyped ==
    TypeOK /\ (TimeGoesOn \/ TimeIsSet \/ ZoneIsSet) => TypeOK'
<1> SUFFICES ASSUME TypeOK, TimeGoesOn \/ TimeIsSet \/ ZoneIsSet
             PROVE  TypeOK'
  OBVIOUS
<1>1. UNCHANGED otherVars /\ UNCHANGED queue
  BY DEF TimeGoesOn, TimeIsSet, ZoneIsSet, Elapse, SetClock, SetTimezone
<1>2. TimerTypeOK'
  <2>1. CASE TimeGoesOn
    BY <2>1 DEF TimeGoesOn, Elapse, TypeOK, TimerTypeOK, Instants
  <2>2. CASE TimeIsSet
    BY <2>2 DEF TimeIsSet, SetClock, TypeOK, TimerTypeOK, Instants
  <2>3. CASE ZoneIsSet
    BY <2>3 DEF ZoneIsSet, SetTimezone, TypeOK, TimerTypeOK
  <2>4. QED
    BY <2>1, <2>2, <2>3
<1>3. Room' >= 0
  BY <1>1 DEF otherVars, managerVars, Room, TypeOK
<1>4. QED
  BY <1>1, <1>2, <1>3
     DEF otherVars, managerVars, screenVars, counters, TypeOK

LEMMA AdoptTyped ==
    TypeOK /\ TimeIsAdopted => TypeOK'
<1> SUFFICES ASSUME TypeOK, TimeIsAdopted PROVE TypeOK'
  OBVIOUS
<1>1. <<Tick(clock, snooze.alarm # NoId)>> \in Seq(Requests)
  BY TickIsRequest
<1>2. /\ Post(Room, <<Tick(clock, snooze.alarm # NoId)>>)
      /\ UNCHANGED otherVars /\ mgr' = mgr
  BY DEF TimeIsAdopted, Adopt, otherVars, managerVars
<1>3. queue' \in Seq(Requests) /\ Room' >= 0
  BY <1>1, <1>2, PostTyped
<1>4. TimerTypeOK'
  BY <1>3 DEF TimeIsAdopted, Adopt, TypeOK, TimerTypeOK
<1>5. QED
  BY <1>2, <1>3, <1>4
     DEF otherVars, managerVars, screenVars, counters, TypeOK

-----------------------------------------------------------------------------
(* The theorem of the types: no request outgrows its slots, no step uses   *)
(* an alarm that is not one.                                               *)

LEMMA InitTyped ==
    Init => TypeOK
<1> SUFFICES ASSUME Init PROVE TypeOK
  OBVIOUS
<1>1. TimerTypeOK
  <2>1. alarms \in Schedules /\ queue \in Seq(Requests)
    BY DEF Init, TimerInit
  <2>2. notice \in BOOLEAN /\ forced \in BOOLEAN
    BY DEF Init, TimerInit
  <2>3. QED
    BY <2>1, <2>2 DEF Init, TimerInit, TimerTypeOK, Instants
<1>2. mgr \in Jobs
  BY DEF Init, Jobs
<1>3. Room >= 0
  BY DEF Init, TimerInit, Room
<1>4. stored \in Schedules /\ badge \in BOOLEAN
  BY DEF Init
<1>5. QED
  BY <1>1, <1>2, <1>3, <1>4 DEF Init, Screens, States, Instants, TypeOK

LEMMA ManagerTyped ==
    TypeOK /\ Manager => TypeOK'
  BY MoveTyped, ScreenTyped, StopTyped, SnoozeTyped, CancelSnoozeTyped,
     TimeUpTyped, TickTyped, AlarmTyped, SwapTyped, SnoozeStepTyped,
     ForgetTyped, CancelTyped, GetTyped, DeleteTyped, ReloadTyped
     DEF Manager

LEMMA UiTyped ==
    TypeOK /\ Ui => TypeOK'
<1> SUFFICES ASSUME TypeOK, Ui PROVE TypeOK'
  OBVIOUS
<1>1. CASE \E request \in Buttons[shown] : Press(request)
  BY <1>1, PressTyped
<1>2. CASE \E id \in AlarmIds, alarm \in SavedAlarms : SaveAlarm(id, alarm)
  BY <1>2, StoreTyped DEF SaveAlarm
<1>3. CASE \E id \in AlarmIds : RemoveAlarm(id)
  BY <1>3, StoreTyped DEF RemoveAlarm
<1>4. CASE UiReload
  BY <1>4, UiReloadTyped
<1>5. QED
  BY <1>1, <1>2, <1>3, <1>4 DEF Ui

LEMMA StutterTyped ==
    TypeOK /\ UNCHANGED vars => TypeOK'
<1> SUFFICES ASSUME TypeOK, UNCHANGED vars PROVE TypeOK'
  OBVIOUS
<1>1. TimerTypeOK'
  BY DEF vars, timerVars, TypeOK, TimerTypeOK
<1>2. Room' >= 0
  BY DEF vars, timerVars, managerVars, Room, TypeOK
<1>3. QED
  BY <1>1, <1>2 DEF vars, managerVars, screenVars, counters, TypeOK

(* The type invariant of the timer, the manager, the records and the       *)
(* screens, with the bound that nn20clock_manager.c keeps on its requests: *)
(* a queued one and the one being handled each hold a slot.                *)
THEOREM TypeCorrect == Spec => []TypeOK
<1>1. TypeOK /\ [Next]_vars => TypeOK'
  BY ManagerTyped, UiTyped, StutterTyped, TimeTyped, AdoptTyped, PollTyped,
     PollFailsTyped DEF Next
<1>2. QED
  BY InitTyped, <1>1, PTL DEF Spec

-----------------------------------------------------------------------------
(* The live schedule follows the records.                                  *)

(* A step that touches neither of them, and ends no reload.                *)
LEMMA FreshKept ==
    ASSUME ScheduleFresh, UNCHANGED <<alarms, stored>>, ui' = ui,
           mgr.pc = "reload" => mgr' = mgr, faults \in Nat,
           faults' = faults \/ faults' = faults + 1
    PROVE  ScheduleFresh'
  BY DEF ScheduleFresh

(* A reload, by whichever worker.                                          *)
LEMMA FreshReload ==
    ASSUME ReloadTask, stored' = stored, faults \in Nat
    PROVE  ScheduleFresh'
  BY DEF ReloadTask, Reload, Fail, ScheduleFresh

LEMMA FreshManager ==
    TypeOK /\ ScheduleFresh /\ Manager => ScheduleFresh'
<1> SUFFICES ASSUME TypeOK, ScheduleFresh, Manager PROVE ScheduleFresh'
  OBVIOUS
<1>1. faults \in Nat
  BY DEF TypeOK
<1>2. \A type : Take(type) => mgr.pc = "idle"
  BY DEF Take, Idle, Job
<1>3. CASE \/ ApplyMove \/ ApplyScreen \/ ApplyStop \/ ApplySnooze
           \/ ApplyCancelSnooze \/ ApplyTimeUp \/ ApplyTick \/ ApplyAlarm
  <2>1. mgr.pc = "idle" /\ UNCHANGED <<alarms, stored, ui, faults>>
    BY <1>2, <1>3
       DEF ApplyMove, ApplyScreen, ApplyStop, ApplySnooze, ApplyCancelSnooze,
           ApplyTimeUp, ApplyAlarm, ApplyTick, timerKept, managerVars,
           screenVars, counters
  <2>2. QED
    BY <1>1, <2>1, FreshKept
<1>4. CASE SwapScreen \/ SnoozeStep \/ ForgetStep \/ CancelStep \/ GetStep
  BY <1>1, <1>4, FreshKept
     DEF SwapScreen, SnoozeStep, ForgetStep, CancelStep, GetStep, At,
         Succeed, Fail, screenVars, timerVars, counters
<1>5. CASE DeleteStep
  <2>1. CASE mgr' = [mgr EXCEPT !.pc = "reload"]
    BY <2>1 DEF ScheduleFresh, TypeOK, Jobs, Idle, Job
  <2>2. CASE mgr' # [mgr EXCEPT !.pc = "reload"]
    BY <1>1, <1>5, <2>2, FreshKept
       DEF DeleteStep, At, Succeed, Fail, timerVars, screenVars
  <2>3. QED
    BY <2>1, <2>2
<1>6. CASE ReloadStep
  BY <1>1, <1>6, FreshReload DEF ReloadStep
<1>7. QED
  BY <1>3, <1>4, <1>5, <1>6 DEF Manager

LEMMA FreshUi ==
    TypeOK /\ ScheduleFresh /\ Ui => ScheduleFresh'
<1> SUFFICES ASSUME TypeOK, ScheduleFresh, Ui PROVE ScheduleFresh'
  OBVIOUS
<1>1. faults \in Nat
  BY DEF TypeOK
<1>2. CASE \E request \in Buttons[shown] : Press(request)
  BY <1>1, <1>2, FreshKept
     DEF Press, timerKept, managerVars, screenVars
<1>3. CASE UiReload
  BY <1>1, <1>3, FreshReload DEF UiReload, managerVars
<1>4. CASE \/ \E id \in AlarmIds, alarm \in SavedAlarms : SaveAlarm(id, alarm)
           \/ \E id \in AlarmIds : RemoveAlarm(id)
  BY <1>4 DEF SaveAlarm, RemoveAlarm, Store, ScheduleFresh
<1>5. QED
  BY <1>2, <1>3, <1>4 DEF Ui

LEMMA FreshTimer ==
    ASSUME TypeOK, ScheduleFresh,
           \/ TimeGoesOn \/ TimeIsSet \/ TimeIsAdopted \/ ZoneIsSet
           \/ Poll \/ PollFails
    PROVE  ScheduleFresh'
<1>1. faults \in Nat
  BY DEF TypeOK
<1>2. UNCHANGED alarms
  BY DEF TimeGoesOn, TimeIsSet, TimeIsAdopted, ZoneIsSet, Poll, PollFails,
         Elapse, SetClock, Adopt, SetTimezone, PollQuiet, PollSnooze,
         PollAlarm, PollError
<1>3. /\ UNCHANGED <<stored, ui, mgr>>
      /\ faults' = faults \/ faults' = faults + 1
  BY DEF TimeGoesOn, TimeIsSet, TimeIsAdopted, ZoneIsSet, Poll, PollFails,
         Fail, otherVars, managerVars, screenVars, counters
<1>4. QED
  BY <1>1, <1>2, <1>3, FreshKept

(* Once every writer of the records has finished, the schedule the Timer   *)
(* scans is the stored one, for every order in which alarm_service_save()  *)
(* and dismiss_alarm() write and reload.                                   *)
THEOREM ScheduleStaysFresh == Spec => []ScheduleFresh
<1>1. Init => ScheduleFresh
  BY DEF Init, ScheduleFresh
<1>2. TypeOK /\ ScheduleFresh /\ [Next]_vars => ScheduleFresh'
  <2>1. TypeOK /\ ScheduleFresh /\ UNCHANGED vars => ScheduleFresh'
    BY DEF vars, timerVars, managerVars, screenVars, counters, ScheduleFresh
  <2>2. QED
    BY <2>1, FreshManager, FreshUi, FreshTimer DEF Next
<1>3. QED
  BY <1>1, <1>2, TypeCorrect, PTL DEF Spec

-----------------------------------------------------------------------------
(* The end of a one-off's life.  OneOffGone says nothing while a dismissal *)
(* is under way; what is inductive names the alarm it is under way for.    *)

Leftover(id) == stored[id].kind = "one_off" /\ stored[id].at = dismissed[id]
BeingRemoved(id) == mgr.pc \in {"get", "delete"} /\ mgr.alarm = id

LeftoverRemoved ==
    faults = 0 => \A id \in AlarmIds : Leftover(id) => BeingRemoved(id)

(* A step that makes no leftover, and ends no removal.                     *)
LEMMA LeftoverKept ==
    ASSUME LeftoverRemoved, faults \in Nat,
           faults' = faults \/ faults' = faults + 1,
           UNCHANGED <<stored, dismissed>>,
           mgr.pc \in {"get", "delete"} =>
                mgr'.pc \in {"get", "delete"} /\ mgr'.alarm = mgr.alarm
    PROVE  LeftoverRemoved'
  BY DEF LeftoverRemoved, Leftover, BeingRemoved

(* No alarm is set for the instant that stands for "not dismissed".        *)
LEMMA NotAtZero ==
    ASSUME TypeOK, NEW id \in AlarmIds, stored[id].kind = "one_off"
    PROVE  stored[id].at # 0
<1>1. stored[id] \in Alarm \union {NoAlarm}
  BY DEF TypeOK, Schedules
<1>2. QED
  BY <1>1 DEF Alarm, NoAlarm, Times

LEMMA LeftoverCancel ==
    TypeOK /\ LeftoverRemoved /\ CancelStep => LeftoverRemoved'
<1> SUFFICES ASSUME TypeOK, LeftoverRemoved, CancelStep, faults' = 0,
                    NEW id \in AlarmIds, Leftover(id)'
             PROVE  BeingRemoved(id)'
  BY DEF LeftoverRemoved
<1>1. mgr.pc = "cancel" /\ faults = 0 /\ stored' = stored
  BY DEF CancelStep, At, counters
<1>2. ~Leftover(id)
  BY <1>1 DEF LeftoverRemoved, BeingRemoved
<1>3. mgr.alarm = id /\ mgr.alarm # NoId
  BY <1>1, <1>2 DEF CancelStep, Leftover, TypeOK
<1>4. mgr' = [mgr EXCEPT !.pc = "get"]
  BY <1>3 DEF CancelStep
<1>5. QED
  BY <1>3, <1>4 DEF BeingRemoved, TypeOK, Jobs, Idle, Job

LEMMA LeftoverGet ==
    TypeOK /\ LeftoverRemoved /\ GetStep => LeftoverRemoved'
<1> SUFFICES ASSUME TypeOK, LeftoverRemoved, GetStep, faults' = 0,
                    NEW id \in AlarmIds, Leftover(id)'
             PROVE  BeingRemoved(id)'
  BY DEF LeftoverRemoved
<1>1. faults \in Nat /\ UNCHANGED <<stored, dismissed>>
  BY DEF GetStep, TypeOK
<1>2. faults = 0 /\ ~Fail
  BY <1>1 DEF GetStep, Fail, Succeed
<1>3. mgr.alarm = id /\ stored[id].kind = "one_off"
  BY <1>1, <1>2 DEF LeftoverRemoved, Leftover, BeingRemoved
<1>4. mgr' = [mgr EXCEPT !.pc = "delete"]
  BY <1>2, <1>3 DEF GetStep
<1>5. QED
  BY <1>3, <1>4 DEF BeingRemoved, TypeOK, Jobs, Idle, Job

LEMMA LeftoverDelete ==
    TypeOK /\ LeftoverRemoved /\ DeleteStep => LeftoverRemoved'
<1> SUFFICES ASSUME TypeOK, LeftoverRemoved, DeleteStep, faults' = 0,
                    NEW id \in AlarmIds, Leftover(id)'
             PROVE  BeingRemoved(id)'
  BY DEF LeftoverRemoved
<1>1. faults \in Nat /\ UNCHANGED dismissed
  BY DEF DeleteStep, TypeOK
<1>2. faults = 0 /\ ~Fail
  BY <1>1 DEF DeleteStep, Fail, Succeed
<1>3. CASE mgr.alarm = id
  <2>1. stored'[id] = NoAlarm
    BY <1>2, <1>3 DEF DeleteStep, TypeOK, Schedules
  <2>2. QED
    BY <2>1 DEF Leftover, NoAlarm
<1>4. CASE mgr.alarm # id
  <2>1. stored'[id] = stored[id]
    BY <1>4 DEF DeleteStep, TypeOK, Schedules
  <2>2. Leftover(id)
    BY <1>1, <2>1 DEF Leftover
  <2>3. QED
    BY <1>2, <1>4, <2>2 DEF LeftoverRemoved, BeingRemoved
<1>5. QED
  BY <1>3, <1>4

LEMMA LeftoverStore ==
    ASSUME TypeOK, LeftoverRemoved, NEW saved \in AlarmIds,
           NEW alarm \in Alarm \union {NoAlarm}, Store(saved, alarm), TypeOK'
    PROVE  LeftoverRemoved'
<1> SUFFICES ASSUME faults' = 0, NEW id \in AlarmIds, Leftover(id)'
             PROVE  BeingRemoved(id)'
  BY DEF LeftoverRemoved
<1>1. UNCHANGED <<mgr, faults>>
  BY DEF Store
<1>2. CASE id = saved
  <2>1. stored'[id] = alarm /\ dismissed'[id] = 0
    BY <1>2 DEF Store, TypeOK, Schedules
  <2>2. alarm.kind = "one_off" /\ alarm.at = 0
    BY <2>1 DEF Leftover
  <2>3. QED
    BY <2>2 DEF Alarm, NoAlarm, Times
<1>3. CASE id # saved
  <2>1. stored'[id] = stored[id] /\ dismissed'[id] = dismissed[id]
    BY <1>3 DEF Store, TypeOK, Schedules
  <2>2. QED
    BY <1>1, <2>1 DEF LeftoverRemoved, Leftover, BeingRemoved
<1>4. QED
  BY <1>2, <1>3

(* A poll forgets dismissals, and makes none.                              *)
LEMMA LeftoverPoll ==
    TypeOK /\ LeftoverRemoved /\ Poll => LeftoverRemoved'
<1> SUFFICES ASSUME TypeOK, LeftoverRemoved, Poll, faults' = 0,
                    NEW id \in AlarmIds, Leftover(id)'
             PROVE  BeingRemoved(id)'
  BY DEF LeftoverRemoved
<1>1. UNCHANGED <<stored, mgr, faults>>
  BY DEF Poll, otherVars, managerVars, counters
<1>2. stored[id].kind = "one_off" /\ stored[id].at = dismissed'[id]
  BY <1>1 DEF Leftover
<1>3. stored[id].at # 0
  BY <1>2, NotAtZero
<1>4. dismissed'[id] \in {dismissed[id], 0}
  BY DEF Poll, otherVars
<1>5. Leftover(id)
  BY <1>2, <1>3, <1>4 DEF Leftover
<1>6. QED
  BY <1>1, <1>5 DEF LeftoverRemoved, BeingRemoved

LEMMA LeftoverOthers ==
    ASSUME TypeOK, LeftoverRemoved,
           \/ ApplyMove \/ ApplyScreen \/ ApplyStop \/ ApplySnooze
           \/ ApplyCancelSnooze \/ ApplyTimeUp \/ ApplyTick \/ ApplyAlarm
           \/ SwapScreen \/ SnoozeStep \/ ForgetStep \/ ReloadStep
    PROVE  LeftoverRemoved'
<1>1. faults \in Nat
  BY DEF TypeOK
<1>2. mgr.pc \notin {"get", "delete"}
  BY DEF ApplyMove, ApplyScreen, ApplyStop, ApplySnooze, ApplyCancelSnooze,
         ApplyTimeUp, ApplyTick, ApplyAlarm, Take, Idle, Job,
         SwapScreen, SnoozeStep, ForgetStep, ReloadStep, At
<1>3. UNCHANGED <<stored, dismissed>>
  BY DEF ApplyMove, ApplyScreen, ApplyStop, ApplySnooze, ApplyCancelSnooze,
         ApplyTimeUp, ApplyTick, ApplyAlarm, managerVars,
         SwapScreen, SnoozeStep, ForgetStep, ReloadStep
<1>4. faults' = faults \/ faults' = faults + 1
  BY DEF ApplyMove, ApplyScreen, ApplyStop, ApplySnooze, ApplyCancelSnooze,
         ApplyTimeUp, ApplyTick, ApplyAlarm, counters,
         SwapScreen, SnoozeStep, ForgetStep, ReloadStep, ReloadTask,
         Succeed, Fail
<1>5. QED
  BY <1>1, <1>2, <1>3, <1>4, LeftoverKept

LEMMA LeftoverAside ==
    ASSUME TypeOK, LeftoverRemoved,
           \/ TimeGoesOn \/ TimeIsSet \/ TimeIsAdopted \/ ZoneIsSet
           \/ PollFails \/ UiReload
           \/ \E request \in Buttons[shown] : Press(request)
           \/ UNCHANGED vars
    PROVE  LeftoverRemoved'
<1>1. faults \in Nat
  BY DEF TypeOK
<1>2. /\ UNCHANGED <<stored, mgr, dismissed>>
      /\ faults' = faults \/ faults' = faults + 1
  BY DEF TimeGoesOn, TimeIsSet, TimeIsAdopted, ZoneIsSet, PollFails,
         UiReload, Press, ReloadTask, Succeed, Fail, otherVars, managerVars,
         counters, vars
<1>3. QED
  BY <1>1, <1>2, LeftoverKept

(* A one-off whose dismissal is through is gone from Storage, whatever the *)
(* user saved meanwhile and whenever its snoozes rang, unless Storage      *)
(* failed: dismiss_alarm().                                                *)
THEOREM OneOffsGone == Spec => []OneOffGone
<1>1. TypeOK /\ Init => LeftoverRemoved
  <2> SUFFICES ASSUME TypeOK, Init, NEW id \in AlarmIds, Leftover(id)
               PROVE  FALSE
    BY DEF LeftoverRemoved
  <2>1. dismissed[id] = 0 /\ stored[id].kind = "one_off" /\ stored[id].at = 0
    BY DEF Init, Leftover
  <2>2. QED
    BY <2>1, NotAtZero
<1>2. TypeOK /\ LeftoverRemoved /\ TypeOK' /\ [Next]_vars => LeftoverRemoved'
  <2> SUFFICES ASSUME TypeOK, LeftoverRemoved, TypeOK', [Next]_vars
               PROVE  LeftoverRemoved'
    OBVIOUS
  <2>1. CASE Manager
    BY <2>1, LeftoverOthers, LeftoverCancel, LeftoverGet, LeftoverDelete
       DEF Manager
  <2>2. CASE Ui
    <3>1. CASE \E id \in AlarmIds, alarm \in SavedAlarms :
                    SaveAlarm(id, alarm)
      BY <3>1, LeftoverStore DEF SaveAlarm
    <3>2. CASE \E id \in AlarmIds : RemoveAlarm(id)
      BY <3>2, LeftoverStore DEF RemoveAlarm
    <3>3. QED
      BY <2>2, <3>1, <3>2, LeftoverAside DEF Ui
  <2>3. QED
    BY <2>1, <2>2, LeftoverPoll, LeftoverAside DEF Next
<1>3. LeftoverRemoved => OneOffGone
  BY DEF LeftoverRemoved, OneOffGone, Leftover, BeingRemoved
<1>4. QED
  BY InitTyped, <1>1, <1>2, <1>3, TypeCorrect, PTL DEF Spec

-----------------------------------------------------------------------------
(* A dismissal is for good.  What an alarm fires is a token that is in one *)
(* place at a time: posted, ringing, in the hands of a handler, or asleep  *)
(* in the Timer; a dismissal takes it out of the world.  last_fired[]      *)
(* remembers one instant per alarm, so that an alarm can fire an instant   *)
(* again once it has fired another and the clock has been set back: where  *)
(* it does so while its first token is still about, there are two of them, *)
(* and a dismissal ends only one.  FiresAfresh says that this is not so.   *)

IsRing(i, id, of) ==
    queue[i].type = "alarm" /\ queue[i].alarm = id /\ queue[i].of = of

Posted(id, of) == \E i \in 1 .. Len(queue) : IsRing(i, id, of)
Handled(id, of) ==
    mgr.pc \in {"cancel", "snooze"} /\ mgr.alarm = id /\ mgr.of = of
Asleep(id, of) == snooze.alarm = id /\ snooze.of = of
Rings(id, of) == ringing.alarm = id /\ ringing.of = of
About(id, of) ==
    Posted(id, of) \/ Handled(id, of) \/ Asleep(id, of) \/ Rings(id, of)

FiresAfresh ==
    \A id \in AlarmIds :
        lastFired'[id] # lastFired[id] => ~About(id, lastFired'[id])

PostedOnce(id, of) ==
    \A i, j \in 1 .. Len(queue) :
        IsRing(i, id, of) /\ IsRing(j, id, of) => i = j

InOnePlace(id, of) ==
    /\ PostedOnce(id, of)
    /\ Rings(id, of) => ~Posted(id, of) /\ ~Handled(id, of) /\ ~Asleep(id, of)
    /\ Handled(id, of) => ~Posted(id, of) /\ ~Asleep(id, of)
    /\ Asleep(id, of) => ~Posted(id, of)

Gone(id, of) == dismissed[id] = of => ~About(id, of)

TokensOK ==
    \A id \in AlarmIds, of \in Times : InOnePlace(id, of) /\ Gone(id, of)

NoneMade ==
    \A id \in AlarmIds, of \in Times : About(id, of)' => About(id, of)

(* Taking the request at the head moves its token, if it has one.          *)
LEMMA TakenToken ==
    ASSUME queue \in Seq(Requests), NEW type, Take(type),
           NEW id, NEW of, PostedOnce(id, of)
    PROVE  /\ PostedOnce(id, of)'
           /\ Posted(id, of)' => Posted(id, of) /\ ~IsRing(1, id, of)
<1>1. queue # <<>> /\ queue' = Tail(queue)
  BY DEF Take
<1>2. /\ Len(queue) \in Nat /\ Len(queue) > 0 /\ Len(queue') = Len(queue) - 1
      /\ \A i \in 1 .. Len(queue') : queue'[i] = queue[i + 1]
  BY <1>1
<1>3. \A i \in 1 .. Len(queue') :
        i + 1 \in 1 .. Len(queue) /\ (IsRing(i, id, of)' <=> IsRing(i + 1, id, of))
  BY <1>2 DEF IsRing
<1>4. PostedOnce(id, of)'
  BY <1>2, <1>3 DEF PostedOnce
<1>5. ASSUME Posted(id, of)'
      PROVE  Posted(id, of) /\ ~IsRing(1, id, of)
  <2>1. PICK i \in 1 .. Len(queue') : IsRing(i, id, of)'
    BY <1>5 DEF Posted
  <2>2. i + 1 \in 1 .. Len(queue) /\ IsRing(i + 1, id, of) /\ i + 1 # 1
    BY <1>2, <1>3, <2>1
  <2>3. 1 \in 1 .. Len(queue)
    BY <1>2
  <2>4. ~IsRing(1, id, of)
    BY <2>2, <2>3 DEF PostedOnce
  <2>5. QED
    BY <2>2, <2>4 DEF Posted
<1>6. QED
  BY <1>4, <1>5

(* Posting events of which none is a ring but, perhaps, the first.         *)
LEMMA PostedToken ==
    ASSUME queue \in Seq(Requests), NEW events \in Seq(Requests),
           NEW room \in Nat, Post(room, events),
           \A k \in 1 .. Len(events) : k > 1 => events[k].type # "alarm",
           NEW id, NEW of, PostedOnce(id, of),
           NEW fresh \in BOOLEAN, fresh => ~Posted(id, of),
           ~fresh => \A k \in 1 .. Len(events) :
                ~(/\ events[k].type = "alarm"
                  /\ events[k].alarm = id /\ events[k].of = of)
    PROVE  /\ PostedOnce(id, of)'
           /\ Posted(id, of)' => Posted(id, of) \/ fresh
<1> DEFINE n == IF Len(events) < room THEN Len(events) ELSE room
           sent == SubSeq(events, 1, n)
<1>1. n \in Nat /\ n <= Len(events) /\ Len(events) \in Nat /\ Len(queue) \in Nat
  OBVIOUS
<1>2. /\ sent \in Seq(Requests) /\ Len(sent) = n
      /\ \A k \in 1 .. n : sent[k] = events[k]
  BY <1>1
<1>3. queue' = queue \o sent
  BY DEF Post
<1> HIDE DEF n, sent
<1>4. Len(queue') = Len(queue) + n
  <2>1. Len(queue \o sent) = Len(queue) + Len(sent)
    BY <1>2, ConcatProperties
  <2>2. QED
    BY <1>2, <1>3, <2>1
<1>5. \A i \in 1 .. Len(queue) : queue'[i] = queue[i]
  BY <1>2, <1>3
<1>6. \A i \in 1 .. Len(queue') :
        i > Len(queue) =>
            i - Len(queue) \in 1 .. n /\ queue'[i] = events[i - Len(queue)]
  BY <1>1, <1>2, <1>3, <1>4
<1>7. \A i \in 1 .. Len(queue') :
        i <= Len(queue) => i \in 1 .. Len(queue) /\ (IsRing(i, id, of)' <=> IsRing(i, id, of))
  BY <1>1, <1>5 DEF IsRing
<1>8. \A i \in 1 .. Len(queue') :
        i > Len(queue) /\ IsRing(i, id, of)' => fresh /\ i = Len(queue) + 1
  <2> SUFFICES ASSUME NEW i \in 1 .. Len(queue'), i > Len(queue),
                      IsRing(i, id, of)'
               PROVE  fresh /\ i = Len(queue) + 1
    OBVIOUS
  <2>1. /\ i - Len(queue) \in 1 .. n /\ i - Len(queue) \in 1 .. Len(events)
        /\ queue'[i] = events[i - Len(queue)]
    BY <1>1, <1>6
  <2>2. ~(i - Len(queue) > 1)
    BY <2>1 DEF IsRing
  <2>3. QED
    BY <1>1, <2>1, <2>2 DEF IsRing
<1>9. PostedOnce(id, of)'
  <2> SUFFICES ASSUME NEW i \in 1 .. Len(queue'), NEW j \in 1 .. Len(queue'),
                      IsRing(i, id, of)', IsRing(j, id, of)'
               PROVE  i = j
    BY DEF PostedOnce
  <2>1. CASE fresh
    <3>1. i > Len(queue) /\ j > Len(queue)
      BY <1>1, <1>4, <1>7, <2>1 DEF Posted
    <3>2. QED
      BY <1>8, <3>1
  <2>2. CASE ~fresh
    <3>1. i <= Len(queue) /\ j <= Len(queue)
      BY <1>1, <1>4, <1>8, <2>2
    <3>2. QED
      BY <1>7, <3>1 DEF PostedOnce
  <2>3. QED
    BY <2>1, <2>2
<1>10. Posted(id, of)' => Posted(id, of) \/ fresh
  <2> SUFFICES ASSUME NEW i \in 1 .. Len(queue'), IsRing(i, id, of)', ~fresh
               PROVE  Posted(id, of)
    BY DEF Posted
  <2>1. i <= Len(queue)
    BY <1>1, <1>4, <1>8
  <2>2. QED
    BY <1>7, <2>1 DEF Posted
<1>11. QED
  BY <1>9, <1>10

(* A step that moves no token and dismisses nothing.                       *)
LEMMA TokensKept ==
    ASSUME TokensOK,
           \A id \in AlarmIds : dismissed'[id] \in {dismissed[id], 0},
           \A id \in AlarmIds, of \in Times :
                /\ PostedOnce(id, of)' /\ (Posted(id, of)' => Posted(id, of))
                /\ Handled(id, of)' => Handled(id, of)
                /\ Asleep(id, of)' => Asleep(id, of)
                /\ Rings(id, of)' => Rings(id, of)
    PROVE  TokensOK' /\ NoneMade
<1> SUFFICES ASSUME NEW id \in AlarmIds, NEW of \in Times
             PROVE  /\ InOnePlace(id, of)' /\ Gone(id, of)'
                    /\ About(id, of)' => About(id, of)
  BY DEF TokensOK, NoneMade
<1>1. InOnePlace(id, of) /\ Gone(id, of) /\ dismissed'[id] \in {dismissed[id], 0}
  BY DEF TokensOK
<1>2. of # 0
  BY DEF Times
<1>3. InOnePlace(id, of)'
  BY <1>1 DEF InOnePlace
<1>4. Gone(id, of)'
  BY <1>1, <1>2 DEF Gone, About
<1>5. About(id, of)' => About(id, of)
  BY DEF About
<1>6. QED
  BY <1>3, <1>4, <1>5

(* The same for the steps that leave the queue and the Timer's snooze.     *)
LEMMA QueueKept ==
    ASSUME TokensOK, UNCHANGED <<queue, snooze>>,
           \A id \in AlarmIds : dismissed'[id] \in {dismissed[id], 0},
           mgr' = mgr \/ mgr'.pc \notin {"cancel", "snooze"},
           UNCHANGED ringing
    PROVE  TokensOK' /\ NoneMade
<1>1. \A id \in AlarmIds, of \in Times :
        /\ PostedOnce(id, of)' /\ (Posted(id, of)' => Posted(id, of))
        /\ Handled(id, of)' => Handled(id, of)
        /\ Asleep(id, of)' => Asleep(id, of)
        /\ Rings(id, of)' => Rings(id, of)
  BY DEF TokensOK, InOnePlace, PostedOnce, Posted, IsRing, Handled, Asleep, Rings
<1>2. QED
  BY <1>1, TokensKept

LEMMA EnterFrees ==
    ASSUME NEW to, Enter(to) \/ Finish(to)
    PROVE  mgr'.pc \in {"idle", "screen"}
  BY DEF Enter, Finish, Idle, Job

(* What rings, sleeps or is handled, where there is such a thing at all.   *)
LEMMA NoToken ==
    ASSUME NEW id \in AlarmIds
    PROVE  id # NoId
  BY DEF NoId

-----------------------------------------------------------------------------
(* The manager's worker takes a token from the queue to the screen, from   *)
(* the screen into a handler's hands, from there to the Timer or out of    *)
(* the world.                                                              *)

LEMMA TokenQuietTake ==
    ASSUME TypeOK, TokensOK,
           ApplyMove \/ ApplyScreen \/ ApplyCancelSnooze \/ ApplyTick
    PROVE  TokensOK' /\ NoneMade
<1>1. PICK type \in {"move", "screen", "cancel", "tick"} : Take(type)
  BY DEF ApplyMove, ApplyScreen, ApplyCancelSnooze, ApplyTick
<1>2. UNCHANGED <<snooze, ringing, dismissed>>
  BY DEF ApplyMove, ApplyScreen, ApplyCancelSnooze, ApplyTick, timerKept, managerVars
<1>3. mgr'.pc \notin {"cancel", "snooze"}
  <2>1. CASE ApplyMove
    BY <2>1, EnterFrees DEF ApplyMove
  <2>2. CASE ApplyScreen \/ ApplyCancelSnooze
    BY <2>2 DEF ApplyScreen, ApplyCancelSnooze, Job
  <2>3. CASE ApplyTick
    BY <1>1, <2>3 DEF ApplyTick, managerVars, Take, Idle, Job
  <2>4. QED
    BY <2>1, <2>2, <2>3
<1>4. queue \in Seq(Requests)
  BY DEF TypeOK, TimerTypeOK
<1>5. \A id \in AlarmIds, of \in Times : PostedOnce(id, of)
  BY DEF TokensOK, InOnePlace
<1>6. \A id \in AlarmIds, of \in Times :
        PostedOnce(id, of)' /\ (Posted(id, of)' => Posted(id, of))
  BY <1>1, <1>4, <1>5, TakenToken
<1>7. \A id \in AlarmIds, of \in Times :
        /\ ~Handled(id, of)' /\ (Asleep(id, of)' => Asleep(id, of))
        /\ Rings(id, of)' => Rings(id, of)
  BY <1>2, <1>3 DEF Handled, Asleep, Rings
<1>8. QED
  BY <1>2, <1>6, <1>7, TokensKept

(* The token that rings goes into the hands of the handler.                *)
LEMMA TokenHandled ==
    ASSUME TypeOK, TokensOK, ApplyStop \/ ApplyTimeUp \/ ApplySnooze
    PROVE  TokensOK' /\ NoneMade
<1>1. PICK type \in {"stop", "tick", "snooze"} : Take(type)
  BY DEF ApplyStop, ApplyTimeUp, ApplySnooze
<1>2. UNCHANGED <<snooze, dismissed>> /\ ringing' = NoRinging
  BY DEF ApplyStop, ApplyTimeUp, ApplySnooze, timerKept, Dismiss
<1>3. \/ mgr'.pc \notin {"cancel", "snooze"}
      \/ mgr'.alarm = ringing.alarm /\ mgr'.of = ringing.of
  <2>1. CASE ApplyStop \/ ApplyTimeUp
    BY <2>1 DEF ApplyStop, ApplyTimeUp, Dismiss, Job
  <2>2. CASE ApplySnooze
    BY <2>2, EnterFrees DEF ApplySnooze, Job
  <2>3. QED
    BY <2>1, <2>2
<1>4. queue \in Seq(Requests) /\ mgr.pc = "idle"
  BY <1>1 DEF TypeOK, TimerTypeOK, Take, Idle, Job
<1> SUFFICES ASSUME NEW id \in AlarmIds, NEW of \in Times
             PROVE  /\ InOnePlace(id, of)' /\ Gone(id, of)'
                    /\ About(id, of)' => About(id, of)
  BY DEF TokensOK, NoneMade
<1>5. InOnePlace(id, of) /\ Gone(id, of) /\ dismissed'[id] = dismissed[id]
  BY <1>2 DEF TokensOK
<1>6. PostedOnce(id, of)' /\ (Posted(id, of)' => Posted(id, of))
  BY <1>1, <1>4, <1>5, TakenToken DEF InOnePlace
<1>7. /\ Handled(id, of)' => Rings(id, of)
      /\ Asleep(id, of)' => Asleep(id, of)
      /\ ~Rings(id, of)'
  BY <1>2, <1>3, NoToken DEF Handled, Asleep, Rings, NoRinging
<1>8. InOnePlace(id, of)'
  BY <1>5, <1>6, <1>7 DEF InOnePlace
<1>9. Gone(id, of)'
  BY <1>5, <1>6, <1>7 DEF Gone, About
<1>10. About(id, of)' => About(id, of)
  BY <1>6, <1>7 DEF About
<1>11. QED
  BY <1>8, <1>9, <1>10

(* The token at the head of the queue rings, or is dismissed unrung.       *)
LEMMA TokenRings ==
    ASSUME TypeOK, TokensOK, ApplyAlarm
    PROVE  TokensOK' /\ NoneMade
<1>1. Take("alarm") /\ UNCHANGED <<snooze, dismissed>>
  BY DEF ApplyAlarm, timerKept
<1>2. \/ /\ ringing' = NoRinging
         /\ mgr'.alarm = Request.alarm /\ mgr'.of = Request.of
      \/ /\ ringing' = [alarm |-> Request.alarm, of |-> Request.of]
         /\ mgr'.pc \notin {"cancel", "snooze"}
  BY EnterFrees DEF ApplyAlarm, Dismiss, Job
<1>3. queue \in Seq(Requests) /\ queue # <<>> /\ mgr.pc = "idle"
  BY <1>1 DEF TypeOK, TimerTypeOK, Take, Idle, Job
<1>4. Request = queue[1] /\ 1 \in 1 .. Len(queue) /\ Request.type = "alarm"
  BY <1>1, <1>3 DEF Request, Take
<1> SUFFICES ASSUME NEW id \in AlarmIds, NEW of \in Times
             PROVE  /\ InOnePlace(id, of)' /\ Gone(id, of)'
                    /\ About(id, of)' => About(id, of)
  BY DEF TokensOK, NoneMade
<1>5. InOnePlace(id, of) /\ Gone(id, of) /\ dismissed'[id] = dismissed[id]
  BY <1>1 DEF TokensOK
<1>6. /\ PostedOnce(id, of)'
      /\ Posted(id, of)' => Posted(id, of) /\ ~IsRing(1, id, of)
  BY <1>1, <1>3, <1>5, TakenToken DEF InOnePlace
<1>7. /\ Handled(id, of)' => IsRing(1, id, of) /\ ~Rings(id, of)'
      /\ Rings(id, of)' => IsRing(1, id, of)
      /\ Asleep(id, of)' => Asleep(id, of)
  BY <1>1, <1>2, <1>4, NoToken DEF Handled, Asleep, Rings, IsRing, NoRinging
<1>8. IsRing(1, id, of) => Posted(id, of)
  BY <1>4 DEF Posted
<1>9. InOnePlace(id, of)'
  BY <1>5, <1>6, <1>7, <1>8 DEF InOnePlace
<1>10. Gone(id, of)'
  BY <1>5, <1>6, <1>7, <1>8 DEF Gone, About
<1>11. About(id, of)' => About(id, of)
  BY <1>6, <1>7, <1>8 DEF About
<1>12. QED
  BY <1>9, <1>10, <1>11

(* The handler lays its token to sleep.                                    *)
LEMMA TokenSleeps ==
    ASSUME TypeOK, TokensOK, SnoozeStep
    PROVE  TokensOK' /\ NoneMade
<1>1. /\ mgr.pc = "snooze" /\ UNCHANGED <<queue, ringing, dismissed>>
      /\ snooze'.alarm = mgr.alarm /\ snooze'.of = mgr.of
      /\ mgr'.pc \notin {"cancel", "snooze"}
  BY EnterFrees DEF SnoozeStep, At, SnoozeFor
<1> SUFFICES ASSUME NEW id \in AlarmIds, NEW of \in Times
             PROVE  /\ InOnePlace(id, of)' /\ Gone(id, of)'
                    /\ About(id, of)' => About(id, of)
  BY DEF TokensOK, NoneMade
<1>2. InOnePlace(id, of) /\ Gone(id, of) /\ dismissed'[id] = dismissed[id]
  BY <1>1 DEF TokensOK
<1>3. /\ ~Handled(id, of)' /\ (Asleep(id, of)' => Handled(id, of))
      /\ (Posted(id, of)' <=> Posted(id, of)) /\ PostedOnce(id, of)'
      /\ Rings(id, of)' <=> Rings(id, of)
  BY <1>1, <1>2
     DEF InOnePlace, PostedOnce, Posted, IsRing, Handled, Asleep, Rings
<1>4. InOnePlace(id, of)'
  BY <1>2, <1>3 DEF InOnePlace
<1>5. Gone(id, of)'
  BY <1>2, <1>3 DEF Gone, About
<1>6. About(id, of)' => About(id, of)
  BY <1>3 DEF About
<1>7. QED
  BY <1>4, <1>5, <1>6

(* A dismissal: the token in the handler's hands is the only one of its    *)
(* kind, so with it the last is gone.                                      *)
LEMMA TokenEnds ==
    ASSUME TypeOK, TokensOK, CancelStep
    PROVE  TokensOK' /\ NoneMade
<1>1. /\ mgr.pc = "cancel" /\ UNCHANGED <<queue, ringing>> /\ snooze' = NoSnooze
      /\ mgr'.pc \notin {"cancel", "snooze"}
  <2>1. mgr = Job(mgr.pc, mgr.alarm, mgr.of, mgr.next)
    BY DEF TypeOK, Jobs, Idle, Job
  <2>2. QED
    BY <2>1, EnterFrees DEF CancelStep, At, CancelSnooze, Job
<1> SUFFICES ASSUME NEW id \in AlarmIds, NEW of \in Times
             PROVE  /\ InOnePlace(id, of)' /\ Gone(id, of)'
                    /\ About(id, of)' => About(id, of)
  BY DEF TokensOK, NoneMade
<1>2. InOnePlace(id, of) /\ Gone(id, of)
  BY DEF TokensOK
<1>3. /\ ~Handled(id, of)' /\ ~Asleep(id, of)'
      /\ (Posted(id, of)' <=> Posted(id, of)) /\ PostedOnce(id, of)'
      /\ Rings(id, of)' <=> Rings(id, of)
  BY <1>1, <1>2, NoToken
     DEF InOnePlace, PostedOnce, Posted, IsRing, Handled, Asleep, Rings, NoSnooze
<1>4. dismissed'[id] = dismissed[id] \/ (mgr.alarm = id /\ dismissed'[id] = mgr.of)
  BY DEF CancelStep, TypeOK
<1>5. InOnePlace(id, of)'
  BY <1>2, <1>3 DEF InOnePlace
<1>6. Gone(id, of)'
  <2>1. CASE dismissed'[id] = dismissed[id]
    BY <1>2, <1>3, <2>1 DEF Gone, About
  <2>2. CASE mgr.alarm = id /\ dismissed'[id] = mgr.of
    <3>1. dismissed'[id] = of => Handled(id, of)
      BY <1>1, <2>2 DEF Handled
    <3>2. QED
      BY <1>2, <1>3, <3>1 DEF InOnePlace, Gone, About
  <2>3. QED
    BY <1>4, <2>1, <2>2
<1>7. About(id, of)' => About(id, of)
  BY <1>3 DEF About
<1>8. QED
  BY <1>5, <1>6, <1>7

(* The rest of the jobs, and the UiWorker, leave the tokens where they     *)
(* are.                                                                    *)
LEMMA TokenQuietSteps ==
    ASSUME TypeOK, TokensOK,
           SwapScreen \/ ForgetStep \/ GetStep \/ DeleteStep \/ ReloadStep
    PROVE  TokensOK' /\ NoneMade
<1>1. mgr = Job(mgr.pc, mgr.alarm, mgr.of, mgr.next)
  BY DEF TypeOK, Jobs, Idle, Job
<1>2. mgr'.pc \notin {"cancel", "snooze"}
  BY <1>1, EnterFrees
     DEF SwapScreen, ForgetStep, GetStep, DeleteStep, ReloadStep, Idle, Job
<1>3. UNCHANGED <<queue, ringing, dismissed>>
  BY DEF SwapScreen, ForgetStep, GetStep, DeleteStep, ReloadStep, timerVars
<1>4. \A id \in AlarmIds, of \in Times :
        /\ PostedOnce(id, of)' /\ (Posted(id, of)' => Posted(id, of))
        /\ Handled(id, of)' => Handled(id, of)
        /\ Rings(id, of)' => Rings(id, of)
  BY <1>2, <1>3
     DEF TokensOK, InOnePlace, PostedOnce, Posted, IsRing, Handled, Rings
<1>5. snooze' = snooze \/ snooze' = NoSnooze
  BY DEF SwapScreen, ForgetStep, GetStep, DeleteStep, ReloadStep, timerVars,
         CancelSnooze
<1>6. \A id \in AlarmIds, of \in Times : Asleep(id, of)' => Asleep(id, of)
  BY <1>5, NoToken DEF Asleep, NoSnooze
<1>7. QED
  BY <1>3, <1>4, <1>6, TokensKept

LEMMA ButtonsRingNothing ==
    ASSUME NEW request, shown \in Screens, request \in Buttons[shown]
    PROVE  request.type # "alarm"
<1>1. \A to : Move(to).type = "move"
  BY DEF Move
<1>2. \A type : Answer(type).type = type
  BY DEF Answer
<1>3. QED
  BY <1>1, <1>2 DEF Buttons

LEMMA TokenUi ==
    ASSUME TypeOK, TokensOK, Ui
    PROVE  TokensOK' /\ NoneMade
<1>1. CASE \E request \in Buttons[shown] : Press(request)
  <2>1. PICK request \in Buttons[shown] : Press(request)
    BY <1>1
  <2>2. <<request>> \in Seq(Requests) /\ request.type # "alarm"
    BY <2>1, ButtonsAreRequests, ButtonsRingNothing DEF TypeOK
  <2>3. Post(Room, <<request>>) /\ Room \in Nat /\ queue \in Seq(Requests)
    BY <2>1 DEF Press, Room, TypeOK, TimerTypeOK
  <2>4. \A id \in AlarmIds, of \in Times :
          PostedOnce(id, of)' /\ (Posted(id, of)' => Posted(id, of))
    <3> SUFFICES ASSUME NEW id \in AlarmIds, NEW of \in Times
                 PROVE  PostedOnce(id, of)' /\ (Posted(id, of)' => Posted(id, of))
      OBVIOUS
    <3>1. PostedOnce(id, of)
      BY DEF TokensOK, InOnePlace
    <3>2. \A k \in 1 .. Len(<<request>>) : <<request>>[k].type # "alarm"
      BY <2>2
    <3>3. QED
      BY <2>2, <2>3, <3>1, <3>2, PostedToken
  <2>5. UNCHANGED <<snooze, ringing, mgr, dismissed>>
    BY <2>1 DEF Press, timerKept, managerVars
  <2>6. QED
    BY <2>4, <2>5, TokensKept DEF Handled, Asleep, Rings
<1>2. CASE UiReload
  BY <1>2, QueueKept DEF UiReload, managerVars
<1>3. ASSUME NEW id \in AlarmIds, NEW alarm, Store(id, alarm)
      PROVE  TokensOK' /\ NoneMade
  BY <1>3, QueueKept DEF Store, timerVars, TypeOK
<1>4. QED
  BY <1>1, <1>2, <1>3 DEF Ui, SaveAlarm, RemoveAlarm

-----------------------------------------------------------------------------
(* The Timer's worker makes tokens, and wakes the one that sleeps.         *)

LEMMA ReportToken ==
    ASSUME TypeOK, NEW rings \in Seq(Requests), Len(rings) <= 1, NEW pending,
           Tick(clock, pending) \in Requests, Report(Room, rings, pending),
           NEW id \in AlarmIds, NEW of \in Times, PostedOnce(id, of),
           NEW fresh \in BOOLEAN, fresh => ~Posted(id, of),
           ~fresh => \A k \in 1 .. Len(rings) :
                ~(rings[k].alarm = id /\ rings[k].of = of)
    PROVE  /\ PostedOnce(id, of)'
           /\ Posted(id, of)' => Posted(id, of) \/ fresh
<1> DEFINE ticks == IF SecondChanged THEN <<Tick(clock, pending)>> ELSE <<>>
           events == rings \o ticks
<1>1. /\ ticks \in Seq(Requests) /\ Len(ticks) <= 1
      /\ \A k \in 1 .. Len(ticks) : ticks[k].type = "tick"
  BY DEF Tick
<1>2. Post(Room, events) /\ Room \in Nat /\ queue \in Seq(Requests)
  BY DEF Report, Room, TypeOK, TimerTypeOK
<1> HIDE DEF ticks
<1>3. events \in Seq(Requests) /\ Len(events) = Len(rings) + Len(ticks)
  BY <1>1
<1>4. \A k \in 1 .. Len(events) :
        \/ k \in 1 .. Len(rings) /\ events[k] = rings[k]
        \/ /\ k - Len(rings) \in 1 .. Len(ticks)
           /\ events[k] = ticks[k - Len(rings)]
  BY <1>1, <1>3
<1> HIDE DEF events
<1>5. \A k \in 1 .. Len(events) :
        \/ k \in 1 .. Len(rings) /\ events[k] = rings[k]
        \/ events[k].type # "alarm"
  BY <1>1, <1>4
<1>6. \A k \in 1 .. Len(events) : k > 1 => events[k].type # "alarm"
  BY <1>5
<1>7. ~fresh => \A k \in 1 .. Len(events) :
        ~(/\ events[k].type = "alarm"
          /\ events[k].alarm = id /\ events[k].of = of)
  BY <1>5
<1>8. QED
  BY <1>2, <1>3, <1>6, <1>7, PostedToken

LEMMA TokenPollQuiet ==
    ASSUME TypeOK, TokensOK, PollQuiet(Room), UNCHANGED otherVars
    PROVE  TokensOK' /\ NoneMade
<1>1. /\ Report(Room, <<>>, snooze.alarm # NoId) /\ <<>> \in Seq(Requests)
      /\ UNCHANGED <<snooze, ringing, mgr, dismissed>>
  BY DEF PollQuiet, otherVars, managerVars
<1>2. \A id \in AlarmIds, of \in Times :
        PostedOnce(id, of)' /\ (Posted(id, of)' => Posted(id, of))
  <2> SUFFICES ASSUME NEW id \in AlarmIds, NEW of \in Times
               PROVE  PostedOnce(id, of)' /\ (Posted(id, of)' => Posted(id, of))
    OBVIOUS
  <2>1. PostedOnce(id, of) /\ Tick(clock, snooze.alarm # NoId) \in Requests
    BY TickIsRequest DEF TokensOK, InOnePlace
  <2>2. Len(<<>>) <= 1 /\ \A k \in 1 .. Len(<<>>) : FALSE
    OBVIOUS
  <2> DEFINE none == <<>>
  <2>3. /\ none \in Seq(Requests) /\ Len(none) <= 1
        /\ Report(Room, none, snooze.alarm # NoId)
        /\ \A k \in 1 .. Len(none) :
             ~(none[k].alarm = id /\ none[k].of = of)
    BY <1>1, <2>2
  <2> HIDE DEF none
  <2>4. QED
    BY <2>1, <2>3, ReportToken
<1>3. QED
  BY <1>1, <1>2, TokensKept DEF Handled, Asleep, Rings

(* The sleeping token is posted, or too late and gone.                     *)
LEMMA TokenWakes ==
    ASSUME TypeOK, TokensOK, PollSnooze(Room), UNCHANGED otherVars
    PROVE  TokensOK' /\ NoneMade
<1> DEFINE ring == Ring(snooze.alarm, snooze.at, snooze.of)
           rings == IF Late(snooze.at) THEN <<>> ELSE <<ring>>
<1>1. snooze \in [alarm : AlarmIds, at : Nat, of : Times]
  BY DEF PollSnooze, SnoozeFirst, SnoozeDue, NoSnooze, TypeOK, TimerTypeOK
<1>2. ring \in Requests /\ ring.alarm = snooze.alarm /\ ring.of = snooze.of
  BY <1>1 DEF Ring, Requests
<1>3. /\ rings \in Seq(Requests) /\ Len(rings) <= 1
      /\ \A k \in 1 .. Len(rings) : rings[k] = ring
  BY <1>2
<1>4. /\ Report(Room, rings, FALSE) /\ snooze' = NoSnooze
      /\ UNCHANGED <<ringing, mgr, dismissed>>
  BY DEF PollSnooze, otherVars, managerVars
<1> HIDE DEF rings, ring
<1> SUFFICES ASSUME NEW id \in AlarmIds, NEW of \in Times
             PROVE  /\ InOnePlace(id, of)' /\ Gone(id, of)'
                    /\ About(id, of)' => About(id, of)
  BY DEF TokensOK, NoneMade
<1>5. InOnePlace(id, of) /\ Gone(id, of) /\ dismissed'[id] = dismissed[id]
  BY <1>4 DEF TokensOK
<1>6. /\ PostedOnce(id, of)'
      /\ Posted(id, of)' => Posted(id, of) \/ Asleep(id, of)
  <2>1. Asleep(id, of) \in BOOLEAN /\ Tick(clock, FALSE) \in Requests
    BY TickIsRequest DEF Asleep
  <2>2. ~Asleep(id, of) => \A k \in 1 .. Len(rings) :
            ~(rings[k].alarm = id /\ rings[k].of = of)
    BY <1>2, <1>3 DEF Asleep
  <2>3. PostedOnce(id, of) /\ (Asleep(id, of) => ~Posted(id, of))
    BY <1>5 DEF InOnePlace
  <2>4. QED
    BY <1>3, <1>4, <2>1, <2>2, <2>3, ReportToken
<1>7. /\ ~Asleep(id, of)'
      /\ Handled(id, of)' <=> Handled(id, of)
      /\ Rings(id, of)' <=> Rings(id, of)
  BY <1>4, NoToken DEF Asleep, NoSnooze, Handled, Rings
<1>8. InOnePlace(id, of)'
  BY <1>5, <1>6, <1>7 DEF InOnePlace
<1>9. Gone(id, of)'
  BY <1>5, <1>6, <1>7 DEF Gone, About
<1>10. About(id, of)' => About(id, of)
  BY <1>6, <1>7 DEF About
<1>11. QED
  BY <1>8, <1>9, <1>10

(* An alarm that fires makes a token, the first of its kind if it fires    *)
(* afresh, and forgets what was dismissed of it.                           *)
LEMMA TokenMade ==
    ASSUME TypeOK, TokensOK, FiresAfresh, PollAlarm(Room),
           dismissed' = [id \in AlarmIds |->
                IF lastFired'[id] = lastFired[id] THEN dismissed[id] ELSE 0],
           UNCHANGED managerVars
    PROVE  /\ TokensOK'
           /\ \A id \in AlarmIds, of \in Times :
                About(id, of)' => About(id, of) \/ of <= clock
<1>1. PICK o \in FirstIn(last, clock) :
        /\ lastFired' = [lastFired EXCEPT ![o[1]] = o[2]]
        /\ Report(Room, IF Fires(o) THEN <<Ring(o[1], o[2], o[2])>> ELSE <<>>,
                  snooze.alarm # NoId)
  BY DEF PollAlarm
<1> DEFINE ring == Ring(o[1], o[2], o[2])
           rings == IF Fires(o) THEN <<ring>> ELSE <<>>
<1>2. o[1] \in AlarmIds /\ o[2] \in Times
  BY DEF FirstIn, Crossed
<1>3. ring \in Requests /\ ring.alarm = o[1] /\ ring.of = o[2]
  BY <1>2 DEF Ring, Requests, Times
<1>4. /\ rings \in Seq(Requests) /\ Len(rings) <= 1
      /\ \A k \in 1 .. Len(rings) : rings[k] = ring /\ Fires(o)
  BY <1>3
<1>5. Report(Room, rings, snooze.alarm # NoId)
  BY <1>1
<1>6. UNCHANGED <<snooze, ringing, mgr>>
  BY DEF PollAlarm, managerVars
<1> HIDE DEF rings, ring
<1>7. lastFired'[o[1]] = o[2]
  BY <1>1, <1>2 DEF TypeOK, TimerTypeOK
<1>8. Fires(o) => ~About(o[1], o[2]) /\ dismissed'[o[1]] = 0
  BY <1>2, <1>7 DEF Fires, FiresAfresh
<1> SUFFICES ASSUME NEW id \in AlarmIds, NEW of \in Times
             PROVE  /\ InOnePlace(id, of)' /\ Gone(id, of)'
                    /\ About(id, of)' => About(id, of) \/ of <= clock
  BY DEF TokensOK
<1> DEFINE fresh == Fires(o) /\ id = o[1] /\ of = o[2]
<1>9. InOnePlace(id, of) /\ Gone(id, of) /\ dismissed'[id] \in {dismissed[id], 0}
  BY DEF TokensOK
<1>10. fresh => ~About(id, of) /\ dismissed'[id] = 0
  BY <1>8
<1>11. /\ PostedOnce(id, of)'
       /\ Posted(id, of)' => Posted(id, of) \/ fresh
  <2>1. fresh \in BOOLEAN /\ Tick(clock, snooze.alarm # NoId) \in Requests
    BY TickIsRequest
  <2>2. ~fresh => \A k \in 1 .. Len(rings) :
            ~(rings[k].alarm = id /\ rings[k].of = of)
    BY <1>3, <1>4
  <2>3. PostedOnce(id, of) /\ (fresh => ~Posted(id, of))
    BY <1>9, <1>10 DEF InOnePlace, About
  <2> HIDE DEF fresh
  <2>4. QED
    BY <1>4, <1>5, <2>1, <2>2, <2>3, ReportToken
<1> HIDE DEF fresh
<1>12. /\ Asleep(id, of)' <=> Asleep(id, of)
       /\ Handled(id, of)' <=> Handled(id, of)
       /\ Rings(id, of)' <=> Rings(id, of)
  BY <1>6 DEF Asleep, Handled, Rings
<1>13. InOnePlace(id, of)'
  BY <1>9, <1>10, <1>11, <1>12 DEF InOnePlace, About
<1>14. Gone(id, of)'
  <2>1. of # 0
    BY DEF Times
  <2>2. QED
    BY <1>9, <1>10, <1>11, <1>12, <2>1 DEF Gone, About
<1>15. o[2] <= clock
  BY DEF FirstIn, Crossed
<1>16. fresh => of <= clock
  BY <1>15 DEF fresh
<1>17. About(id, of)' => About(id, of) \/ of <= clock
  BY <1>11, <1>12, <1>16 DEF About
<1>18. QED
  BY <1>13, <1>14, <1>17

LEMMA TokenTime ==
    ASSUME TypeOK, TokensOK,
           \/ TimeGoesOn \/ TimeIsSet \/ TimeIsAdopted \/ ZoneIsSet \/ PollFails
    PROVE  TokensOK' /\ NoneMade
<1>1. UNCHANGED <<snooze, ringing, mgr, dismissed>>
  BY DEF TimeGoesOn, TimeIsSet, TimeIsAdopted, ZoneIsSet, PollFails, Elapse,
         SetClock, Adopt, SetTimezone, PollError, otherVars, managerVars
<1>2. CASE TimeGoesOn \/ TimeIsSet \/ ZoneIsSet
  BY <1>1, <1>2, QueueKept
     DEF TimeGoesOn, TimeIsSet, ZoneIsSet, Elapse, SetClock, SetTimezone
<1>3. CASE TimeIsAdopted \/ PollFails
  <2>1. PICK event \in Requests :
          Post(Room, <<event>>) /\ event.type # "alarm"
    <3>1. CASE TimeIsAdopted
      BY <3>1, TickIsRequest DEF TimeIsAdopted, Adopt, Tick
    <3>2. CASE PollFails
      <4> DEFINE event == [type |-> "move", to |-> "ERROR"]
      <4>1. event \in Requests /\ event.type # "alarm"
        BY DEF Requests, States
      <4>2. QED
        BY <3>2, <4>1 DEF PollFails, PollError
    <3>3. QED
      BY <1>3, <3>1, <3>2
  <2>2. <<event>> \in Seq(Requests) /\ Room \in Nat /\ queue \in Seq(Requests)
    BY DEF Room, TypeOK, TimerTypeOK
  <2>3. \A id \in AlarmIds, of \in Times :
          PostedOnce(id, of)' /\ (Posted(id, of)' => Posted(id, of))
    <3> SUFFICES ASSUME NEW id \in AlarmIds, NEW of \in Times
                 PROVE  PostedOnce(id, of)' /\ (Posted(id, of)' => Posted(id, of))
      OBVIOUS
    <3>1. PostedOnce(id, of)
      BY DEF TokensOK, InOnePlace
    <3>2. \A k \in 1 .. Len(<<event>>) : <<event>>[k].type # "alarm"
      BY <2>1
    <3>3. QED
      BY <2>1, <2>2, <3>1, <3>2, PostedToken
  <2>4. QED
    BY <1>1, <2>3, TokensKept DEF Handled, Asleep, Rings
<1>4. QED
  BY <1>2, <1>3

LEMMA TokensStep ==
    ASSUME TypeOK, TokensOK, [Next]_vars, [FiresAfresh]_vars
    PROVE  TokensOK'
<1>1. CASE Manager
  BY <1>1, TokenQuietTake, TokenHandled, TokenRings, TokenSleeps, TokenEnds,
     TokenQuietSteps DEF Manager
<1>2. CASE UNCHANGED vars
  BY <1>2, QueueKept DEF vars, timerVars, managerVars
<1>3. CASE FiresAfresh /\ Poll
  BY <1>3, TokenPollQuiet, TokenWakes, TokenMade DEF Poll
<1>4. QED
  BY <1>1, <1>2, <1>3, TokenUi, TokenTime DEF Next

LEMMA DismissedGone ==
    ASSUME TypeOK, TokensOK
    PROVE  DismissedForGood
<1> SUFFICES ASSUME ringing.alarm # NoId
             PROVE  ringing.of # dismissed[ringing.alarm]
  BY DEF DismissedForGood
<1>1. ringing.alarm \in AlarmIds /\ ringing.of \in Times
  BY DEF TypeOK, NoRinging
<1>2. QED
  BY <1>1 DEF TokensOK, Gone, About, Rings

(* An alarm that was dismissed while it rang does not ring again, with     *)
(* whatever reload, snooze or correction of the clock, in every behaviour  *)
(* in which no alarm fires an instant that is still ringing, asleep or     *)
(* posted: dismiss_alarm() leaves nothing of it.                           *)
THEOREM DismissalsAreForGood ==
    Spec /\ [][FiresAfresh]_vars => []DismissedForGood
<1>1. Init => TokensOK
  BY NoToken DEF Init, TimerInit, TokensOK, InOnePlace, Gone, About, PostedOnce,
                 Posted, IsRing, Handled, Asleep, Rings, Idle, Job, NoSnooze,
                 NoRinging, Times
<1>2. TypeOK /\ TokensOK /\ [Next]_vars /\ [FiresAfresh]_vars => TokensOK'
  BY TokensStep
<1>3. TypeOK /\ TokensOK => DismissedForGood
  BY DismissedGone
<1>4. QED
  BY <1>1, <1>2, <1>3, TypeCorrect, PTL DEF Spec

-----------------------------------------------------------------------------
(* When an alarm fires afresh.  What is about was fired by a poll, and a    *)
(* poll fires only what lies after the reading of the poll before: as long *)
(* as every instant that is about is behind that reading, none of them     *)
(* fires again.  A poll moves the reading up to the clock, so the clock is *)
(* what must not fall behind: SparesAlarms says that no correction puts it *)
(* before an instant whose alarm is posted, ringing, handled or asleep.    *)

SparesAlarms ==
    \A id \in AlarmIds, of \in Times : About(id, of) => of <= clock'

AboutPast ==
    \A id \in AlarmIds, of \in Times :
        About(id, of) => of <= clock /\ (last # NoReading => of <= last)

(* Only a poll that finds an alarm writes last_fired[].                    *)
LEMMA FiredByPoll ==
    ASSUME [Next]_vars
    PROVE  UNCHANGED lastFired \/ PollAlarm(Room)
<1>1. CASE Manager
  BY <1>1 DEF Manager, ApplyMove, ApplyScreen, ApplyStop, ApplySnooze,
     ApplyCancelSnooze, ApplyTimeUp, ApplyTick, ApplyAlarm, SwapScreen,
     SnoozeStep, ForgetStep, CancelStep, GetStep, DeleteStep, ReloadStep,
     timerKept, timerVars
<1>2. CASE Ui
  BY <1>2 DEF Ui, Press, SaveAlarm, RemoveAlarm, Store, UiReload, timerKept,
     timerVars
<1>3. CASE TimeGoesOn \/ TimeIsSet \/ TimeIsAdopted \/ ZoneIsSet \/ PollFails
  BY <1>3 DEF TimeGoesOn, TimeIsSet, TimeIsAdopted, ZoneIsSet, PollFails,
     Elapse, SetClock, Adopt, SetTimezone, PollError
<1>4. CASE Poll
  BY <1>4 DEF Poll, PollQuiet, PollSnooze
<1>5. CASE UNCHANGED vars
  BY <1>5 DEF vars, timerVars
<1>6. QED
  BY <1>1, <1>2, <1>3, <1>4, <1>5 DEF Next

LEMMA PastAfresh ==
    ASSUME TypeOK, AboutPast, [Next]_vars
    PROVE  FiresAfresh
<1> SUFFICES ASSUME NEW id \in AlarmIds, lastFired'[id] # lastFired[id]
             PROVE  ~About(id, lastFired'[id])
  BY DEF FiresAfresh
<1>1. PollAlarm(Room)
  BY FiredByPoll
<1>2. PICK o \in FirstIn(last, clock) :
        lastFired' = [lastFired EXCEPT ![o[1]] = o[2]]
  BY <1>1 DEF PollAlarm
<1>3. o[2] \in Times /\ last < o[2] /\ last # NoReading
  BY <1>1 DEF FirstIn, Crossed, PollAlarm
<1>4. lastFired \in [AlarmIds -> Instants]
  BY DEF TypeOK, TimerTypeOK
<1>5. lastFired'[id] = o[2]
  BY <1>2, <1>4
<1>6. last \in Int /\ o[2] \in Int /\ ~(o[2] <= last)
  BY <1>3 DEF TypeOK, TimerTypeOK, Instants, Times
<1>7. QED
  BY <1>3, <1>5, <1>6 DEF AboutPast

(* The steps that make no token and leave the reading alone.               *)
LEMMA PastSteps ==
    ASSUME TypeOK, AboutPast, NoneMade, UNCHANGED last,
           clock' = clock \/ clock' = clock + 1 \/ SparesAlarms
    PROVE  AboutPast'
<1> SUFFICES ASSUME NEW id \in AlarmIds, NEW of \in Times, About(id, of)'
             PROVE  of <= clock' /\ (last' # NoReading => of <= last')
  BY DEF AboutPast
<1>1. About(id, of)
  BY DEF NoneMade
<1>2. of <= clock /\ (last # NoReading => of <= last)
  BY <1>1 DEF AboutPast
<1>3. of \in Int /\ clock \in Int
  BY DEF TypeOK, TimerTypeOK, Instants, Times
<1>4. of <= clock'
  BY <1>1, <1>2, <1>3 DEF SparesAlarms
<1>5. QED
  BY <1>2, <1>4

LEMMA PastManager ==
    ASSUME TypeOK, TokensOK, AboutPast, Manager
    PROVE  AboutPast'
<1>1. NoneMade
  BY TokenQuietTake, TokenHandled, TokenRings, TokenSleeps, TokenEnds,
     TokenQuietSteps DEF Manager
<1>2. UNCHANGED <<clock, last>>
  BY DEF Manager, ApplyMove, ApplyScreen, ApplyStop, ApplySnooze,
     ApplyCancelSnooze, ApplyTimeUp, ApplyTick, ApplyAlarm, SwapScreen,
     SnoozeStep, ForgetStep, CancelStep, GetStep, DeleteStep, ReloadStep,
     timerKept, timerVars
<1>3. QED
  BY <1>1, <1>2, PastSteps

LEMMA PastUi ==
    ASSUME TypeOK, TokensOK, AboutPast, Ui
    PROVE  AboutPast'
<1>1. UNCHANGED <<clock, last>>
  BY DEF Ui, Press, SaveAlarm, RemoveAlarm, Store, UiReload, timerKept, timerVars
<1>2. QED
  BY <1>1, TokenUi, PastSteps

(* A poll takes the reading up to the clock; one that forgets the reading  *)
(* leaves nothing to compare with.                                         *)
LEMMA PastPoll ==
    ASSUME TypeOK, TokensOK, AboutPast, FiresAfresh, Poll
    PROVE  AboutPast'
<1>1. last' = clock /\ clock' = clock
  BY DEF Poll, PollQuiet, PollSnooze, PollAlarm, Read
<1>2. \A id \in AlarmIds, of \in Times :
        About(id, of)' => About(id, of) \/ of <= clock
  <2>1. CASE ~PollAlarm(Room)
    BY <2>1, TokenPollQuiet, TokenWakes DEF Poll, NoneMade
  <2>2. CASE ~PollQuiet(Room) /\ ~PollSnooze(Room)
    BY <2>2, TokenMade DEF Poll
  <2>3. ~(PollAlarm(Room) /\ (PollQuiet(Room) \/ PollSnooze(Room)))
    BY DEF PollAlarm, PollQuiet, PollSnooze, FirstIn
  <2>4. QED
    BY <2>1, <2>2, <2>3
<1>3. \A id \in AlarmIds, of \in Times : About(id, of)' => of <= clock
  BY <1>2 DEF AboutPast
<1>4. QED
  BY <1>1, <1>3 DEF AboutPast

LEMMA PastTime ==
    ASSUME TypeOK, TokensOK, AboutPast, SparesAlarms,
           \/ TimeGoesOn \/ TimeIsSet \/ TimeIsAdopted \/ ZoneIsSet \/ PollFails
    PROVE  AboutPast'
<1>1. NoneMade
  BY TokenTime
<1>2. CASE TimeGoesOn \/ TimeIsSet \/ PollFails
  BY <1>1, <1>2, PastSteps
     DEF TimeGoesOn, TimeIsSet, PollFails, Elapse, SetClock, PollError
<1>3. CASE TimeIsAdopted \/ ZoneIsSet
  <2>1. last' = NoReading /\ clock' = clock
    BY <1>3 DEF TimeIsAdopted, ZoneIsSet, Adopt, SetTimezone
  <2>2. QED
    BY <1>1, <2>1 DEF NoneMade, AboutPast
<1>4. QED
  BY <1>2, <1>3

LEMMA PastInit ==
    ASSUME Init
    PROVE  TokensOK /\ AboutPast
<1>1. \A id \in AlarmIds, of \in Times : ~About(id, of)
  BY NoToken DEF Init, TimerInit, About, Posted, Handled, Asleep, Rings, Idle,
                 Job, NoSnooze, NoRinging
<1>2. \A id \in AlarmIds, of \in Times : PostedOnce(id, of)
  BY DEF Init, TimerInit, PostedOnce
<1>3. QED
  BY <1>1, <1>2 DEF TokensOK, InOnePlace, Gone, AboutPast, About

LEMMA PastKept ==
    ASSUME TypeOK, TokensOK, AboutPast, [Next]_vars, [SparesAlarms]_vars
    PROVE  TokensOK' /\ AboutPast' /\ [FiresAfresh]_vars
<1>1. FiresAfresh
  BY PastAfresh
<1>2. TokensOK'
  BY <1>1, TokensStep
<1>3. CASE UNCHANGED vars
  <2>1. NoneMade /\ UNCHANGED <<clock, last>>
    BY <1>3, QueueKept DEF vars, timerVars, managerVars
  <2>2. QED
    BY <1>1, <1>2, <2>1, PastSteps
<1>4. CASE SparesAlarms /\ Next
  BY <1>1, <1>2, <1>4, PastManager, PastUi, PastPoll, PastTime DEF Next
<1>5. QED
  BY <1>3, <1>4

(* An alarm never fires an instant that is still posted, ringing or asleep *)
(* as long as no correction puts the clock before it: the half-open        *)
(* interval of poll_private() starts where the last one ended.             *)
THEOREM SparedAlarmsFireAfresh ==
    Spec /\ [][SparesAlarms]_vars => [][FiresAfresh]_vars
<1>1. Init => TokensOK /\ AboutPast
  BY PastInit
<1>2. /\ TypeOK /\ TokensOK /\ AboutPast
      /\ [Next]_vars /\ [SparesAlarms]_vars
      => TokensOK' /\ AboutPast' /\ [FiresAfresh]_vars
  BY PastKept
<1>3. QED
  BY <1>1, <1>2, TypeCorrect, PTL DEF Spec

(* So a dismissal is for good whatever reload, snooze, change of zone or   *)
(* correction of the clock comes between, when every correction leaves the *)
(* clock past the alarms that are about ...                                *)
THEOREM SparedDismissalsAreForGood ==
    Spec /\ [][SparesAlarms]_vars => []DismissedForGood
  BY SparedAlarmsFireAfresh, DismissalsAreForGood, PTL

(* ... and so, for one, where the clock is never set back.                 *)
THEOREM ForwardDismissalsAreForGood ==
    Spec /\ [][clock' >= clock]_vars => []DismissedForGood
<1> DEFINE Forward == clock' >= clock
<1>1. ASSUME TypeOK, TypeOK', AboutPast, [Next]_vars, [Forward]_vars
      PROVE  [SparesAlarms]_vars
  <2> SUFFICES ASSUME Forward, NEW id \in AlarmIds, NEW of \in Times,
                      About(id, of)
               PROVE  of <= clock'
    BY <1>1 DEF SparesAlarms
  <2>1. of <= clock
    BY <1>1 DEF AboutPast
  <2>2. of \in Int /\ clock \in Int /\ clock' \in Int
    BY <1>1 DEF TypeOK, TimerTypeOK, Instants, Times
  <2>3. QED
    BY <2>1, <2>2
<1>2. Init => TokensOK /\ AboutPast
  BY PastInit
<1>3. /\ TypeOK /\ TypeOK' /\ TokensOK /\ AboutPast
      /\ [Next]_vars /\ [Forward]_vars
      => TokensOK' /\ AboutPast'
  BY <1>1, PastKept
<1>4. TypeOK /\ TokensOK => DismissedForGood
  BY DismissedGone
<1>5. Spec /\ [][Forward]_vars => []DismissedForGood
  <2> HIDE DEF Forward
  <2>1. QED
    BY <1>2, <1>3, <1>4, TypeCorrect, PTL DEF Spec
<1>6. QED
  BY <1>5
=============================================================================
