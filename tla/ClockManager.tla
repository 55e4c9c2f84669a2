---------------------------- MODULE ClockManager ----------------------------
(***************************************************************************)
(* The state machine of nn20clock_manager.c with everything it talks to:   *)
(* the Timer's worker (AlarmTimer), the alarm records of the StorageWorker *)
(* and the screens of the UiWorker.                                        *)
(*                                                                         *)
(* The manager's worker takes one request at a time.  A request that needs *)
(* another worker waits for it (nn20_worker_post_sync), so its handler is  *)
(* a job of several steps: between two of them the Timer polls, the user   *)
(* presses buttons of the screen still shown, and requests queue up behind *)
(* the one being handled.                                                  *)
(***************************************************************************)
EXTENDS AlarmTimer

CONSTANTS
    FirstSchedules,      \* alarm records the device may start with
    SavedAlarms,         \* alarms the user may save
    SnoozeLength,        \* snooze_minutes, or the default
    RingTime,            \* NN20CLOCK_MANAGER_MAX_RING_SECONDS
    MaxPending,          \* MANAGER_MAX_PENDING, request slots
    MaxBacklog,          \* bound on how far the manager gets behind
    MaxLag,              \* bound on how late a poll comes
    MaxPresses,          \* bound on what the user presses
    MaxEdits,            \* bound on alarms saved or removed
    MaxFaults,           \* bound on failures of Storage and localtime_r()
    Spent                \* what a run may start with of those counts

ASSUME ManagerAssumption ==
    /\ FirstSchedules \subseteq Schedules /\ SavedAlarms \subseteq Alarm
    /\ SnoozeLength \in Nat \ {0} /\ RingTime \in Nat \ {0}
    /\ MaxPending \in Nat \ {0}
    /\ MaxBacklog \in Nat /\ MaxLag \in Nat \ {0}
    /\ MaxPresses \in Nat /\ MaxEdits \in Nat /\ MaxFaults \in Nat
    /\ Spent \subseteq [corrections : 0 .. MaxCorrections,
                        presses : 0 .. MaxPresses, edits : 0 .. MaxEdits,
                        faults : 0 .. MaxFaults]

VARIABLES
    stored,              \* the alarm records in Storage
    state,               \* of the manager
    ringing,             \* ringing_alarm, and (history) its occurrence
    ringDeadline,        \* ring_deadline_alarm and ring_deadline
    mgr,                 \* the job in progress on the manager's worker
    shown,               \* the screen shown, named after its state
    badge,               \* the clock face shows the snooze reminder
    ui,                  \* what the UiWorker is doing
    dismissed,           \* history: the occurrence of each alarm that was
                         \* dismissed, until the alarm fires another
    presses, edits, faults    \* what the bounds count

managerVars == <<stored, state, ringing, ringDeadline, mgr>>
screenVars == <<shown, badge, ui>>
counters == <<presses, edits, faults>>
vars == <<timerVars, managerVars, screenVars, dismissed, counters>>

States == {"TIME", "ALARM_SETTINGS", "DEVICE_SETTINGS", "ALARM_RINGING",
           "MEDIA_PLAYBACK", "MEDIA_MANAGEMENT", "ERROR"}

Transitions ==
    [from \in States |->
        CASE from = "TIME" -> States \ {"TIME", "MEDIA_MANAGEMENT"}
          [] from = "DEVICE_SETTINGS" ->
                {"TIME", "MEDIA_MANAGEMENT", "ALARM_RINGING", "ERROR"}
          [] from = "MEDIA_MANAGEMENT" ->
                {"DEVICE_SETTINGS", "ALARM_RINGING", "ERROR"}
          [] from = "ERROR" -> {"TIME", "ALARM_SETTINGS"}
          [] OTHER -> {"TIME", "ALARM_RINGING", "ERROR"}]

(* screen_factory(): ERROR has no screen.  A film chosen on the list of    *)
(* MEDIA_PLAYBACK gets the one screen named after no state, VIDEO.         *)
Screens == (States \ {"ERROR"}) \union {"VIDEO", "none"}
ScreenOf(to) == IF to = "ERROR" THEN "none" ELSE to

(* What each screen can send to the manager.                               *)
Move(to) == [type |-> "move", to |-> to]
Answer(type) == [type |-> type]

Buttons ==
    [screen \in Screens |->
        CASE screen = "TIME" ->
                {Move("ALARM_SETTINGS"), Move("DEVICE_SETTINGS"),
                 Move("MEDIA_PLAYBACK")}
                \union (IF badge THEN {Answer("cancel")} ELSE {})
          [] screen = "ALARM_RINGING" -> {Answer("stop"), Answer("snooze")}
          [] screen = "DEVICE_SETTINGS" ->
                {Move("TIME"), Move("MEDIA_MANAGEMENT")}
          [] screen = "MEDIA_MANAGEMENT" -> {Move("DEVICE_SETTINGS")}
          [] screen = "MEDIA_PLAYBACK" -> {Move("TIME"), Answer("screen")}
          [] screen = "none" -> {}
          [] OTHER -> {Move("TIME")}]

Requests ==
    [type : {"move"}, to : States]
    \union [type : {"stop", "snooze", "cancel", "screen"}]
    \union [type : {"tick"}, at : Instants, pending : BOOLEAN]
    \union [type : {"alarm"}, alarm : AlarmIds, at : Nat, of : Times]

NoRinging == [alarm |-> NoId, of |-> 0]
NoDeadline == [alarm |-> NoId, at |-> 0]
Job(pc, id, of, next) == [pc |-> pc, alarm |-> id, of |-> of, next |-> next]
Idle == Job("idle", NoId, 0, "stay")

(* A slot is released at the end of the request's handler.                 *)
Room == MaxPending - Len(queue) - (IF mgr = Idle THEN 0 ELSE 1)

Init ==
    /\ TimerInit
    /\ stored \in FirstSchedules
    /\ alarms = stored
    /\ state = "TIME"
    /\ ringing = NoRinging
    /\ ringDeadline = NoDeadline
    /\ mgr = Idle
    /\ shown = "TIME" /\ badge = FALSE /\ ui = "idle"
    /\ dismissed = [id \in AlarmIds |-> 0]
    /\ \E spent \in Spent :
           /\ corrections = spent.corrections
           /\ presses = spent.presses /\ edits = spent.edits
           /\ faults = spent.faults

-----------------------------------------------------------------------------
(* apply_state(): a transition the table lacks is refused, and the job is  *)
(* over.  Otherwise the state is new at once, the screen one step later.   *)
Enter(to) ==
    IF to \in Transitions[state]
      THEN state' = to /\ mgr' = Job("screen", NoId, 0, ScreenOf(to))
      ELSE mgr' = Idle /\ UNCHANGED state

Finish(next) ==
    IF next = "stay" THEN mgr' = Idle /\ UNCHANGED state ELSE Enter(next)

(* arm_ring_deadline(): an alarm that comes back finds its own standing.   *)
Armed(id, when) ==
    IF ringDeadline.at # 0 /\ ringDeadline.alarm = id THEN ringDeadline
    ELSE [alarm |-> id, at |-> when + RingTime]

ExactlyPassed(deadline, now) ==    \* fault: misses a tick that comes late
    deadline.at # 0 /\ now = deadline.at

Passed(deadline, now) == deadline.at # 0 /\ now >= deadline.at

Request == Head(queue)

Take(type) ==
    /\ mgr = Idle
    /\ queue # <<>>
    /\ Request.type = type
    /\ queue' = Tail(queue)

timerKept == <<clock, notice, corrections, alarms, last, forced, snooze,
               lastFired>>

-----------------------------------------------------------------------------
(* request_private(): the handler of each kind of request, up to the first *)
(* wait for another worker.                                                *)

(* OPEN_ and CLOSE_ commands, request_state(), and the Timer's ERROR.      *)
ApplyMove ==
    /\ Take("move")
    /\ Enter(Request.to)
    /\ UNCHANGED <<timerKept, stored, ringing, ringDeadline, screenVars,
                   dismissed, counters>>

(* set_screen(): a film, whatever the state has become meanwhile.          *)
ApplyScreen ==
    /\ Take("screen")
    /\ mgr' = Job("screen", NoId, 0, "VIDEO")
    /\ UNCHANGED <<timerKept, stored, state, ringing, ringDeadline,
                   screenVars, dismissed, counters>>

(* dismiss_alarm() up to the wait for the Timer: the alarm in flight is    *)
(* taken out of ringing_alarm, if there is one.                            *)
Dismiss(id, of, next) ==
    /\ ringing' = NoRinging
    /\ mgr' = Job("cancel", id, of, next)

ApplyStop ==
    /\ Take("stop")
    /\ Dismiss(ringing.alarm, ringing.of, "TIME")
    /\ UNCHANGED <<timerKept, stored, state, ringDeadline, screenVars,
                   dismissed, counters>>

ApplySnooze ==
    /\ Take("snooze")
    /\ ringing' = NoRinging
    /\ IF ringing.alarm = NoId THEN Enter("TIME")
       ELSE /\ mgr' = Job("snooze", ringing.alarm, ringing.of, "TIME")
            /\ UNCHANGED state
    /\ UNCHANGED <<timerKept, stored, ringDeadline, screenVars, dismissed,
                   counters>>

ApplyCancelSnooze ==
    /\ Take("cancel")
    /\ mgr' = Job("forget", snooze.alarm, snooze.of, "stay")
    /\ UNCHANGED <<timerKept, stored, state, ringing, ringDeadline,
                   screenVars, dismissed, counters>>

TimeIsUp(now) == state = "ALARM_RINGING" /\ Passed(ringDeadline, now)

ApplyTimeUp ==
    /\ Take("tick")
    /\ TimeIsUp(Request.at)
    /\ Dismiss(ringing.alarm, ringing.of, "TIME")
    /\ UNCHANGED <<timerKept, stored, state, ringDeadline, screenVars,
                   dismissed, counters>>

(* The screen is told; only the clock face keeps what it heard.            *)
ApplyTick ==
    /\ Take("tick")
    /\ ~TimeIsUp(Request.at)
    /\ badge' = IF shown = "TIME" THEN Request.pending ELSE badge
    /\ UNCHANGED <<timerKept, managerVars, shown, ui, dismissed, counters>>

(* An alarm rings, unless it is a snooze that comes back past its hour.    *)
ApplyAlarm ==
    /\ Take("alarm")
    /\ ringDeadline' = Armed(Request.alarm, Request.at)
    /\ IF Passed(ringDeadline', Request.at)
         THEN Dismiss(Request.alarm, Request.of, "stay") /\ UNCHANGED state
         ELSE /\ ringing' = [alarm |-> Request.alarm, of |-> Request.of]
              /\ Enter("ALARM_RINGING")
    /\ UNCHANGED <<timerKept, stored, screenVars, dismissed, counters>>

-----------------------------------------------------------------------------
(* The rest of the handlers, a step for each wait.                         *)

At(pc) == mgr.pc = pc

Fail == faults < MaxFaults /\ faults' = faults + 1
Succeed == UNCHANGED faults

(* apply_screen(): the outgoing screen is destroyed on the UiWorker, which *)
(* must be free for it; the new one asks the Timer for the time.           *)
SwapScreen ==
    /\ At("screen")
    /\ ui = "idle"
    /\ shown' = mgr.next
    /\ badge' = FALSE
    /\ IF shown' = "none" THEN UNCHANGED forced ELSE Refresh
    /\ mgr' = Idle
    /\ UNCHANGED <<clock, notice, corrections, alarms, last, snooze,
                   lastFired, queue, stored, state, ringing, ringDeadline,
                   ui, dismissed, counters>>

SnoozeStep ==
    /\ At("snooze")
    /\ SnoozeFor(mgr.alarm, mgr.of, SnoozeLength)
    /\ Finish(mgr.next)
    /\ UNCHANGED <<clock, notice, corrections, alarms, last, forced,
                   lastFired, queue, stored, ringing, ringDeadline,
                   screenVars, dismissed, counters>>

(* CANCEL_SNOOZE after it has read which alarm was snoozed.                *)
ForgetStep ==
    /\ At("forget")
    /\ CancelSnooze
    /\ Refresh
    /\ ringDeadline' = NoDeadline
    /\ mgr' = Idle
    /\ UNCHANGED <<clock, notice, corrections, alarms, last, lastFired, queue,
                   stored, state, ringing, screenVars, dismissed, counters>>

(* dismiss_alarm(): no snooze may bring the alarm back; its end is         *)
(* reported before its record is looked at.                                *)
CancelStep ==
    /\ At("cancel")
    /\ CancelSnooze
    /\ ringDeadline' = NoDeadline
    /\ IF mgr.alarm = NoId THEN Finish(mgr.next) /\ UNCHANGED dismissed
       ELSE /\ mgr' = [mgr EXCEPT !.pc = "get"]
            /\ dismissed' = [dismissed EXCEPT ![mgr.alarm] = mgr.of]
            /\ UNCHANGED state
    /\ UNCHANGED <<clock, notice, corrections, alarms, last, forced,
                   lastFired, queue, stored, ringing, screenVars, counters>>

AnswerOnly ==    \* fault: dismisses without the one-off's end of life
    /\ At("get")
    /\ Succeed /\ Finish(mgr.next)
    /\ UNCHANGED <<timerVars, stored, ringing, ringDeadline, screenVars,
                   dismissed, presses, edits>>

(* Only a one-off is removed.                                              *)
GetStep ==
    /\ At("get")
    /\ \/ /\ stored[mgr.alarm].kind = "one_off" /\ Succeed
          /\ mgr' = [mgr EXCEPT !.pc = "delete"]
          /\ UNCHANGED state
       \/ stored[mgr.alarm].kind # "one_off" /\ Succeed /\ Finish(mgr.next)
       \/ Fail /\ Finish(mgr.next)
    /\ UNCHANGED <<timerVars, stored, ringing, ringDeadline, screenVars,
                   dismissed, presses, edits>>

DeleteStep ==
    /\ At("delete")
    /\ \/ /\ stored[mgr.alarm] # NoAlarm /\ Succeed
          /\ stored' = [stored EXCEPT ![mgr.alarm] = NoAlarm]
          /\ mgr' = [mgr EXCEPT !.pc = "reload"]
          /\ UNCHANGED state
       \/ /\ stored[mgr.alarm] = NoAlarm /\ Succeed
          /\ Finish(mgr.next) /\ UNCHANGED stored
       \/ Fail /\ Finish(mgr.next) /\ UNCHANGED stored
    /\ UNCHANGED <<timerVars, ringing, ringDeadline, screenVars, dismissed,
                   presses, edits>>

(* reload_private(): a list that cannot be read leaves the live one.       *)
ReloadTask ==
    \/ Reload(stored) /\ Succeed
    \/ Fail /\ UNCHANGED alarms

ReloadStep ==
    /\ At("reload")
    /\ ReloadTask
    /\ Finish(mgr.next)
    /\ UNCHANGED <<clock, notice, corrections, last, forced, snooze,
                   lastFired, queue, stored, ringing, ringDeadline,
                   screenVars, dismissed, presses, edits>>

-----------------------------------------------------------------------------
(* The UiWorker: buttons, and the alarm service that the settings screen   *)
(* calls on it.                                                            *)

(* handle_ui_command() and set_screen() from a button of the screen shown. *)
Press(request) ==
    /\ ui = "idle"
    /\ request \in Buttons[shown]
    /\ presses < MaxPresses
    /\ presses' = presses + 1
    /\ Post(Room, <<request>>)
    /\ UNCHANGED <<timerKept, managerVars, screenVars, dismissed, edits,
                   faults>>

StoreOnly(id, alarm) ==    \* fault: the Timer is not told
    /\ ui = "idle"
    /\ shown = "ALARM_SETTINGS"
    /\ edits < MaxEdits
    /\ edits' = edits + 1
    /\ stored' = [stored EXCEPT ![id] = alarm]
    /\ dismissed' = [dismissed EXCEPT ![id] = 0]
    /\ UNCHANGED <<timerVars, state, ringing, ringDeadline, mgr, screenVars,
                   presses, faults>>

(* alarm_service_save() and _remove() up to the reload.  A record saved is *)
(* another alarm: what its id stood for is history.                        *)
Store(id, alarm) ==
    /\ ui = "idle"
    /\ shown = "ALARM_SETTINGS"
    /\ edits < MaxEdits
    /\ edits' = edits + 1
    /\ stored' = [stored EXCEPT ![id] = alarm]
    /\ dismissed' = [dismissed EXCEPT ![id] = 0]
    /\ ui' = "reload"
    /\ UNCHANGED <<timerVars, state, ringing, ringDeadline, mgr, shown, badge,
                   presses, faults>>

SaveAlarm(id, alarm) == Store(id, alarm)

RemoveAlarm(id) == stored[id] # NoAlarm /\ Store(id, NoAlarm)

HoppingReload ==    \* fault: the UiWorker waits for the manager's worker
    /\ ui = "reload" /\ mgr = Idle
    /\ ReloadTask
    /\ ui' = "idle"
    /\ UNCHANGED <<clock, notice, corrections, last, forced, snooze,
                   lastFired, queue, managerVars, shown, badge, dismissed,
                   presses, edits>>

UiReload ==
    /\ ui = "reload"
    /\ ReloadTask
    /\ ui' = "idle"
    /\ UNCHANGED <<clock, notice, corrections, last, forced, snooze,
                   lastFired, queue, managerVars, shown, badge, dismissed,
                   presses, edits>>

-----------------------------------------------------------------------------
otherVars == <<managerVars, screenVars, dismissed, counters>>

Poll ==
    \/ PollQuiet(Room) /\ UNCHANGED otherVars
    \/ PollSnooze(Room) /\ UNCHANGED otherVars
    \/ /\ PollAlarm(Room)
       /\ dismissed' = [id \in AlarmIds |->
            IF lastFired'[id] = lastFired[id] THEN dismissed[id] ELSE 0]
       /\ UNCHANGED <<managerVars, screenVars, counters>>

PollFails ==
    /\ Fail
    /\ PollError(Room)
    /\ UNCHANGED <<managerVars, screenVars, dismissed, presses, edits>>

(* A unit of time is long beside a handler and a poll's period: none passes *)
(* while the manager is more than MaxBacklog requests behind, or the Timer *)
(* more than MaxLag units.                                                 *)
TimeGoesOn ==
    /\ MaxPending - Room <= MaxBacklog
    /\ last = NoReading \/ clock - last < MaxLag
    /\ Elapse
    /\ UNCHANGED otherVars

TimeIsSet == (\E t \in Instants : SetClock(t)) /\ UNCHANGED otherVars
TimeIsAdopted == Adopt(Room) /\ UNCHANGED otherVars
ZoneIsSet == SetTimezone /\ UNCHANGED otherVars

Manager ==
    \/ ApplyMove \/ ApplyScreen \/ ApplyStop \/ ApplySnooze
    \/ ApplyCancelSnooze \/ ApplyTimeUp \/ ApplyTick \/ ApplyAlarm
    \/ SwapScreen \/ SnoozeStep \/ ForgetStep \/ CancelStep \/ GetStep
    \/ DeleteStep \/ ReloadStep

Ui ==
    \/ \E request \in Buttons[shown] : Press(request)
    \/ \E id \in AlarmIds, alarm \in SavedAlarms : SaveAlarm(id, alarm)
    \/ \E id \in AlarmIds : RemoveAlarm(id)
    \/ UiReload

Next ==
    \/ TimeGoesOn \/ TimeIsSet \/ TimeIsAdopted \/ ZoneIsSet
    \/ Poll \/ PollFails \/ Manager \/ Ui

(* The clock runs, the tick timer posts a poll five times a second, and a  *)
(* worker runs what it is given.  The user owes nothing.                   *)
Fairness ==
    /\ WF_vars(TimeGoesOn) /\ WF_vars(TimeIsAdopted) /\ WF_vars(Poll)
    /\ WF_vars(Manager) /\ WF_vars(UiReload)

Spec == Init /\ [][Next]_vars /\ Fairness

-----------------------------------------------------------------------------
TimerTypeOK ==
    /\ clock \in Instants /\ notice \in BOOLEAN
    /\ corrections \in 0 .. MaxCorrections
    /\ alarms \in Schedules
    /\ last \in Instants \union {NoReading} /\ forced \in BOOLEAN
    /\ snooze \in [alarm : AlarmIds, at : Nat, of : Times] \union {NoSnooze}
    /\ lastFired \in [AlarmIds -> Instants]
    /\ queue \in Seq(Requests)

(* A job that ends in a change of state ends in TIME.                      *)
Jobs ==
    {Idle}
    \union [pc : {"screen"}, alarm : {NoId}, of : {0}, next : Screens]
    \union [pc : {"cancel"}, alarm : {NoId}, of : {0}, next : {"TIME"}]
    \union [pc : {"forget"}, alarm : AlarmIds \union {NoId}, of : Instants,
            next : {"stay"}]
    \union [pc : {"cancel", "get", "delete", "reload", "snooze"},
            alarm : AlarmIds, of : Times, next : {"TIME", "stay"}]

(* The type of the state; and no more requests than there are slots.       *)
TypeOK ==
    /\ TimerTypeOK
    /\ stored \in Schedules
    /\ state \in States
    /\ ringing \in [alarm : AlarmIds, of : Times] \union {NoRinging}
    /\ ringDeadline \in [alarm : AlarmIds, at : Nat] \union {NoDeadline}
    /\ mgr \in Jobs
    /\ shown \in Screens /\ badge \in BOOLEAN /\ ui \in {"idle", "reload"}
    /\ dismissed \in [AlarmIds -> Instants]
    /\ presses \in 0 .. MaxPresses /\ edits \in 0 .. MaxEdits
    /\ faults \in 0 .. MaxFaults
    /\ Room >= 0

(* Whoever changes the records, the schedule that decides what rings is    *)
(* the stored one again once the writers have finished, in whatever order  *)
(* their writes and reloads fell: alarm_service_save() on the UiWorker and *)
(* dismiss_alarm() on the manager's.                                       *)
ScheduleFresh ==
    faults = 0 /\ mgr.pc # "reload" /\ ui # "reload" => alarms = stored

(* A one-off that was dismissed is gone from Storage when the dismissal is *)
(* through: it cannot come back after a restart.                           *)
OneOffGone ==
    faults = 0 /\ mgr.pc \notin {"get", "delete"} =>
        \A id \in AlarmIds :
            ~(stored[id].kind = "one_off" /\ stored[id].at = dismissed[id])

(* What was dismissed while it rang does not ring again, though the clock  *)
(* be set back over it, the schedule reloaded or a snooze left over.  An   *)
(* instant that fires twice before its first ring is answered needs two    *)
(* dismissals: ClockManagerProofs says when that is, and the runs have it  *)
(* nowhere.                                                                *)
DismissedForGood ==
    ringing.alarm # NoId => ringing.of # dismissed[ringing.alarm]

(* A deadline that stands while an alarm rings is honoured, whoever        *)
(* presses what, whichever ticks are dropped and wherever the clock goes.  *)
DeadlineHonoured ==
    (state = "ALARM_RINGING" /\ ringDeadline.at \in Times) ~>
        (state # "ALARM_RINGING" \/ ringDeadline.at \notin Times)

(* Nothing on the manager's worker waits for ever, and a request posted    *)
(* is taken: the manager waits for the UiWorker, which waits for the Timer *)
(* and Storage, which wait for nobody.                                     *)
ManagerReturns == mgr # Idle ~> mgr = Idle

(* nn20clock_manager.c:511, "Deleted or edited while it was ringing.       *)
(* Nothing to do.": a dismissal removes only the record whose occurrence   *)
(* it ends.                                                                *)
EditedAlarmKept ==
    [][mgr.pc = "delete" /\ mgr'.pc = "reload" =>
            stored[mgr.alarm].at = mgr.of]_vars
=============================================================================
