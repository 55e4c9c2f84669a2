----------------------------- MODULE AlarmTimer -----------------------------
(***************************************************************************)
(* The scheduler of nn20clock_timer.c and the list it scans                *)
(* (nn20clock_alarm.c).  A poll compares the system clock with the reading *)
(* of the poll before; what lies in the half-open interval between them is *)
(* what has become due.  Every task of the Timer's worker is one action.   *)
(*                                                                         *)
(* Time is counted in abstract units.  Calendar arithmetic (local time,    *)
(* weekdays, DST) is reduced to the set of instants an alarm occurs at.    *)
(* SECOND, MINUTE and TIME_SYNCED events reach the subscriber as one kind  *)
(* of request, a tick: it treats the three alike.                          *)
(***************************************************************************)
EXTENDS Integers, Sequences, FiniteSets

CONSTANTS
    AlarmIds,            \* ids in use, 1 .. NN20CLOCK_ALARM_MAX in the code
    Horizon,             \* bound on time: stands for every later instant too
    Day,                 \* period of a recurrent alarm
    Grace,               \* NN20CLOCK_TIMER_ALARM_GRACE_SECONDS
    MaxCorrections       \* bound on corrections of the clock and the zone

ASSUME TimerAssumption ==
    /\ AlarmIds \subseteq Nat \ {0}
    /\ Horizon \in Nat /\ Day \in Nat \ {0} /\ Grace \in Nat
    /\ MaxCorrections \in Nat

VARIABLES
    clock,               \* the system clock, time()
    notice,              \* the clock was set and the Timer is yet to be told
    corrections,         \* corrections so far
    alarms,              \* the live schedule, NoAlarm where no record is
    last,                \* the reading of the last poll, or NoReading
    forced,              \* force_emit
    snooze,              \* the pending snooze
    lastFired,           \* last_fired[]
    queue                \* requests posted to the ClockManager's worker

timerVars == <<clock, notice, corrections, alarms, last, forced, snooze,
               lastFired, queue>>

NoId == 0                \* NN20CLOCK_ALARM_ID_NONE
NoReading == -1
Times == 1 .. Horizon
Instants == 0 .. Horizon

Alarm == [kind : {"one_off", "recurrent"}, at : Times, enabled : BOOLEAN]
NoAlarm == [kind |-> "none"]
Schedules == [AlarmIds -> Alarm \union {NoAlarm}]

(* `of' names the occurrence an event belongs to: the instant the alarm was *)
(* set for, which a snooze carries along.  It is a history value: no guard  *)
(* reads it.                                                                *)
NoSnooze == [alarm |-> NoId, at |-> 0, of |-> 0]
Tick(when, pending) == [type |-> "tick", at |-> when, pending |-> pending]
Ring(id, when, of) == [type |-> "alarm", alarm |-> id, at |-> when, of |-> of]

-----------------------------------------------------------------------------
(* The alarm list.                                                         *)

Occurrences(alarm) ==
    IF alarm = NoAlarm \/ ~alarm.enabled THEN {}
    ELSE IF alarm.kind = "one_off" THEN {alarm.at}
    ELSE {w \in Times : w % Day = alarm.at % Day}

(* What occurs in (after, until], as pairs of id and instant.              *)
Crossed(after, until) ==
    {o \in AlarmIds \X Times :
        o[2] \in Occurrences(alarms[o[1]]) /\ after < o[2] /\ o[2] <= until}

(* The earliest of them.  List order breaks a tie, so any of them may win. *)
FirstIn(after, until) ==
    {o \in Crossed(after, until) :
        \A p \in Crossed(after, until) : o[2] <= p[2]}

-----------------------------------------------------------------------------
PostAll(room, events) ==    \* fault: nobody counts the slots
    queue' = queue \o events

(* on_timer_event() in the subscriber: what finds no free request slot is  *)
(* dropped.  `room' is the number of free slots.                           *)
Post(room, events) ==
    queue' = queue \o SubSeq(events, 1,
                             IF Len(events) < room THEN Len(events) ELSE room)

Late(when) == clock - when > Grace

SnoozeDue == snooze.alarm # NoId /\ last < snooze.at /\ snooze.at <= clock

(* The snooze rings if it is due before every alarm of the interval.       *)
SnoozeFirst ==
    SnoozeDue /\ \A o \in Crossed(last, clock) : snooze.at < o[2]

(* emit() of SECOND and MINUTE.  Past the Horizon the clock goes on, so    *)
(* there is always a new second to report.                                 *)
SecondChanged ==
    last = NoReading \/ forced \/ clock # last \/ clock = Horizon

Report(room, rings, pending) ==
    Post(room, rings \o IF SecondChanged THEN <<Tick(clock, pending)>>
                                         ELSE <<>>)

Read == last' = clock /\ forced' = FALSE

(* poll_private() when scan_alarms() finds nothing.                        *)
PollQuiet(room) ==
    /\ \/ last = NoReading
       \/ ~SnoozeFirst /\ Crossed(last, clock) = {}
    /\ Read
    /\ Report(room, <<>>, snooze.alarm # NoId)
    /\ UNCHANGED <<clock, notice, corrections, alarms, snooze, lastFired>>

(* The snooze is consumed, whether or not it is too late to ring.          *)
PollSnooze(room) ==
    /\ last # NoReading
    /\ SnoozeFirst
    /\ Read
    /\ snooze' = NoSnooze
    /\ Report(room,
              IF Late(snooze.at) THEN <<>>
              ELSE <<Ring(snooze.alarm, snooze.at, snooze.of)>>, FALSE)
    /\ UNCHANGED <<clock, notice, corrections, alarms, lastFired>>

FiresAlways(o) == ~Late(o[2])    \* fault: trusts the interval alone

Fires(o) == lastFired[o[1]] # o[2] /\ ~Late(o[2])

(* The earliest alarm of the interval: already fired, too late, or rung.   *)
PollAlarm(room) ==
    /\ last # NoReading
    /\ ~SnoozeFirst
    /\ \E o \in FirstIn(last, clock) :
        /\ lastFired' = [lastFired EXCEPT ![o[1]] = o[2]]
        /\ Report(room, IF Fires(o) THEN <<Ring(o[1], o[2], o[2])>> ELSE <<>>,
                  snooze.alarm # NoId)
    /\ Read
    /\ UNCHANGED <<clock, notice, corrections, alarms, snooze>>

(* localtime_r() fails: the reading is not used, the subscriber is told.   *)
PollError(room) ==
    /\ Post(room, <<[type |-> "move", to |-> "ERROR"]>>)
    /\ UNCHANGED <<clock, notice, corrections, alarms, last, forced, snooze,
                   lastFired>>

-----------------------------------------------------------------------------
(* The clock.  A correction is two steps: settimeofday(), and the notice   *)
(* that reaches the Timer's worker later.                                  *)

Elapse ==
    /\ clock < Horizon
    /\ clock' = clock + 1
    /\ UNCHANGED <<notice, corrections, alarms, last, forced, snooze,
                   lastFired, queue>>

SetClock(t) ==
    /\ corrections < MaxCorrections
    /\ corrections' = corrections + 1
    /\ clock' = t
    /\ notice' = TRUE
    /\ UNCHANGED <<alarms, last, forced, snooze, lastFired, queue>>

(* adopt_authoritative_time(): the jump is not elapsed time.               *)
Adopt(room) ==
    /\ notice
    /\ notice' = FALSE
    /\ forced' = TRUE
    /\ last' = NoReading
    /\ Post(room, <<Tick(clock, snooze.alarm # NoId)>>)
    /\ UNCHANGED <<clock, corrections, alarms, snooze, lastFired>>

(* timezone_private(): the schedule starts afresh in the new zone.  That   *)
(* the alarms' instants move with the zone is left out.                    *)
SetTimezone ==
    /\ corrections < MaxCorrections
    /\ corrections' = corrections + 1
    /\ forced' = TRUE
    /\ last' = NoReading
    /\ UNCHANGED <<clock, notice, alarms, snooze, lastFired, queue>>

-----------------------------------------------------------------------------
(* What the other workers ask of the Timer's: each a task of its worker,   *)
(* so nothing comes between its reads and its writes.                      *)

SnoozeFor(id, of, length) ==
    snooze' = [alarm |-> id, at |-> clock + length, of |-> of]

CancelSnooze == snooze' = NoSnooze

Reload(list) == alarms' = list

Refresh == forced' = TRUE

TimerInit ==
    /\ clock = 0
    /\ notice = FALSE
    /\ corrections \in 0 .. MaxCorrections
    /\ last = NoReading
    /\ forced = FALSE
    /\ snooze = NoSnooze
    /\ lastFired = [id \in AlarmIds |-> 0]
    /\ queue = <<>>
=============================================================================
