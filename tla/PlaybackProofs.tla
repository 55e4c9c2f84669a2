---------------------------- MODULE PlaybackProofs ----------------------------
(***************************************************************************)
(* Sound has a screen that can stop it, a snoozed film resumes where it    *)
(* was and a touch does one thing: for any films, any alarms and touches   *)
(* and any number of faults.                                               *)
(***************************************************************************)
EXTENDS Playback, SequenceTheorems, TLAPS

(***************************************************************************)
(* Types.  A screen that is asked for again asks for a playback.           *)
(***************************************************************************)
GoodScreens == {s \in Screens : s.retry => IsVideo(s)}
GoodTasks == {Touch, Done, Destroy} \union {Show(s) : s \in GoodScreens}
GoodRequests ==
    {Ask(type) : type \in {"alarm", "snooze", "stop", "cancel", "open",
                           "close", "hour"}}
    \union {ShowFilm(s) : s \in GoodScreens}

FilmRequests == [path : Films \union {NoFilm}, loop : BOOLEAN,
                 sleeps : BOOLEAN, tone : BOOLEAN, remember : BOOLEAN]
FilmJobs == [pc : {"idle", "loop", "turn", "chunk", "ended", "close", "after",
                   "tone", "finish", "report"},
             cursor : 0 .. FilmLength, drew : BOOLEAN, failed : BOOLEAN]
Places == [path : Films \union {NoFilm}, cursor : 0 .. FilmLength]

(* The player's own variables, and the queues that join it to the others.  *)
PlayerShape ==
    /\ request \in FilmRequests /\ playing \in BOOLEAN /\ halt \in BOOLEAN
    /\ job \in FilmJobs
    /\ stopAt \in {"none", "ahead", "past"}
    /\ resume \in Places /\ thumbnail \in BOOLEAN
    /\ wanted \in BOOLEAN /\ hasVideo \in BOOLEAN
    /\ panel \in {"player", "lvgl"} /\ finger \in BOOLEAN
    /\ touched \in BOOLEAN /\ touchDown \in BOOLEAN
    /\ patience \in {"none", "waiting", "over"}
    /\ faults \in 0 .. MaxFaults
    /\ jobs \in Seq({"play", "forget"})

ScreenShape ==
    /\ media \in AlarmMedia
    /\ state \in {"TIME", "MEDIA_PLAYBACK", "ALARM_RINGING"}
    /\ ringing \in BOOLEAN /\ snoozed \in BOOLEAN
    /\ inbox \in Seq(GoodRequests)
    /\ uiQueue \in Seq(GoodTasks)
    /\ mgr \in [pc : {"idle", "destroy", "show"}, next : GoodScreens]
    /\ screen \in GoodScreens
    /\ rolled \in Films \union {NoFilm}
    /\ place \in Places /\ seen \in BOOLEAN
    /\ rings \in 0 .. MaxRings /\ taps \in 0 .. MaxTaps

LEMMA Constants ==
    /\ FilmLength \in Nat /\ FilmLength > 1 /\ MaxFaults \in Nat
    /\ MaxRings \in Nat /\ MaxTaps \in Nat /\ MaxInbox \in Nat /\ MaxWaiting \in Nat
    /\ NoFilm \notin Films /\ "random" \notin Films
    /\ AlarmMedia \subseteq Films \union {NoFilm, "random"}
    /\ SleepTimers \subseteq {"none", "left"}
  BY PlayerAssumption, PlaybackAssumption

LEMMA SomeScreens ==
    /\ NoScreen \in GoodScreens /\ TimeScreen \in GoodScreens /\ ListScreen \in GoodScreens
    /\ \A kind \in {"media", "alarm"}, path \in Films \union {NoFilm}, next \in BOOLEAN,
          sleep \in {"none", "left"} : Screen(kind, path, next, sleep) \in GoodScreens
  BY DEF NoScreen, TimeScreen, ListScreen, Screen, GoodScreens, Screens, IsVideo

LEMMA ScreenFields ==
  ASSUME NEW s \in GoodScreens
  PROVE  /\ \A b \in BOOLEAN : [s EXCEPT !.buttons = b] \in GoodScreens
         /\ [s EXCEPT !.retry = FALSE] \in GoodScreens
         /\ IsVideo(s) => [s EXCEPT !.retry = TRUE] \in GoodScreens
         /\ [s EXCEPT !.sleep = "over"] \in GoodScreens
         /\ \A film \in Films : [s EXCEPT !.path = film] \in GoodScreens
         /\ \A b \in BOOLEAN : [s EXCEPT !.buttons = b].kind = s.kind
         /\ \A b \in BOOLEAN : [s EXCEPT !.retry = b].kind = s.kind
         /\ [s EXCEPT !.sleep = "over"].kind = s.kind
         /\ \A film : [s EXCEPT !.path = film].kind = s.kind
  BY DEF GoodScreens, Screens, IsVideo

LEMMA AskedIsFilmRequest ==
  ASSUME NEW s \in GoodScreens
  PROVE  Asked(s) \in FilmRequests
  BY DEF GoodScreens, Screens, Asked, FilmRequests, IsAlarm

LEMMA InitShape ==
  ASSUME Init PROVE PlayerShape /\ ScreenShape
  <1>1. PICK b \in Beginnings :
          /\ rings = b.rings /\ taps = b.taps /\ faults = b.faults
          /\ \/ b.with = "boot" /\ InitBooted
             \/ b.with = "snooze" /\ InitSnoozed
             \/ b.with = "film" /\ InitFilm
    BY DEF Init
  <1>2. /\ rings \in 0 .. MaxRings /\ taps \in 0 .. MaxTaps /\ faults \in 0 .. MaxFaults
        /\ media \in AlarmMedia /\ ringing = FALSE /\ inbox = <<>> /\ mgr = NoSwap
        /\ seen = FALSE
    BY <1>1, PlaybackAssumption DEF Init
  <1>3. inbox \in Seq(GoodRequests) /\ <<>> \in Seq(GoodTasks)
        /\ <<>> \in Seq({"play", "forget"}) /\ <<"play">> \in Seq({"play", "forget"})
    BY <1>2, EmptySeq
  <1>4. mgr \in [pc : {"idle", "destroy", "show"}, next : GoodScreens]
    BY <1>2, SomeScreens DEF NoSwap, Swap
  <1>5. Idle \in FilmJobs /\ Nowhere \in Places /\ NoRequest \in FilmRequests
    BY Constants DEF Idle, Job, FilmJobs, Nowhere, Places, NoRequest, FilmRequests
  <1>6. CASE InitBooted
    BY <1>2, <1>3, <1>4, <1>5, <1>6, SomeScreens DEF InitBooted, PlayerInit, PlayerShape, ScreenShape
  <1>7. CASE InitSnoozed
    <2>1. place \in Places /\ rolled \in Films \union {NoFilm}
      BY <1>7, Constants DEF InitSnoozed, Places
    <2>2. request \in FilmRequests
      BY <1>7, <2>1 DEF InitSnoozed, FilmRequests, Places
    <2>. QED BY <1>2, <1>3, <1>4, <1>5, <1>7, <2>1, <2>2, SomeScreens
         DEF InitSnoozed, PlayerShape, ScreenShape
  <1>8. CASE InitFilm
    <2>1. screen \in GoodScreens
      BY <1>8, SomeScreens, Constants DEF InitFilm
    <2>2. request \in FilmRequests
      BY <1>8, <2>1, AskedIsFilmRequest DEF InitFilm
    <2>. QED BY <1>2, <1>3, <1>4, <1>5, <1>8, <2>1, <2>2
         DEF InitFilm, PlayerShape, ScreenShape
  <1>. QED BY <1>1, <1>6, <1>7, <1>8

(***************************************************************************)
(* What each thread's steps do to the player's variables.                  *)
(***************************************************************************)
LEMMA PanelTyped ==
  ASSUME PlayerShape, NEW shows, SyncPanel(shows)
  PROVE  panel' \in {"player", "lvgl"} /\ patience' \in {"none", "waiting", "over"}
  BY DEF PlayerShape, SyncPanel

LEMMA TailTyped ==
  ASSUME PlayerShape, jobs # <<>>, jobs' = Tail(jobs)
  PROVE  jobs' \in Seq({"play", "forget"})
  BY HeadTailProperties DEF PlayerShape

LEMMA JobTyped ==
  ASSUME NEW cursor \in 0 .. FilmLength,
         NEW pc \in {"idle", "loop", "turn", "chunk", "ended", "close", "after",
                    "tone", "finish", "report"}
  PROVE  \A drew, failed \in BOOLEAN : Job(pc, cursor, drew, failed) \in FilmJobs
  BY DEF Job, FilmJobs

LEMMA JobMoves ==
  ASSUME NEW j \in FilmJobs, NEW cursor \in 0 .. FilmLength, NEW drew \in BOOLEAN
  PROVE  [j EXCEPT !.pc = "turn", !.cursor = cursor, !.drew = drew] \in FilmJobs
  BY DEF FilmJobs

LEMMA JobFields ==
  ASSUME NEW j \in FilmJobs
  PROVE  /\ [j EXCEPT !.pc = "close"] \in FilmJobs
         /\ [j EXCEPT !.pc = "close", !.failed = TRUE] \in FilmJobs
  BY DEF FilmJobs

LEMMA PlayerStepShape ==
  ASSUME PlayerShape, PlayerStep
  PROVE  PlayerShape'
  <1> USE DEF PlayerShape, At, Goto, Fail, Succeed, requestVars, memoryVars, panelVars, jobStep
  <1>1. CASE Forget
    <2>1. jobs' \in Seq({"play", "forget"})
      BY <1>1, TailTyped DEF Forget
    <2>2. resume' \in Places
      BY <1>1, Constants DEF Forget, Nowhere, Places
    <2>3. UNCHANGED <<request, playing, halt, job, stopAt, wanted, hasVideo, panel,
                      finger, touched, touchDown, patience, faults>>
      BY <1>1 DEF Forget
    <2>4. thumbnail' \in BOOLEAN
      BY <1>1 DEF Forget
    <2>. QED BY <2>1, <2>2, <2>3, <2>4
  <1>2. CASE Begin
    <2>1. jobs' \in Seq({"play", "forget"})
      BY <1>2, TailTyped DEF Begin
    <2>2. faults' \in 0 .. MaxFaults
      BY <1>2, Constants DEF Begin
    <2>3. StartsAt \in 0 .. FilmLength
      BY Constants DEF StartsAt
    <2>4. job' \in FilmJobs /\ hasVideo' \in BOOLEAN /\ stopAt' \in {"none", "ahead", "past"}
      <3>1. CASE Opens
        BY <2>3, <3>1, JobTyped DEF Opens
      <3>2. CASE RefusesToOpen
        <4>1. 0 \in 0 .. FilmLength
          BY Constants
        <4>. QED BY <3>2, <4>1, JobTyped DEF RefusesToOpen
      <3>. QED BY <1>2, <3>1, <3>2 DEF Begin
    <2>. QED BY <1>2, <2>1, <2>2, <2>4 DEF Begin
  <1>3. CASE Loop
    BY <1>3 DEF Loop, FilmJobs
  <1>4. CASE Turn
    <2>1. CASE halt \/ Expired
      BY <1>4, <2>1 DEF Turn, FilmJobs
    <2>2. CASE ~(halt \/ Expired)
      <3>1. panel' \in {"player", "lvgl"} /\ patience' \in {"none", "waiting", "over"}
        BY <1>4, <2>2, PanelTyped DEF Turn, SyncAndPoll
      <3>2. touched' \in BOOLEAN /\ touchDown' \in BOOLEAN /\ job' \in FilmJobs
        BY <1>4, <2>2 DEF Turn, SyncAndPoll, FilmJobs
      <3>. QED BY <1>4, <3>1, <3>2 DEF Turn
    <2>. QED BY <2>1, <2>2
  <1>5. CASE Frame
    <2>1. job' \in FilmJobs
      <3>1. job.cursor + 1 \in 0 .. FilmLength /\ job \in FilmJobs
        BY <1>5, Constants DEF Frame, FilmJobs
      <3>2. (job.drew \/ OnPanel) \in BOOLEAN
        OBVIOUS
      <3>3. job' = [job EXCEPT !.pc = "turn", !.cursor = job.cursor + 1,
                               !.drew = job.drew \/ OnPanel]
        BY <1>5 DEF Frame
      <3>. QED BY <3>1, <3>2, <3>3, JobMoves
    <2>. QED BY <1>5, <2>1 DEF Frame, OnPanel
  <1>6. CASE EndOfFile
    BY <1>6 DEF EndOfFile, FilmJobs
  <1>7. CASE ChunkFails
    <2>1. faults' \in 0 .. MaxFaults
      BY <1>7, Constants DEF ChunkFails
    <2>2. job' \in FilmJobs
      BY <1>7, JobFields DEF ChunkFails
    <2>. QED BY <1>7, <2>1, <2>2 DEF ChunkFails
  <1>8. CASE Ended
    <2>1. job' \in FilmJobs
      <3>1. \/ job' = [job EXCEPT !.pc = "close"]
            \/ job' = [job EXCEPT !.pc = "close", !.failed = TRUE]
            \/ job' = Job("loop", 0, FALSE, FALSE)
        BY <1>8 DEF Ended
      <3>2. 0 \in 0 .. FilmLength
        BY Constants
      <3>3. [job EXCEPT !.pc = "close"] \in FilmJobs
            /\ [job EXCEPT !.pc = "close", !.failed = TRUE] \in FilmJobs
        BY JobFields
      <3>. QED BY <3>1, <3>2, <3>3, JobTyped
    <2>2. UNCHANGED <<jobs, request, playing, halt, stopAt, resume, thumbnail, wanted,
                      hasVideo, panel, finger, touched, touchDown, patience, faults>>
      BY <1>8 DEF Ended
    <2>. QED BY <2>1, <2>2
  <1>9. CASE Close
    <2>1. panel' \in {"player", "lvgl"} /\ patience' \in {"none", "waiting", "over"}
      BY <1>9, PanelTyped DEF Close
    <2>2. touched' \in BOOLEAN /\ touchDown' \in BOOLEAN /\ job' \in FilmJobs
      BY <1>9 DEF Close, ForgetTouches, FilmJobs
    <2>3. resume' \in Places
      BY <1>9 DEF Close, Places, FilmRequests, FilmJobs
    <2>. QED BY <1>9, <2>1, <2>2, <2>3 DEF Close
  <1>10. CASE After
    <2>1. job' \in FilmJobs
      BY <1>10 DEF After, FilmJobs
    <2>2. CASE job.failed /\ request.tone /\ ~halt
      <3>1. panel' \in {"player", "lvgl"} /\ patience' \in {"none", "waiting", "over"}
        BY <1>10, <2>2, PanelTyped DEF After
      <3>2. touched' \in BOOLEAN /\ touchDown' \in BOOLEAN
        BY <1>10, <2>2 DEF After, ForgetTouches
      <3>3. hasVideo' = FALSE /\ UNCHANGED <<jobs, request, playing, halt, stopAt, resume,
                                            thumbnail, wanted, finger, faults>>
        BY <1>10, <2>2 DEF After, SyncPanel, ForgetTouches
      <3>. QED BY <2>1, <3>1, <3>2, <3>3
    <2>3. CASE ~(job.failed /\ request.tone /\ ~halt)
      <3>1. UNCHANGED <<jobs, request, playing, halt, stopAt, resume, thumbnail, wanted,
                        hasVideo, panel, finger, touched, touchDown, patience, faults>>
        BY <1>10, <2>3 DEF After
      <3>. QED BY <2>1, <3>1
    <2>. QED BY <2>2, <2>3
  <1>11. CASE ToneEnds
    BY <1>11 DEF ToneEnds, FilmJobs
  <1>12. CASE Finish
    BY <1>12 DEF Finish, FilmJobs
  <1>13. CASE Report
    BY <1>13, Constants DEF Report, FilmJobs, Idle, Job
  <1>. QED BY <1>1, <1>2, <1>3, <1>4, <1>5, <1>6, <1>7, <1>8, <1>9, <1>10, <1>11, <1>12,
              <1>13 DEF PlayerStep

LEMMA PlayerStepQueue ==
  ASSUME PlayerStep
  PROVE  uiQueue' = uiQueue \/ uiQueue' = Append(uiQueue, Touch) \/ uiQueue' = Append(uiQueue, Done)
  BY DEF PlayerStep, Forget, Begin, Loop, Turn, Frame, EndOfFile, ChunkFails, Ended, Close,
         After, ToneEnds, Finish, Report, SyncAndPoll

LEMMA TasksTyped ==
  /\ Touch \in GoodTasks /\ Done \in GoodTasks /\ Destroy \in GoodTasks
  /\ \A s \in GoodScreens : Show(s) \in GoodTasks
  /\ \A s : Show(s).task = "show" /\ Show(s).screen = s
  /\ Touch.task = "touch" /\ Done.task = "done" /\ Destroy.task = "destroy"
  /\ \A task \in GoodTasks :
       \/ task.task = "show" /\ task.screen \in GoodScreens
       \/ task.task \in {"touch", "done", "destroy"}
  <1>1. /\ Touch \in GoodTasks /\ Done \in GoodTasks /\ Destroy \in GoodTasks
        /\ \A s \in GoodScreens : Show(s) \in GoodTasks
    BY DEF GoodTasks
  <1>2. \A s : Show(s).task = "show" /\ Show(s).screen = s
    BY DEF Show
  <1>3. Touch.task = "touch" /\ Done.task = "done" /\ Destroy.task = "destroy"
    BY DEF Touch, Done, Destroy
  <1>4. ASSUME NEW task \in GoodTasks
        PROVE  \/ task.task = "show" /\ task.screen \in GoodScreens
               \/ task.task \in {"touch", "done", "destroy"}
    <2>1. task \in {Touch, Done, Destroy} \/ \E s \in GoodScreens : task = Show(s)
      BY <1>4 DEF GoodTasks
    <2>. QED BY <2>1, <1>2, <1>3
  <1>. QED BY <1>1, <1>2, <1>3, <1>4

LEMMA RequestsTyped ==
  /\ \A type \in {"alarm", "snooze", "stop", "cancel", "open", "close", "hour"} :
       Ask(type) \in GoodRequests
  /\ \A s \in GoodScreens : ShowFilm(s) \in GoodRequests
  /\ \A r \in GoodRequests : r.type = "film" => r.screen \in GoodScreens
  <1>1. /\ \A type \in {"alarm", "snooze", "stop", "cancel", "open", "close", "hour"} :
             Ask(type) \in GoodRequests
        /\ \A s \in GoodScreens : ShowFilm(s) \in GoodRequests
    BY DEF GoodRequests
  <1>2. \A s : ShowFilm(s).screen = s
    BY DEF ShowFilm
  <1>3. \A type : Ask(type).type = type
    BY DEF Ask
  <1>4. ASSUME NEW r \in GoodRequests, r.type = "film" PROVE r.screen \in GoodScreens
    <2>1. \/ \E type \in {"alarm", "snooze", "stop", "cancel", "open", "close", "hour"} :
                r = Ask(type)
          \/ \E s \in GoodScreens : r = ShowFilm(s)
      BY <1>4 DEF GoodRequests
    <2>. QED BY <1>2, <1>3, <1>4, <2>1
  <1>. QED BY <1>1, <1>4

(* The queues keep their types when something is put behind them or taken  *)
(* from their heads.                                                       *)
LEMMA QueuesTyped ==
  ASSUME ScreenShape
  PROVE  /\ \A task \in GoodTasks : Append(uiQueue, task) \in Seq(GoodTasks)
         /\ uiQueue # <<>> => Tail(uiQueue) \in Seq(GoodTasks) /\ Head(uiQueue) \in GoodTasks
         /\ \A r \in GoodRequests : Append(inbox, r) \in Seq(GoodRequests)
         /\ inbox # <<>> => Tail(inbox) \in Seq(GoodRequests) /\ Head(inbox) \in GoodRequests
  BY AppendProperties, HeadTailProperties DEF ScreenShape

LEMMA JobsTyped ==
  ASSUME PlayerShape
  PROVE  /\ Append(jobs, "play") \in Seq({"play", "forget"})
         /\ Append(jobs, "forget") \in Seq({"play", "forget"})
  BY AppendProperties DEF PlayerShape

LEMMA PlayerRunsShape ==
  ASSUME PlayerShape, ScreenShape, PlayerRuns
  PROVE  PlayerShape' /\ ScreenShape'
  <1>1. PlayerStep /\ UNCHANGED screenVars
    BY DEF PlayerRuns
  <1>2. PlayerShape'
    BY <1>1, PlayerStepShape
  <1>3. uiQueue' \in Seq(GoodTasks)
    <2>1. Touch \in GoodTasks /\ Done \in GoodTasks
      BY TasksTyped
    <2>. QED BY <1>1, <2>1, PlayerStepQueue, QueuesTyped DEF ScreenShape
  <1>4. place' \in Places
    BY DEF PlayerRuns, ScreenShape, PlayerShape, Places, FilmRequests, FilmJobs
  <1>5. seen' \in BOOLEAN
    BY DEF PlayerRuns, ScreenShape
  <1>. QED BY <1>1, <1>2, <1>3, <1>4, <1>5
       DEF ScreenShape, screenVars, managerVars, worldVars

(* Starting a playback.                                                    *)
LEMMA StartShape ==
  ASSUME PlayerShape, NEW s \in GoodScreens, IsVideo(s), Start(s)
  PROVE  /\ request' \in FilmRequests /\ playing' \in BOOLEAN /\ halt' \in BOOLEAN
         /\ jobs' \in Seq({"play", "forget"}) /\ thumbnail' \in BOOLEAN
         /\ screen' \in GoodScreens /\ screen'.kind = s.kind
  <1>1. CASE playing
    BY <1>1, ScreenFields DEF Start, PlayerShape, requestVars
  <1>2. CASE ~playing
    BY <1>2, AskedIsFilmRequest, JobsTyped DEF Start, Play, PlayerShape
  <1>. QED BY <1>1, <1>2

LEMMA FailShape ==
  ASSUME PlayerShape, Fail \/ Succeed \/ faults' = faults
  PROVE  faults' \in 0 .. MaxFaults
  BY Constants DEF PlayerShape, Fail, Succeed

LEMMA DrawIsFilm ==
  ASSUME NEW last, NEW film \in Draw(last)
  PROVE  film \in Films \union {NoFilm}
  BY DEF Draw, Others

LEMMA PlayNextShape ==
  ASSUME PlayerShape, ScreenShape, IsVideo(screen), PlayNext
  PROVE  /\ request' \in FilmRequests /\ playing' \in BOOLEAN /\ halt' \in BOOLEAN
         /\ jobs' \in Seq({"play", "forget"}) /\ thumbnail' \in BOOLEAN
         /\ faults' \in 0 .. MaxFaults /\ rolled' \in Films \union {NoFilm}
         /\ screen' \in GoodScreens /\ screen'.kind = screen.kind
  <1>1. PICK film \in Draw(screen.path) :
           /\ Drawn(film)
           /\ rolled' = IF IsAlarm(screen) /\ film # NoFilm THEN film ELSE rolled
           /\ Start(IF film = NoFilm THEN screen ELSE [screen EXCEPT !.path = film])
    BY DEF PlayNext
  <1> DEFINE s == IF film = NoFilm THEN screen ELSE [screen EXCEPT !.path = film]
  <1>2. film \in Films \union {NoFilm}
    BY DrawIsFilm
  <1>3. s \in GoodScreens /\ s.kind = screen.kind /\ IsVideo(s)
    BY <1>2, ScreenFields DEF ScreenShape, IsVideo
  <1>4. Start(s)
    BY <1>1
  <1>5. faults' \in 0 .. MaxFaults
    BY <1>1, FailShape DEF Drawn
  <1>6. rolled' \in Films \union {NoFilm}
    BY <1>1, <1>2 DEF ScreenShape
  <1> HIDE DEF s
  <1>. QED BY <1>3, <1>4, <1>5, <1>6, StartShape

(***************************************************************************)
(* The steps of the UiWorker.                                              *)
(***************************************************************************)
LEMMA HandleTouchShape ==
  ASSUME PlayerShape, ScreenShape, HandleTouch
  PROVE  PlayerShape' /\ ScreenShape' /\ screen'.kind = screen.kind
  <1>1. uiQueue' \in Seq(GoodTasks)
    BY QueuesTyped DEF HandleTouch, UiTask
  <1>2. /\ screen' \in GoodScreens /\ wanted' \in BOOLEAN /\ screen'.kind = screen.kind
    <2>1. CASE IsVideo(screen) /\ ~screen.buttons
      BY <2>1, ScreenFields DEF HandleTouch, ShowButtons, ScreenShape
    <2>2. CASE ~(IsVideo(screen) /\ ~screen.buttons)
      BY <2>2 DEF HandleTouch, ScreenShape, PlayerShape
    <2>. QED BY <2>1, <2>2
  <1>3. PlayerShape'
    BY <1>2 DEF HandleTouch, PlayerShape, jobVars, requestVars, memoryVars, panelVars
  <1>. QED BY <1>1, <1>2, <1>3
       DEF HandleTouch, ScreenShape, managerVars, worldVars, historyVars

LEMMA HandleDoneShape ==
  ASSUME PlayerShape, ScreenShape, HandleDone
  PROVE  PlayerShape' /\ ScreenShape' /\ screen'.kind = screen.kind
  <1>1. uiQueue' \in Seq(GoodTasks)
    BY QueuesTyped DEF HandleDone, UiTask
  <1>2. /\ request' \in FilmRequests /\ playing' \in BOOLEAN /\ halt' \in BOOLEAN
        /\ jobs' \in Seq({"play", "forget"}) /\ thumbnail' \in BOOLEAN
        /\ faults' \in 0 .. MaxFaults /\ rolled' \in Films \union {NoFilm}
        /\ screen' \in GoodScreens /\ screen'.kind = screen.kind
        /\ inbox' \in Seq(GoodRequests)
    <2>1. CASE ~IsVideo(screen) \/ (IsAlarm(screen) /\ ~screen.next)
      BY <2>1 DEF HandleDone, PlayerShape, ScreenShape, requestVars
    <2>2. CASE /\ ~(~IsVideo(screen) \/ (IsAlarm(screen) /\ ~screen.next))
               /\ IsAlarm(screen) \/ (screen.sleep = "left" /\ screen.next)
      <3>1. PlayNext /\ inbox' = inbox
        BY <2>2 DEF HandleDone
      <3>. QED BY <2>2, <3>1, PlayNextShape DEF ScreenShape
    <2>3. CASE /\ ~(~IsVideo(screen) \/ (IsAlarm(screen) /\ ~screen.next))
               /\ ~(IsAlarm(screen) \/ (screen.sleep = "left" /\ screen.next))
      <3>1. /\ inbox' = Append(inbox, Ask("close"))
            /\ UNCHANGED <<requestVars, halt, jobs, thumbnail, faults, screen, rolled>>
        BY <2>3 DEF HandleDone
      <3>2. Ask("close") \in GoodRequests
        BY RequestsTyped
      <3>. QED BY <3>1, <3>2, QueuesTyped DEF PlayerShape, ScreenShape, requestVars
    <2>. QED BY <2>1, <2>2, <2>3
  <1>3. PlayerShape'
    BY <1>2 DEF HandleDone, PlayerShape, jobVars, panelVars
  <1>. QED BY <1>1, <1>2, <1>3 DEF HandleDone, ScreenShape, worldVars, historyVars

LEMMA HandleDestroyShape ==
  ASSUME PlayerShape, ScreenShape, HandleDestroy
  PROVE  PlayerShape' /\ ScreenShape'
  <1>1. uiQueue' \in Seq(GoodTasks)
    BY QueuesTyped DEF HandleDestroy, UiTask
  <1>2. mgr' \in [pc : {"idle", "destroy", "show"}, next : GoodScreens]
    BY DEF HandleDestroy, ScreenShape
  <1>3. PlayerShape'
    BY DEF HandleDestroy, PlayerShape, jobVars, requestVars, memoryVars, panelVars
  <1>. QED BY <1>1, <1>2, <1>3, SomeScreens DEF HandleDestroy, ScreenShape, worldVars, historyVars

LEMMA HandleShowShape ==
  ASSUME PlayerShape, ScreenShape, HandleShow
  PROVE  PlayerShape' /\ ScreenShape' /\ screen'.kind = Head(uiQueue).screen.kind
  <1> DEFINE s == Head(uiQueue).screen
  <1>1. uiQueue' \in Seq(GoodTasks) /\ Head(uiQueue) \in GoodTasks
    BY QueuesTyped DEF HandleShow, UiTask
  <1>2. s \in GoodScreens
    BY <1>1, TasksTyped DEF HandleShow, UiTask
  <1>3. /\ request' \in FilmRequests /\ playing' \in BOOLEAN /\ halt' \in BOOLEAN
        /\ jobs' \in Seq({"play", "forget"}) /\ thumbnail' \in BOOLEAN
        /\ screen' \in GoodScreens /\ screen'.kind = s.kind /\ wanted' \in BOOLEAN
    <2>1. CASE IsVideo(s)
      BY <1>2, <2>1, StartShape DEF HandleShow
    <2>2. CASE ~IsVideo(s)
      <3>1. /\ screen' = s
            /\ UNCHANGED <<requestVars, halt, jobs, thumbnail, wanted>>
        BY <2>2 DEF HandleShow
      <3> HIDE DEF s
      <3>. QED BY <1>2, <3>1 DEF PlayerShape, requestVars
    <2>. QED BY <2>1, <2>2
  <1> HIDE DEF s
  <1>4. PlayerShape'
    BY <1>3 DEF HandleShow, PlayerShape, jobVars, panelVars
  <1>5. ScreenShape'
    BY <1>1, <1>3 DEF HandleShow, ScreenShape, managerVars, worldVars, historyVars
  <1>. QED BY <1>3, <1>4, <1>5 DEF s

LEMMA GiveUpShape ==
  ASSUME PlayerShape, ScreenShape, GiveUp
  PROVE  PlayerShape' /\ ScreenShape' /\ screen'.kind = screen.kind
  <1>1. screen' \in GoodScreens /\ screen'.kind = screen.kind
    BY ScreenFields DEF GiveUp, ScreenShape
  <1>2. inbox' \in Seq(GoodRequests)
    <2>1. Ask("close") \in GoodRequests
      BY RequestsTyped
    <2>. QED BY <2>1, QueuesTyped DEF GiveUp
  <1>3. PlayerShape'
    BY DEF GiveUp, PlayerShape, playerVars, requestVars, memoryVars, panelVars
  <1>. QED BY <1>1, <1>2, <1>3
       DEF GiveUp, ScreenShape, playerVars, managerVars, worldVars, historyVars

LEMMA RetryShape ==
  ASSUME PlayerShape, ScreenShape, Retry
  PROVE  PlayerShape' /\ ScreenShape' /\ screen'.kind = screen.kind
  <1>1. screen' \in GoodScreens /\ screen'.kind = screen.kind
    BY ScreenFields DEF Retry, ScreenShape
  <1>2. Asked(screen) \in FilmRequests
    BY AskedIsFilmRequest DEF ScreenShape
  <1>3. PlayerShape'
    BY <1>2, JobsTyped DEF Retry, Play, PlayerShape, jobVars, panelVars
  <1>. QED BY <1>1, <1>3 DEF Retry, ScreenShape, managerVars, worldVars, historyVars

LEMMA ButtonsTimeOutShape ==
  ASSUME PlayerShape, ScreenShape, ButtonsTimeOut
  PROVE  PlayerShape' /\ ScreenShape' /\ screen'.kind = screen.kind
  <1>1. screen' \in GoodScreens /\ screen'.kind = screen.kind /\ wanted' \in BOOLEAN
    BY ScreenFields DEF ButtonsTimeOut, ShowButtons, ScreenShape
  <1>2. PlayerShape'
    BY <1>1 DEF ButtonsTimeOut, PlayerShape, jobVars, requestVars, memoryVars, panelVars
  <1>. QED BY <1>1, <1>2 DEF ButtonsTimeOut, ScreenShape, managerVars, worldVars, historyVars

(***************************************************************************)
(* The steps of the user: they leave the UiWorker's queue alone.           *)
(***************************************************************************)
LEMMA TouchKeepsPlayer ==
  ASSUME PlayerShape, finger' \in BOOLEAN,
         UNCHANGED <<request, playing, halt, job, stopAt, resume, thumbnail, wanted, hasVideo,
                     panel, touched, touchDown, patience, faults, jobs>>
  PROVE  PlayerShape'
  BY DEF PlayerShape

LEMMA UserActsShape ==
  ASSUME PlayerShape, ScreenShape, UserActs
  PROVE  /\ PlayerShape' /\ ScreenShape'
         /\ screen'.kind = screen.kind /\ uiQueue' = uiQueue /\ mgr' = mgr
  <1> USE DEF managerVars, worldVars, jobVars, requestVars, memoryVars, panelVars
  <1>1. Nowhere \in Places
    BY Constants DEF Nowhere, Places
  <1>2. \A type \in {"alarm", "snooze", "stop", "cancel", "open", "close", "hour"} :
           Append(inbox, Ask(type)) \in Seq(GoodRequests)
    BY QueuesTyped, RequestsTyped
  <1>3. CASE Press
    <2>1. PlayerShape'
      BY <1>3, TouchKeepsPlayer DEF Press
    <2>2. taps' \in 0 .. MaxTaps
      BY <1>3, Constants DEF Press, ScreenShape
    <2>. QED BY <1>3, <2>1, <2>2 DEF Press, ScreenShape
  <1>4. CASE Lift
    <2>1. PlayerShape'
      BY <1>4, TouchKeepsPlayer DEF Lift
    <2>. QED BY <1>4, <2>1 DEF Lift, ScreenShape
  <1>5. CASE ClickView
    <2>1. screen' \in GoodScreens /\ screen'.kind = screen.kind /\ wanted' \in BOOLEAN
      <3>1. (~screen.buttons) \in BOOLEAN /\ screen \in GoodScreens
        BY DEF ScreenShape
      <3>. QED BY <1>5, <3>1, ScreenFields DEF ClickView, ShowButtons
    <2>2. PlayerShape'
      BY <1>5, <2>1 DEF ClickView, Click, PlayerShape
    <2>. QED BY <1>5, <2>1, <2>2 DEF ClickView, Click, ScreenShape
  <1>6. CASE ClickSnooze
    <2>1. inbox' \in Seq(GoodRequests)
      BY <1>2, <1>6 DEF ClickSnooze, ClickButton
    <2>2. PlayerShape'
      BY <1>6 DEF ClickSnooze, ClickButton, Click, PlayerShape
    <2>. QED BY <1>6, <2>1, <2>2 DEF ClickSnooze, ClickButton, Click, ScreenShape
  <1>7. CASE ClickStop
    <2>1. inbox' \in Seq(GoodRequests)
      BY <1>2, <1>7 DEF ClickStop, ClickButton
    <2>2. PlayerShape'
      BY <1>7 DEF ClickStop, ClickButton, Click, PlayerShape
    <2>. QED BY <1>7, <2>1, <2>2 DEF ClickStop, ClickButton, Click, ScreenShape
  <1>8. CASE ClickOff
    <2>1. inbox' \in Seq(GoodRequests)
      BY <1>2, <1>8 DEF ClickOff, ClickButton
    <2>2. PlayerShape'
      BY <1>8, JobsTyped DEF ClickOff, ClickButton, Click, ForgetPosition, PlayerShape
    <2>. QED BY <1>1, <1>8, <2>1, <2>2 DEF ClickOff, ClickButton, Click, ScreenShape
  <1>9. CASE ClickFace
    <2>1. inbox' \in Seq(GoodRequests)
      BY <1>2, <1>9 DEF ClickFace
    <2>2. PlayerShape'
      BY <1>9, TouchKeepsPlayer DEF ClickFace, Click
    <2>. QED BY <1>9, <2>1, <2>2 DEF ClickFace, Click, ScreenShape
  <1>10. CASE ClickList
    <2>1. inbox' \in Seq(GoodRequests)
      <3>1. CASE inbox' = Append(inbox, Ask("close"))
        BY <1>2, <3>1
      <3>2. ASSUME NEW film \in Films, NEW next \in BOOLEAN, NEW sleep \in SleepTimers,
                   inbox' = Append(inbox, ShowFilm(Screen("media", film, next, sleep)))
            PROVE  inbox' \in Seq(GoodRequests)
        <4>1. Screen("media", film, next, sleep) \in GoodScreens
          BY SomeScreens, Constants
        <4>2. ShowFilm(Screen("media", film, next, sleep)) \in GoodRequests
          BY <4>1, RequestsTyped
        <4>. QED BY <3>2, <4>2, QueuesTyped
      <3>. QED BY <1>10, <3>1, <3>2 DEF ClickList
    <2>2. PlayerShape'
      BY <1>10, TouchKeepsPlayer DEF ClickList, Click
    <2>. QED BY <1>10, <2>1, <2>2 DEF ClickList, Click, ScreenShape
  <1>. QED BY <1>3, <1>4, <1>5, <1>6, <1>7, <1>8, <1>9, <1>10 DEF UserActs

(***************************************************************************)
(* The steps of the manager: they leave the screen alone, and at most put  *)
(* one thing behind what the UiWorker already has to do.                   *)
(***************************************************************************)
LEMMA EnterShape ==
  ASSUME ScreenShape, NEW s \in GoodScreens, NEW to \in {"TIME", "MEDIA_PLAYBACK", "ALARM_RINGING"},
         Enter(to, s)
  PROVE  /\ uiQueue' \in Seq(GoodTasks)
         /\ state' \in {"TIME", "MEDIA_PLAYBACK", "ALARM_RINGING"}
         /\ mgr' \in [pc : {"idle", "destroy", "show"}, next : GoodScreens]
         /\ \/ UNCHANGED <<uiQueue, mgr>>
            \/ uiQueue' = Append(uiQueue, Destroy) /\ mgr'.pc = "destroy"
  <1>1. CASE UNCHANGED <<uiQueue, state, mgr>>
    BY <1>1 DEF ScreenShape
  <1>2. CASE state' = to /\ SwapTo(s)
    <2>1. Destroy \in GoodTasks
      BY TasksTyped
    <2>2. uiQueue' = Append(uiQueue, Destroy) /\ mgr' = Swap("destroy", s)
      BY <1>2 DEF SwapTo
    <2>3. mgr' \in [pc : {"idle", "destroy", "show"}, next : GoodScreens]
          /\ mgr'.pc = "destroy"
      BY <2>2 DEF Swap
    <2>. QED BY <1>2, <2>1, <2>2, <2>3, QueuesTyped
  <1>. QED BY <1>1, <1>2 DEF Enter

LEMMA TakeShape ==
  ASSUME ScreenShape, NEW type, Take(type)
  PROVE  inbox' \in Seq(GoodRequests) /\ Head(inbox) \in GoodRequests /\ mgr.pc = "idle"
  BY QueuesTyped DEF Take

LEMMA RingingEndedShape ==
  ASSUME PlayerShape, ScreenShape, NEW over \in BOOLEAN, RingingEnded(over)
  PROVE  /\ resume' \in Places /\ thumbnail' \in BOOLEAN
         /\ jobs' \in Seq({"play", "forget"})
         /\ rolled' \in Films \union {NoFilm} /\ place' \in Places
  <1>1. CASE over
    <2>1. Nowhere \in Places
      BY Constants DEF Nowhere, Places
    <2>. QED BY <1>1, <2>1, JobsTyped DEF RingingEnded, ForgetPosition, PlayerShape
  <1>2. CASE ~over
    BY <1>2 DEF RingingEnded, PlayerShape, ScreenShape, memoryVars
  <1>. QED BY <1>1, <1>2

LEMMA ResolveMediaShape ==
  ASSUME PlayerShape, ScreenShape, NEW path \in Films \union {NoFilm}, NEW next,
         ResolveMedia(path, next)
  PROVE  rolled' \in Films \union {NoFilm} /\ faults' \in 0 .. MaxFaults
  <1>1. Fail \/ Succeed
    BY DEF ResolveMedia, Drawn
  <1>. QED BY <1>1, FailShape DEF ResolveMedia, ScreenShape

LEMMA ManagerRunsShape ==
  ASSUME PlayerShape, ScreenShape, ManagerRuns
  PROVE  /\ PlayerShape' /\ ScreenShape' /\ screen' = screen
         /\ \/ UNCHANGED <<uiQueue, mgr>>
            \/ /\ uiQueue' = Append(uiQueue, Destroy)
               /\ mgr.pc = "idle" /\ mgr'.pc = "destroy"
            \/ PostShow
  <1> USE DEF managerVars, worldVars, historyVars, jobVars, requestVars, memoryVars, panelVars
  <1>1. CASE ApplyAlarm
    <2>1. PICK path \in Films \union {NoFilm}, next \in BOOLEAN :
             /\ ResolveMedia(path, next)
             /\ Enter("ALARM_RINGING", Screen("alarm", path, next, "none"))
      BY <1>1 DEF ApplyAlarm
    <2>2. Screen("alarm", path, next, "none") \in GoodScreens
      BY SomeScreens
    <2>3. rolled' \in Films \union {NoFilm} /\ faults' \in 0 .. MaxFaults
      BY <2>1, ResolveMediaShape
    <2>4. inbox' \in Seq(GoodRequests) /\ mgr.pc = "idle"
      BY <1>1, TakeShape DEF ApplyAlarm
    <2>5. PlayerShape'
      BY <1>1, <2>3 DEF ApplyAlarm, PlayerShape
    <2>6. /\ uiQueue' \in Seq(GoodTasks)
          /\ state' \in {"TIME", "MEDIA_PLAYBACK", "ALARM_RINGING"}
          /\ mgr' \in [pc : {"idle", "destroy", "show"}, next : GoodScreens]
          /\ \/ UNCHANGED <<uiQueue, mgr>>
             \/ uiQueue' = Append(uiQueue, Destroy) /\ mgr'.pc = "destroy"
      BY <2>1, <2>2, EnterShape
    <2>7. ScreenShape'
      BY <1>1, <2>3, <2>4, <2>6 DEF ApplyAlarm, ScreenShape
    <2>. QED BY <1>1, <2>4, <2>5, <2>6, <2>7 DEF ApplyAlarm
  <1>2. CASE ApplySnooze
    <2>1. inbox' \in Seq(GoodRequests) /\ mgr.pc = "idle"
      BY <1>2, TakeShape DEF ApplySnooze
    <2>2. PlayerShape'
      BY <1>2 DEF ApplySnooze, PlayerShape
    <2>3. /\ uiQueue' \in Seq(GoodTasks)
          /\ state' \in {"TIME", "MEDIA_PLAYBACK", "ALARM_RINGING"}
          /\ mgr' \in [pc : {"idle", "destroy", "show"}, next : GoodScreens]
          /\ \/ UNCHANGED <<uiQueue, mgr>>
             \/ uiQueue' = Append(uiQueue, Destroy) /\ mgr'.pc = "destroy"
      BY <1>2, SomeScreens, EnterShape DEF ApplySnooze
    <2>4. snoozed' \in BOOLEAN /\ ringing' \in BOOLEAN
      BY <1>2 DEF ApplySnooze, ScreenShape
    <2>5. ScreenShape'
      BY <1>2, <2>1, <2>3, <2>4 DEF ApplySnooze, ScreenShape
    <2>. QED BY <1>2, <2>1, <2>2, <2>3, <2>5 DEF ApplySnooze
  <1>3. CASE ApplyStop
    <2>1. inbox' \in Seq(GoodRequests) /\ mgr.pc = "idle"
      BY <1>3, TakeShape DEF ApplyStop
    <2>2. /\ resume' \in Places /\ thumbnail' \in BOOLEAN
          /\ jobs' \in Seq({"play", "forget"})
          /\ rolled' \in Films \union {NoFilm} /\ place' \in Places
      <3>1. ringing \in BOOLEAN /\ RingingEnded(ringing)
        BY <1>3 DEF ApplyStop, ScreenShape
      <3>. QED BY <3>1, RingingEndedShape
    <2>3. PlayerShape'
      BY <1>3, <2>2 DEF ApplyStop, PlayerShape
    <2>4. /\ uiQueue' \in Seq(GoodTasks)
          /\ state' \in {"TIME", "MEDIA_PLAYBACK", "ALARM_RINGING"}
          /\ mgr' \in [pc : {"idle", "destroy", "show"}, next : GoodScreens]
          /\ \/ UNCHANGED <<uiQueue, mgr>>
             \/ uiQueue' = Append(uiQueue, Destroy) /\ mgr'.pc = "destroy"
      BY <1>3, SomeScreens, EnterShape DEF ApplyStop
    <2>5. ScreenShape'
      BY <1>3, <2>1, <2>2, <2>4 DEF ApplyStop, ScreenShape
    <2>. QED BY <1>3, <2>1, <2>3, <2>4, <2>5 DEF ApplyStop
  <1>4. CASE IgnoreHour
    <2>1. inbox' \in Seq(GoodRequests)
      BY <1>4, TakeShape DEF IgnoreHour
    <2>2. PlayerShape'
      BY <1>4 DEF IgnoreHour, PlayerShape, playerVars
    <2>3. ScreenShape'
      BY <1>4, <2>1 DEF IgnoreHour, ScreenShape, playerVars
    <2>. QED BY <1>4, <2>2, <2>3 DEF IgnoreHour, playerVars
  <1>5. CASE ApplyCancelSnooze
    <2>1. inbox' \in Seq(GoodRequests)
      BY <1>5, TakeShape DEF ApplyCancelSnooze
    <2>2. /\ resume' \in Places /\ thumbnail' \in BOOLEAN
          /\ jobs' \in Seq({"play", "forget"})
          /\ rolled' \in Films \union {NoFilm} /\ place' \in Places
      <3>1. snoozed \in BOOLEAN /\ RingingEnded(snoozed)
        BY <1>5 DEF ApplyCancelSnooze, ScreenShape
      <3>. QED BY <3>1, RingingEndedShape
    <2>3. PlayerShape'
      BY <1>5, <2>2 DEF ApplyCancelSnooze, PlayerShape
    <2>4. ScreenShape'
      BY <1>5, <2>1, <2>2 DEF ApplyCancelSnooze, ScreenShape
    <2>. QED BY <1>5, <2>3, <2>4 DEF ApplyCancelSnooze
  <1>6. CASE ApplyMove
    <2>1. inbox' \in Seq(GoodRequests) /\ mgr.pc = "idle"
      BY <1>6, TakeShape DEF ApplyMove
    <2>2. PlayerShape'
      BY <1>6 DEF ApplyMove, PlayerShape
    <2>3. /\ uiQueue' \in Seq(GoodTasks)
          /\ state' \in {"TIME", "MEDIA_PLAYBACK", "ALARM_RINGING"}
          /\ mgr' \in [pc : {"idle", "destroy", "show"}, next : GoodScreens]
          /\ \/ UNCHANGED <<uiQueue, mgr>>
             \/ uiQueue' = Append(uiQueue, Destroy) /\ mgr'.pc = "destroy"
      <3>1. CASE Enter("MEDIA_PLAYBACK", ListScreen)
        BY <3>1, SomeScreens, EnterShape
      <3>2. CASE Enter("TIME", TimeScreen)
        BY <3>2, SomeScreens, EnterShape
      <3>. QED BY <1>6, <3>1, <3>2 DEF ApplyMove
    <2>4. ScreenShape'
      BY <1>6, <2>1, <2>3 DEF ApplyMove, ScreenShape
    <2>. QED BY <1>6, <2>1, <2>2, <2>3, <2>4 DEF ApplyMove
  <1>7. CASE ApplyScreen
    <2>1. inbox' \in Seq(GoodRequests) /\ mgr.pc = "idle" /\ Head(inbox) \in GoodRequests
      BY <1>7, TakeShape DEF ApplyScreen
    <2>2. Head(inbox).screen \in GoodScreens
      BY <1>7, <2>1, RequestsTyped DEF ApplyScreen, Take
    <2>3. PlayerShape'
      BY <1>7 DEF ApplyScreen, PlayerShape
    <2>4. uiQueue' = Append(uiQueue, Destroy) /\ mgr' = Swap("destroy", Head(inbox).screen)
      BY <1>7 DEF ApplyScreen, SwapTo
    <2>5. /\ mgr' \in [pc : {"idle", "destroy", "show"}, next : GoodScreens]
          /\ mgr'.pc = "destroy"
      BY <2>2, <2>4 DEF Swap
    <2>6. uiQueue' \in Seq(GoodTasks)
      <3>1. Destroy \in GoodTasks
        BY TasksTyped
      <3>. QED BY <2>4, <3>1, QueuesTyped
    <2>7. ScreenShape'
      BY <1>7, <2>1, <2>5, <2>6 DEF ApplyScreen, ScreenShape
    <2>. QED BY <1>7, <2>1, <2>3, <2>4, <2>5, <2>7 DEF ApplyScreen
  <1>8. CASE PostShow
    <2>1. PlayerShape'
      BY <1>8 DEF PostShow, PlayerShape
    <2>2. mgr.next \in GoodScreens
      BY DEF ScreenShape
    <2>3. Show(mgr.next) \in GoodTasks
      BY <2>2, TasksTyped
    <2>4. uiQueue' \in Seq(GoodTasks)
      BY <1>8, <2>3, QueuesTyped DEF PostShow
    <2>5. mgr' \in [pc : {"idle", "destroy", "show"}, next : GoodScreens]
      BY <1>8, SomeScreens DEF PostShow, NoSwap, Swap
    <2>6. ScreenShape'
      BY <1>8, <2>4, <2>5 DEF PostShow, ScreenShape
    <2>. QED BY <1>8, <2>1, <2>6 DEF PostShow
  <1>. QED BY <1>1, <1>2, <1>3, <1>4, <1>5, <1>6, <1>7, <1>8 DEF ManagerRuns

(***************************************************************************)
(* The Timer, the display's poll and what runs out.                        *)
(***************************************************************************)
ClocksRun ==
    \/ TimerRings \/ DisplayPolls \/ PatienceIsLost
    \/ ScreenTimeRunsOut \/ PlayerTimeRunsOut

LEMMA ClocksRunShape ==
  ASSUME PlayerShape, ScreenShape, ClocksRun
  PROVE  /\ PlayerShape' /\ ScreenShape' /\ screen'.kind = screen.kind
         /\ UNCHANGED <<uiQueue, mgr, finger, playing, halt, jobs, resume, place>>
  <1> USE DEF managerVars, worldVars, historyVars, requestVars, memoryVars
  <1>1. CASE TimerRings
    <2>1. inbox' \in Seq(GoodRequests)
      BY <1>1, QueuesTyped, RequestsTyped DEF TimerRings
    <2>2. rings' \in 0 .. MaxRings
      BY <1>1, Constants DEF TimerRings, ScreenShape
    <2>3. PlayerShape'
      BY <1>1 DEF TimerRings, playerVars, panelVars, PlayerShape
    <2>. QED BY <1>1, <2>1, <2>2, <2>3 DEF TimerRings, playerVars, ScreenShape
  <1>2. CASE DisplayPolls
    <2>1. PlayerShape'
      BY <1>2 DEF DisplayPolls, PollTouch, PlayerShape
    <2>2. seen' \in BOOLEAN
      BY <1>2 DEF DisplayPolls, ScreenShape, PlayerShape
    <2>. QED BY <1>2, <2>1, <2>2 DEF DisplayPolls, PollTouch, ScreenShape
  <1>3. CASE PatienceIsLost
    <2>1. PlayerShape'
      BY <1>3 DEF PatienceIsLost, PatienceEnds, PlayerShape
    <2>. QED BY <1>3, <2>1 DEF PatienceIsLost, PatienceEnds, ScreenShape
  <1>4. CASE ScreenTimeRunsOut
    <2>1. screen' \in GoodScreens /\ screen'.kind = screen.kind
      BY <1>4, ScreenFields DEF ScreenTimeRunsOut, ScreenShape
    <2>2. PlayerShape'
      BY <1>4 DEF ScreenTimeRunsOut, playerVars, panelVars, PlayerShape
    <2>. QED BY <1>4, <2>1, <2>2 DEF ScreenTimeRunsOut, playerVars, ScreenShape
  <1>5. CASE PlayerTimeRunsOut
    <2>1. screen' \in GoodScreens /\ screen'.kind = screen.kind
      BY <1>5, ScreenFields DEF PlayerTimeRunsOut, ScreenShape
    <2>2. PlayerShape'
      BY <1>5 DEF PlayerTimeRunsOut, panelVars, PlayerShape
    <2>. QED BY <1>5, <2>1, <2>2 DEF PlayerTimeRunsOut, ScreenShape
  <1>. QED BY <1>1, <1>2, <1>3, <1>4, <1>5 DEF ClocksRun

(***************************************************************************)
(* One swap of screens at a time, and in its order: what is posted to be   *)
(* shown finds no screen there, is alone, and comes before the next        *)
(* destruction, which the manager waits for.                               *)
(***************************************************************************)
IsTask(i, task) == i \in DOMAIN uiQueue /\ uiQueue[i].task = task

OneSwap ==
    /\ \A i : IsTask(i, "destroy") => mgr.pc = "destroy"
    /\ \A i, j : IsTask(i, "destroy") /\ IsTask(j, "destroy") => i = j
    /\ \A i : IsTask(i, "show") => screen.kind = "none" /\ mgr.pc # "show"
    /\ \A i, j : IsTask(i, "show") /\ IsTask(j, "show") => i = j
    /\ \A i, j : IsTask(i, "show") /\ IsTask(j, "destroy") => i < j
    /\ mgr.pc = "show" => screen.kind = "none"

LEMMA QueueAppends ==
  ASSUME ScreenShape, NEW task, uiQueue' = Append(uiQueue, task)
  PROVE  \A i, kind : IsTask(i, kind)' <=>
            \/ IsTask(i, kind)
            \/ i = Len(uiQueue) + 1 /\ task.task = kind
  <1> SUFFICES ASSUME NEW i, NEW kind
               PROVE  IsTask(i, kind)' <=> \/ IsTask(i, kind)
                                           \/ i = Len(uiQueue) + 1 /\ task.task = kind
    OBVIOUS
  <1>1. uiQueue \in Seq(GoodTasks \union {task})
    BY DEF ScreenShape
  <1>2. /\ Len(uiQueue') = Len(uiQueue) + 1 /\ DOMAIN uiQueue' = 1 .. Len(uiQueue) + 1
        /\ \A k \in 1 .. Len(uiQueue) : uiQueue'[k] = uiQueue[k]
        /\ uiQueue'[Len(uiQueue) + 1] = task
        /\ DOMAIN uiQueue = 1 .. Len(uiQueue) /\ Len(uiQueue) \in Nat
    BY <1>1, AppendProperties
  <1>. QED BY <1>2 DEF IsTask

LEMMA QueueAdvances ==
  ASSUME ScreenShape, uiQueue # <<>>, uiQueue' = Tail(uiQueue)
  PROVE  /\ \A i, kind : IsTask(i, kind)' <=> i \in Nat \ {0} /\ IsTask(i + 1, kind)
         /\ \A kind : Head(uiQueue).task = kind <=> IsTask(1, kind)
         /\ \A i, kind : IsTask(i, kind) => i \in Nat \ {0}
  <1>1. /\ Len(uiQueue) \in Nat \ {0} /\ DOMAIN uiQueue = 1 .. Len(uiQueue)
        /\ DOMAIN uiQueue' = 1 .. Len(uiQueue) - 1
        /\ \A k \in 1 .. Len(uiQueue) - 1 : uiQueue'[k] = uiQueue[k + 1]
        /\ Head(uiQueue) = uiQueue[1]
    <2>1. uiQueue \in Seq(GoodTasks)
      BY DEF ScreenShape
    <2>2. uiQueue' \in Seq(GoodTasks) /\ Len(uiQueue') = Len(uiQueue) - 1
          /\ \A k \in 1 .. Len(uiQueue') : uiQueue'[k] = uiQueue[k + 1]
      BY <2>1, HeadTailProperties
    <2>. QED BY <2>1, <2>2, LenProperties, HeadTailProperties
  <1>2. ASSUME NEW i, NEW kind
        PROVE  IsTask(i, kind)' <=> i \in Nat \ {0} /\ IsTask(i + 1, kind)
    BY <1>1 DEF IsTask
  <1>3. \A kind : Head(uiQueue).task = kind <=> IsTask(1, kind)
    BY <1>1 DEF IsTask
  <1>4. \A i, kind : IsTask(i, kind) => i \in Nat \ {0}
    BY <1>1 DEF IsTask
  <1>. QED BY <1>2, <1>3, <1>4

LEMMA SwapStays ==
  ASSUME OneSwap, UNCHANGED <<uiQueue, mgr>>, screen'.kind = screen.kind
  PROVE  OneSwap'
  BY DEF OneSwap, IsTask

LEMMA SwapUnderReport ==
  ASSUME OneSwap, ScreenShape, NEW task, task.task \notin {"show", "destroy"},
         uiQueue' = Append(uiQueue, task), mgr' = mgr, screen'.kind = screen.kind
  PROVE  OneSwap'
  <1>1. \A i : \A kind \in {"show", "destroy"} : IsTask(i, kind)' <=> IsTask(i, kind)
    BY QueueAppends
  <1>. QED BY <1>1 DEF OneSwap

LEMMA SwapUnderTask ==
  ASSUME OneSwap, ScreenShape, uiQueue # <<>>, uiQueue' = Tail(uiQueue),
         mgr' = mgr, screen'.kind = screen.kind
  PROVE  OneSwap'
  <1>1. \A i, kind : IsTask(i, kind)' <=> i \in Nat \ {0} /\ IsTask(i + 1, kind)
    BY QueueAdvances
  <1>2. \A i, j : IsTask(i, "destroy")' /\ IsTask(j, "destroy")' => i = j
    BY <1>1 DEF OneSwap
  <1>3. \A i, j : IsTask(i, "show")' /\ IsTask(j, "show")' => i = j
    BY <1>1 DEF OneSwap
  <1>4. ASSUME NEW i, NEW j, IsTask(i, "show")', IsTask(j, "destroy")' PROVE i < j
    <2>1. i \in Nat /\ j \in Nat /\ IsTask(i + 1, "show") /\ IsTask(j + 1, "destroy")
      BY <1>1, <1>4
    <2>2. i + 1 < j + 1
      BY <2>1 DEF OneSwap
    <2>. QED BY <2>1, <2>2
  <1>. QED BY <1>1, <1>2, <1>3, <1>4 DEF OneSwap

LEMMA SwapBegins ==
  ASSUME OneSwap, ScreenShape, uiQueue' = Append(uiQueue, Destroy),
         mgr.pc = "idle", mgr'.pc = "destroy", screen' = screen
  PROVE  OneSwap'
  <1>1. \A i, kind : IsTask(i, kind)' <=> \/ IsTask(i, kind)
                                          \/ i = Len(uiQueue) + 1 /\ Destroy.task = kind
    BY QueueAppends
  <1>2. \A i : ~IsTask(i, "destroy")
    BY DEF OneSwap
  <1>3. Destroy.task = "destroy"
    BY DEF Destroy
  <1>4. \A i, kind : IsTask(i, kind) => i \in 1 .. Len(uiQueue)
    BY DEF IsTask, ScreenShape
  <1>5. Len(uiQueue) \in Nat
    BY DEF ScreenShape
  <1>. QED BY <1>1, <1>2, <1>3, <1>4, <1>5 DEF OneSwap

LEMMA SwapDestroys ==
  ASSUME OneSwap, ScreenShape, HandleDestroy
  PROVE  OneSwap'
  <1>1. /\ \A i, kind : IsTask(i, kind)' <=> i \in Nat \ {0} /\ IsTask(i + 1, kind)
        /\ IsTask(1, "destroy")
        /\ \A i, kind : IsTask(i, kind) => i \in Nat \ {0}
    BY QueueAdvances DEF HandleDestroy, UiTask
  <1>2. \A i : ~IsTask(i, "destroy")'
    BY <1>1 DEF OneSwap
  <1>3. ASSUME NEW i, IsTask(i, "show")' PROVE FALSE
    <2>1. i \in Nat \ {0} /\ IsTask(i + 1, "show")
      BY <1>1, <1>3
    <2>2. i + 1 < 1
      BY <1>1, <2>1 DEF OneSwap
    <2>. QED BY <2>1, <2>2
  <1>4. screen'.kind = "none"
    BY DEF HandleDestroy, NoScreen, Screen
  <1>. QED BY <1>2, <1>3, <1>4 DEF OneSwap

LEMMA SwapShows ==
  ASSUME OneSwap, ScreenShape, HandleShow
  PROVE  OneSwap'
  <1>1. /\ \A i, kind : IsTask(i, kind)' <=> i \in Nat \ {0} /\ IsTask(i + 1, kind)
        /\ IsTask(1, "show")
    BY QueueAdvances DEF HandleShow, UiTask
  <1>2. \A i : ~IsTask(i, "show")'
    BY <1>1 DEF OneSwap
  <1>3. \A i, j : IsTask(i, "destroy")' /\ IsTask(j, "destroy")' => i = j
    BY <1>1 DEF OneSwap
  <1>4. mgr' = mgr /\ mgr.pc # "show"
    BY <1>1 DEF HandleShow, managerVars, OneSwap
  <1>. QED BY <1>1, <1>2, <1>3, <1>4 DEF OneSwap

LEMMA SwapPosts ==
  ASSUME OneSwap, ScreenShape, PostShow
  PROVE  OneSwap'
  <1>1. \A i, kind : IsTask(i, kind)' <=> \/ IsTask(i, kind)
                                          \/ i = Len(uiQueue) + 1 /\ Show(mgr.next).task = kind
    BY QueueAppends DEF PostShow
  <1>2. \A i : ~IsTask(i, "destroy") /\ ~IsTask(i, "show")
    BY DEF OneSwap, PostShow
  <1>3. Show(mgr.next).task = "show"
    BY DEF Show
  <1>4. mgr'.pc = "idle" /\ screen' = screen /\ screen.kind = "none"
    BY DEF PostShow, NoSwap, Swap, OneSwap
  <1>. QED BY <1>1, <1>2, <1>3, <1>4 DEF OneSwap

(***************************************************************************)
(* The inductive invariant: besides the types and the order of a swap, a   *)
(* finger the player has seen is still held and still on the glass, and    *)
(* the player remembers the place where the alarm's film stopped, unless   *)
(* it has been told to forget it and has not come to that yet.             *)
(***************************************************************************)
SeenIsHeld == seen => Holds /\ touchDown /\ finger

PlaceIsKnown ==
    /\ ForgetWaits => place = Nowhere
    /\ ~ForgetWaits => resume = place

IInv ==
    /\ PlayerShape /\ ScreenShape
    /\ OneSwap /\ SoundHasScreen /\ SeenIsHeld /\ PlaceIsKnown

LEMMA InitHolds == Init => IInv
  <1> SUFFICES ASSUME Init PROVE IInv
    OBVIOUS
  <1>1. PlayerShape /\ ScreenShape
    BY InitShape
  <1>2. uiQueue = <<>> /\ mgr.pc = "idle"
    BY DEF Init, InitBooted, InitSnoozed, InitFilm, PlayerInit, NoSwap, Swap
  <1>3. OneSwap
    BY <1>2 DEF OneSwap, IsTask
  <1>4. SoundHasScreen
    BY DEF Init, InitBooted, InitSnoozed, InitFilm, PlayerInit, SoundHasScreen, IsVideo, Screen
  <1>5. SeenIsHeld
    BY DEF Init, SeenIsHeld
  <1>6. ~ForgetWaits /\ resume = place
    BY DEF Init, InitBooted, InitSnoozed, InitFilm, PlayerInit, ForgetWaits
  <1>. QED BY <1>1, <1>3, <1>4, <1>5, <1>6 DEF IInv, PlaceIsKnown

(* Where a request to forget is, when the player's queue moves.            *)
LEMMA ForgetMoves ==
  ASSUME PlayerShape
  PROVE  /\ jobs' = Append(jobs, "play") => (ForgetWaits' <=> ForgetWaits)
         /\ jobs' = Append(jobs, "forget") => ForgetWaits'
         /\ jobs # <<>> /\ jobs' = Tail(jobs) /\ Head(jobs) = "play"
              => (ForgetWaits' <=> ForgetWaits)
         /\ jobs # <<>> /\ Head(jobs) = "forget" => ForgetWaits
         /\ jobs' = jobs => (ForgetWaits' <=> ForgetWaits)
  <1>0. jobs \in Seq({"play", "forget"}) /\ Len(jobs) \in Nat /\ DOMAIN jobs = 1 .. Len(jobs)
    BY LenProperties DEF PlayerShape
  <1>1. ASSUME NEW kind \in {"play", "forget"}, jobs' = Append(jobs, kind)
        PROVE  ForgetWaits' <=> ForgetWaits \/ kind = "forget"
    <2>1. /\ DOMAIN jobs' = 1 .. Len(jobs) + 1 /\ jobs'[Len(jobs) + 1] = kind
          /\ \A i \in 1 .. Len(jobs) : jobs'[i] = jobs[i]
      BY <1>0, <1>1, AppendProperties
    <2>. QED BY <1>0, <2>1 DEF ForgetWaits
  <1>2. ASSUME jobs # <<>>, jobs' = Tail(jobs), Head(jobs) = "play"
        PROVE  ForgetWaits' <=> ForgetWaits
    <2>1. /\ Len(jobs) \in Nat \ {0} /\ DOMAIN jobs' = 1 .. Len(jobs) - 1 /\ Head(jobs) = jobs[1]
          /\ \A i \in 1 .. Len(jobs) - 1 : jobs'[i] = jobs[i + 1]
      <3>1. jobs' \in Seq({"play", "forget"}) /\ Len(jobs') = Len(jobs) - 1
            /\ \A i \in 1 .. Len(jobs') : jobs'[i] = jobs[i + 1]
        BY <1>0, <1>2, HeadTailProperties
      <3>. QED BY <1>0, <1>2, <3>1, LenProperties, HeadTailProperties
    <2>2. ASSUME ForgetWaits' PROVE ForgetWaits
      <3>1. PICK i \in 1 .. Len(jobs) - 1 : jobs[i + 1] = "forget"
        BY <2>1, <2>2 DEF ForgetWaits
      <3>2. i + 1 \in DOMAIN jobs
        BY <1>0, <3>1
      <3>. QED BY <3>1, <3>2 DEF ForgetWaits
    <2>3. ASSUME ForgetWaits PROVE ForgetWaits'
      <3>1. PICK i \in DOMAIN jobs : jobs[i] = "forget"
        BY <2>3 DEF ForgetWaits
      <3>2. i # 1
        BY <1>2, <2>1, <3>1
      <3>3. i - 1 \in 1 .. Len(jobs) - 1 /\ (i - 1) + 1 = i
        BY <1>0, <3>1, <3>2
      <3>. QED BY <2>1, <3>1, <3>3 DEF ForgetWaits
    <2>. QED BY <2>2, <2>3
  <1>3. jobs # <<>> /\ Head(jobs) = "forget" => ForgetWaits
    BY <1>0, HeadTailProperties, EmptySeq DEF ForgetWaits
  <1>4. jobs' = jobs => (ForgetWaits' <=> ForgetWaits)
    BY DEF ForgetWaits
  <1>. QED BY <1>1, <1>2, <1>3, <1>4

LEMMA PlaceStays ==
  ASSUME PlaceIsKnown, PlayerShape, place' = place, resume' = resume,
         jobs' = jobs \/ jobs' = Append(jobs, "play")
  PROVE  PlaceIsKnown'
  BY ForgetMoves DEF PlaceIsKnown

LEMMA PlaceIsForgotten ==
  ASSUME PlayerShape, place' = Nowhere, ForgetPosition
  PROVE  PlaceIsKnown'
  BY ForgetMoves DEF PlaceIsKnown, ForgetPosition, Nowhere

(* Asking the player for a film.                                           *)
LEMMA Starts ==
  ASSUME NEW s \in GoodScreens, IsVideo(s), Start(s)
  PROVE  IsVideo(screen') /\ (jobs' = jobs \/ jobs' = Append(jobs, "play"))
  <1>1. CASE playing
    BY <1>1, ScreenFields DEF Start, IsVideo
  <1>2. CASE ~playing
    BY <1>2 DEF Start, Play
  <1>. QED BY <1>1, <1>2

LEMMA PlaysNext ==
  ASSUME ScreenShape, IsVideo(screen), PlayNext
  PROVE  IsVideo(screen') /\ (jobs' = jobs \/ jobs' = Append(jobs, "play"))
  <1>1. PICK film \in Draw(screen.path) :
           Start(IF film = NoFilm THEN screen ELSE [screen EXCEPT !.path = film])
    BY DEF PlayNext
  <1> DEFINE s == IF film = NoFilm THEN screen ELSE [screen EXCEPT !.path = film]
  <1>2. film \in Films \union {NoFilm}
    BY DrawIsFilm
  <1>3. s \in GoodScreens /\ IsVideo(s)
    BY <1>2, ScreenFields DEF ScreenShape, IsVideo
  <1>4. Start(s)
    BY <1>1
  <1> HIDE DEF s
  <1>. QED BY <1>3, <1>4, Starts

LEMMA PlayerKeeps ==
  ASSUME PlayerShape, PlayerStep
  PROVE  /\ halt' = halt /\ finger' = finger /\ (playing' => playing)
         /\ Holds /\ touchDown => touchDown' /\ (Holds' \/ patience = "over")
  <1> USE DEF requestVars, jobStep
  <1>1. CASE Turn
    BY <1>1 DEF Turn, SyncAndPoll, SyncPanel, Borrows, GivesBack, Waits, panelVars, Holds, PlayerShape
  <1>2. CASE Close
    BY <1>2 DEF Close, SyncPanel, ForgetTouches, Borrows, GivesBack, Waits, Holds, PlayerShape
  <1>3. CASE After
    <2>1. CASE job.failed /\ request.tone /\ ~halt
      <3>1. SyncPanel(FALSE) /\ ForgetTouches(FALSE)
        BY <1>3, <2>1 DEF After
      <3>2. Holds /\ touchDown => touchDown' /\ (Holds' \/ patience = "over")
        BY <3>1 DEF SyncPanel, ForgetTouches, Borrows, GivesBack, Waits, Holds, PlayerShape
      <3>. QED BY <1>3, <3>2 DEF After
    <2>2. CASE ~(job.failed /\ request.tone /\ ~halt)
      <3>1. UNCHANGED panelVars
        BY <1>3, <2>2 DEF After
      <3>. QED BY <1>3, <3>1 DEF After, Holds, panelVars
    <2>. QED BY <2>1, <2>2
  <1>4. CASE ~Turn /\ ~Close /\ ~After
    <2>1. halt' = halt /\ finger' = finger /\ (playing' => playing)
      <3>1. CASE Finish
        BY <3>1 DEF Finish
      <3>2. CASE Forget \/ Begin
        BY <3>2 DEF Forget, Begin
      <3>3. CASE Loop \/ Frame \/ EndOfFile
        BY <3>3 DEF Loop, Frame, EndOfFile
      <3>4. CASE ChunkFails \/ Ended \/ ToneEnds \/ Report
        <4>1. UNCHANGED <<halt, finger, playing>>
          BY <3>4 DEF ChunkFails, Ended, ToneEnds, Report
        <4>. QED BY <4>1
      <3>. QED BY <1>4, <3>1, <3>2, <3>3, <3>4 DEF PlayerStep
    <2>2. UNCHANGED panelVars
      <3>1. CASE Forget \/ Begin \/ Loop \/ Frame \/ EndOfFile
        BY <3>1 DEF Forget, Begin, Loop, Frame, EndOfFile
      <3>2. CASE ChunkFails \/ Ended \/ ToneEnds \/ Finish \/ Report
        BY <3>2 DEF ChunkFails, Ended, ToneEnds, Finish, Report
      <3>. QED BY <1>4, <3>1, <3>2 DEF PlayerStep
    <2>. QED BY <2>1, <2>2 DEF panelVars, Holds
  <1>. QED BY <1>1, <1>2, <1>3, <1>4 DEF PlayerStep

(* What the job on the player's worker does to its queue and its memory.   *)
LEMMA PlayerRemembers ==
  ASSUME PlayerStep
  PROVE  \/ /\ At("idle") /\ jobs # <<>> /\ Head(jobs) = "forget" /\ resume' = Nowhere
         \/ /\ At("idle") /\ jobs # <<>> /\ Head(jobs) = "play" /\ jobs' = Tail(jobs)
            /\ resume' = resume
         \/ /\ At("close") /\ jobs' = jobs
            /\ resume' = IF request.remember
                           THEN [path |-> request.path, cursor |-> job.cursor] ELSE resume
         \/ ~At("close") /\ jobs' = jobs /\ resume' = resume
  <1> USE DEF requestVars, jobStep, memoryVars, At
  <1>1. CASE Forget \/ Begin
    BY <1>1 DEF Forget, Begin
  <1>2. CASE Close
    BY <1>2 DEF Close
  <1>3. CASE Loop \/ Turn \/ Frame \/ EndOfFile \/ ChunkFails
    BY <1>3 DEF Loop, Turn, Frame, EndOfFile, ChunkFails
  <1>4. CASE Ended \/ After \/ ToneEnds \/ Finish \/ Report
    BY <1>4 DEF Ended, After, ToneEnds, Finish, Report
  <1>. QED BY <1>1, <1>2, <1>3, <1>4 DEF PlayerStep

LEMMA PlayerRunsPreserves ==
  ASSUME IInv, PlayerRuns
  PROVE  IInv'
  <1> USE DEF IInv
  <1>1. PlayerStep /\ UNCHANGED screenVars
    BY DEF PlayerRuns
  <1>2. PlayerShape' /\ ScreenShape'
    BY PlayerRunsShape
  <1>3. mgr' = mgr /\ screen' = screen
    BY <1>1 DEF screenVars, managerVars
  <1>4. OneSwap'
    <2>1. Touch.task \notin {"show", "destroy"} /\ Done.task \notin {"show", "destroy"}
      BY TasksTyped
    <2>. QED BY <1>1, <1>3, <2>1, PlayerStepQueue, SwapStays, SwapUnderReport
  <1>5. SoundHasScreen'
    BY <1>1, <1>3, PlayerKeeps DEF SoundHasScreen
  <1>6. SeenIsHeld'
    <2>1. seen' = (seen /\ ~(Holds /\ ~Holds' /\ patience = "over"))
      BY DEF PlayerRuns
    <2>2. CASE seen'
      <3>1. seen /\ ~(Holds /\ ~Holds' /\ patience = "over")
        BY <2>1, <2>2 DEF ScreenShape
      <3>. QED BY <1>1, <3>1, PlayerKeeps DEF SeenIsHeld
    <2>. QED BY <2>2 DEF SeenIsHeld
  <1>7. PlaceIsKnown'
    <2>1. place' = IF At("close") /\ request.remember /\ ~ForgetWaits
                     THEN [path |-> request.path, cursor |-> job.cursor] ELSE place
      BY DEF PlayerRuns
    <2>2. CASE At("idle") /\ jobs # <<>> /\ Head(jobs) = "forget" /\ resume' = Nowhere
      <3>1. place = Nowhere
        BY <2>2, ForgetMoves DEF PlaceIsKnown
      <3>2. place' = place
        BY <2>1, <2>2 DEF At
      <3>. QED BY <2>2, <3>1, <3>2 DEF PlaceIsKnown, Nowhere
    <2>3. CASE /\ At("idle") /\ jobs # <<>> /\ Head(jobs) = "play" /\ jobs' = Tail(jobs)
               /\ resume' = resume
      <3>1. place' = place
        BY <2>1, <2>3 DEF At
      <3>. QED BY <2>3, <3>1, ForgetMoves DEF PlaceIsKnown, Nowhere
    <2>4. CASE /\ At("close") /\ jobs' = jobs
               /\ resume' = IF request.remember
                              THEN [path |-> request.path, cursor |-> job.cursor] ELSE resume
      <3>1. ForgetWaits' <=> ForgetWaits
        BY <2>4, ForgetMoves
      <3>. QED BY <2>1, <2>4, <3>1 DEF PlaceIsKnown, Nowhere
    <2>5. CASE ~At("close") /\ jobs' = jobs /\ resume' = resume
      BY <2>1, <2>5, PlaceStays
    <2>. QED BY <1>1, <2>2, <2>3, <2>4, <2>5, PlayerRemembers
  <1>. QED BY <1>2, <1>4, <1>5, <1>6, <1>7

LEMMA ClocksRunPreserves ==
  ASSUME IInv, ClocksRun
  PROVE  IInv'
  <1> USE DEF IInv
  <1>1. /\ PlayerShape' /\ ScreenShape' /\ screen'.kind = screen.kind
        /\ UNCHANGED <<uiQueue, mgr, finger, playing, halt, jobs, resume, place>>
    BY ClocksRunShape
  <1>2. OneSwap'
    BY <1>1, SwapStays
  <1>3. SoundHasScreen'
    BY <1>1 DEF SoundHasScreen, IsVideo
  <1>4. SeenIsHeld'
    BY DEF ClocksRun, TimerRings, DisplayPolls, PollTouch, PatienceIsLost, PatienceEnds,
           ScreenTimeRunsOut, PlayerTimeRunsOut, SeenIsHeld, Holds, ScreenShape, PlayerShape,
           playerVars, panelVars, historyVars
  <1>5. PlaceIsKnown'
    BY <1>1, PlaceStays
  <1>. QED BY <1>1, <1>2, <1>3, <1>4, <1>5

LEMMA ManagerRunsPreserves ==
  ASSUME IInv, ManagerRuns
  PROVE  IInv'
  <1> USE DEF IInv
  <1>1. /\ PlayerShape' /\ ScreenShape' /\ screen' = screen
        /\ \/ UNCHANGED <<uiQueue, mgr>>
           \/ /\ uiQueue' = Append(uiQueue, Destroy)
              /\ mgr.pc = "idle" /\ mgr'.pc = "destroy"
           \/ PostShow
    BY ManagerRunsShape
  <1>2. OneSwap'
    BY <1>1, SwapStays, SwapBegins, SwapPosts
  <1>3. UNCHANGED <<playing, halt, panel, touchDown, finger, seen>>
    <2> USE DEF requestVars, jobVars, panelVars, historyVars, playerVars
    <2>1. CASE ApplyAlarm \/ ApplySnooze \/ ApplyStop \/ IgnoreHour
      BY <2>1 DEF ApplyAlarm, ApplySnooze, ApplyStop, IgnoreHour
    <2>2. CASE ApplyCancelSnooze \/ ApplyMove \/ ApplyScreen \/ PostShow
      BY <2>2 DEF ApplyCancelSnooze, ApplyMove, ApplyScreen, PostShow
    <2>. QED BY <2>1, <2>2 DEF ManagerRuns
  <1>4. SoundHasScreen'
    BY <1>1, <1>3 DEF SoundHasScreen
  <1>5. SeenIsHeld'
    BY <1>3 DEF SeenIsHeld, Holds
  <1>6. PlaceIsKnown'
    <2>1. CASE UNCHANGED <<memoryVars, jobs, place>>
      BY <2>1, PlaceStays DEF memoryVars
    <2>2. CASE place' = Nowhere /\ ForgetPosition
      BY <2>2, PlaceIsForgotten
    <2>3. CASE ApplyStop \/ ApplyCancelSnooze
      BY <2>1, <2>2, <2>3 DEF ApplyStop, ApplyCancelSnooze, RingingEnded
    <2>4. CASE ApplyAlarm \/ ApplySnooze \/ IgnoreHour
      BY <2>1, <2>4 DEF ApplyAlarm, ApplySnooze, IgnoreHour, playerVars, historyVars
    <2>5. CASE ApplyMove \/ ApplyScreen \/ PostShow
      BY <2>1, <2>5 DEF ApplyMove, ApplyScreen, PostShow, historyVars
    <2>. QED BY <2>3, <2>4, <2>5 DEF ManagerRuns
  <1>. QED BY <1>1, <1>2, <1>4, <1>5, <1>6

LEMMA UserActsPreserves ==
  ASSUME IInv, UserActs
  PROVE  IInv'
  <1> USE DEF IInv
  <1>1. /\ PlayerShape' /\ ScreenShape'
        /\ screen'.kind = screen.kind /\ uiQueue' = uiQueue /\ mgr' = mgr
    BY UserActsShape
  <1>2. OneSwap'
    BY <1>1, SwapStays
  <1>3. playing' = playing /\ (halt' = halt \/ halt' = TRUE) /\ ~seen'
    BY DEF UserActs, Press, Lift, ClickView, ClickSnooze, ClickStop, ClickOff, ClickFace,
           ClickList, ClickButton, Click, requestVars
  <1>4. SoundHasScreen'
    BY <1>1, <1>3 DEF SoundHasScreen, IsVideo
  <1>5. SeenIsHeld'
    BY <1>3 DEF SeenIsHeld
  <1>6. PlaceIsKnown'
    <2>1. CASE ClickOff
      BY <2>1, PlaceIsForgotten DEF ClickOff
    <2>2. CASE ~ClickOff
      <3>1. UNCHANGED <<memoryVars, jobs, place>>
        BY <2>2 DEF UserActs, Press, Lift, ClickView, ClickSnooze, ClickStop, ClickFace, ClickList
      <3>. QED BY <3>1, PlaceStays DEF memoryVars
    <2>. QED BY <2>1, <2>2
  <1>. QED BY <1>1, <1>2, <1>4, <1>5, <1>6

(* What the UiWorker does to the finger, to the place and to the sound.    *)
ScreenActs == UiRuns \/ GiveUp \/ Retry \/ ButtonsTimeOut

LEMMA ScreenActsShape ==
  ASSUME PlayerShape, ScreenShape, ScreenActs
  PROVE  PlayerShape' /\ ScreenShape'
  BY HandleTouchShape, HandleDoneShape, HandleDestroyShape, HandleShowShape, GiveUpShape,
     RetryShape, ButtonsTimeOutShape DEF ScreenActs, UiRuns

LEMMA ScreenActsSwap ==
  ASSUME PlayerShape, ScreenShape, OneSwap, ScreenActs
  PROVE  OneSwap'
  <1>1. CASE HandleTouch
    BY <1>1, HandleTouchShape, SwapUnderTask DEF HandleTouch, UiTask, managerVars
  <1>2. CASE HandleDone
    BY <1>2, HandleDoneShape, SwapUnderTask DEF HandleDone, UiTask
  <1>3. CASE HandleDestroy
    BY <1>3, SwapDestroys
  <1>4. CASE HandleShow
    BY <1>4, SwapShows
  <1>5. CASE GiveUp
    BY <1>5, GiveUpShape, SwapStays DEF GiveUp, managerVars, playerVars
  <1>6. CASE Retry
    BY <1>6, RetryShape, SwapStays DEF Retry, managerVars
  <1>7. CASE ButtonsTimeOut
    BY <1>7, ButtonsTimeOutShape, SwapStays DEF ButtonsTimeOut, managerVars
  <1>. QED BY <1>1, <1>2, <1>3, <1>4, <1>5, <1>6, <1>7 DEF ScreenActs, UiRuns

LEMMA ScreenActsSound ==
  ASSUME PlayerShape, ScreenShape, OneSwap, SoundHasScreen, ScreenActs
  PROVE  SoundHasScreen'
  <1> USE DEF SoundHasScreen, requestVars
  <1>1. CASE HandleTouch
    BY <1>1, HandleTouchShape DEF HandleTouch, IsVideo
  <1>2. CASE HandleDone
    <2>1. screen'.kind = screen.kind
      BY <1>2, HandleDoneShape
    <2>2. IsVideo(screen) \/ UNCHANGED <<playing, halt>>
      BY <1>2 DEF HandleDone
    <2>. QED BY <2>1, <2>2 DEF IsVideo
  <1>3. CASE HandleDestroy
    <2>1. halt' = (halt \/ IsVideo(screen)) /\ playing' = playing
      BY <1>3 DEF HandleDestroy
    <2>. QED BY <2>1 DEF PlayerShape
  <1>4. CASE HandleShow
    <2>1. screen'.kind = Head(uiQueue).screen.kind
      BY <1>4, HandleShowShape
    <2>2. CASE IsVideo(Head(uiQueue).screen)
      BY <2>1, <2>2 DEF IsVideo
    <2>3. CASE ~IsVideo(Head(uiQueue).screen)
      <3>1. playing' = playing /\ halt' = halt
        BY <1>4, <2>3 DEF HandleShow
      <3>2. IsTask(1, "show")
        BY <1>4, QueueAdvances DEF HandleShow, UiTask
      <3>3. ~IsVideo(screen)
        BY <3>2 DEF OneSwap, IsVideo
      <3>. QED BY <3>1, <3>3
    <2>. QED BY <2>2, <2>3
  <1>5. CASE GiveUp
    BY <1>5, GiveUpShape DEF GiveUp, playerVars, IsVideo
  <1>6. CASE Retry
    <2>1. IsVideo(screen) /\ screen'.kind = screen.kind
      BY <1>6, RetryShape DEF Retry, ScreenShape, GoodScreens
    <2>. QED BY <2>1 DEF IsVideo
  <1>7. CASE ButtonsTimeOut
    BY <1>7, ButtonsTimeOutShape DEF ButtonsTimeOut, IsVideo
  <1>. QED BY <1>1, <1>2, <1>3, <1>4, <1>5, <1>6, <1>7 DEF ScreenActs, UiRuns

LEMMA ScreenActsLeave ==
  ASSUME ScreenShape, ScreenActs
  PROVE  /\ UNCHANGED <<panel, touchDown, finger, seen, resume, place>>
         /\ jobs' = jobs \/ jobs' = Append(jobs, "play")
  <1> USE DEF jobVars, panelVars, memoryVars, historyVars
  <1>1. CASE HandleTouch \/ HandleDestroy \/ GiveUp \/ Retry \/ ButtonsTimeOut
    BY <1>1 DEF HandleTouch, HandleDestroy, GiveUp, Retry, Play, ButtonsTimeOut, playerVars
  <1>2. CASE HandleDone
    <2>1. jobs' = jobs \/ (IsVideo(screen) /\ PlayNext)
      BY <1>2 DEF HandleDone
    <2>. QED BY <1>2, <2>1, PlaysNext DEF HandleDone
  <1>3. CASE HandleShow
    <2>1. Head(uiQueue).screen \in GoodScreens
      <3>1. Head(uiQueue) \in GoodTasks
        BY <1>3, QueuesTyped DEF HandleShow, UiTask
      <3>. QED BY <1>3, <3>1, TasksTyped DEF HandleShow, UiTask
    <2>2. jobs' = jobs \/ (IsVideo(Head(uiQueue).screen) /\ Start(Head(uiQueue).screen))
      BY <1>3 DEF HandleShow
    <2>. QED BY <1>3, <2>1, <2>2, Starts DEF HandleShow
  <1>. QED BY <1>1, <1>2, <1>3 DEF ScreenActs, UiRuns

LEMMA ScreenActsPreserves ==
  ASSUME IInv, ScreenActs
  PROVE  IInv'
  <1> USE DEF IInv
  <1>1. PlayerShape' /\ ScreenShape'
    BY ScreenActsShape
  <1>2. OneSwap' /\ SoundHasScreen'
    BY ScreenActsSwap, ScreenActsSound
  <1>3. SeenIsHeld'
    BY ScreenActsLeave DEF SeenIsHeld, Holds
  <1>4. PlaceIsKnown'
    BY ScreenActsLeave, PlaceStays
  <1>. QED BY <1>1, <1>2, <1>3, <1>4

LEMMA StutterPreserves ==
  ASSUME IInv, UNCHANGED vars
  PROVE  IInv'
  <1> USE DEF IInv, vars, playerVars, screenVars, historyVars, managerVars, worldVars,
              requestVars, memoryVars, panelVars
  <1>1. PlayerShape'
    BY DEF PlayerShape
  <1>2. ScreenShape'
    BY DEF ScreenShape
  <1>3. OneSwap'
    BY SwapStays
  <1>4. SoundHasScreen' /\ SeenIsHeld'
    BY DEF SoundHasScreen, SeenIsHeld, Holds
  <1>5. PlaceIsKnown'
    BY PlaceStays
  <1>. QED BY <1>1, <1>2, <1>3, <1>4, <1>5

LEMMA Inductive == IInv /\ [Next]_vars => IInv'
  <1> SUFFICES ASSUME IInv, [Next]_vars PROVE IInv'
    OBVIOUS
  <1>1. CASE PlayerRuns
    BY <1>1, PlayerRunsPreserves
  <1>2. CASE ClocksRun
    BY <1>2, ClocksRunPreserves
  <1>3. CASE ScreenActs
    BY <1>3, ScreenActsPreserves
  <1>4. CASE ManagerRuns
    BY <1>4, ManagerRunsPreserves
  <1>5. CASE UserActs
    BY <1>5, UserActsPreserves
  <1>6. CASE UNCHANGED vars
    BY <1>6, StutterPreserves
  <1>. QED BY <1>1, <1>2, <1>3, <1>4, <1>5, <1>6 DEF Next, ClocksRun, ScreenActs

LEMMA AlwaysIInv == Spec => []IInv
  BY InitHolds, Inductive, PTL DEF Spec

LEMMA GoodIsTyped ==
  ASSUME PlayerShape, ScreenShape
  PROVE  TypeOK
  <1>1. PlayerTypeOK
    BY DEF PlayerShape, PlayerTypeOK, FilmRequests, FilmJobs, Places
  <1>2. GoodScreens \subseteq Screens
    BY DEF GoodScreens
  <1>3. GoodRequests \subseteq Requests /\ GoodTasks \subseteq UiTasks
    BY <1>2 DEF GoodRequests, Requests, GoodTasks, UiTasks
  <1>4. inbox \in Seq(Requests) /\ uiQueue \in Seq(UiTasks)
    <2>1. /\ inbox \in [1 .. Len(inbox) -> GoodRequests] /\ Len(inbox) \in Nat
          /\ uiQueue \in [1 .. Len(uiQueue) -> GoodTasks] /\ Len(uiQueue) \in Nat
      BY LenProperties DEF ScreenShape
    <2>2. /\ inbox \in [1 .. Len(inbox) -> Requests]
          /\ uiQueue \in [1 .. Len(uiQueue) -> UiTasks]
      BY <1>3, <2>1
    <2>. QED BY <2>1, <2>2, SeqDef
  <1>5. mgr \in [pc : {"idle", "destroy", "show"}, next : Screens]
    BY <1>2 DEF ScreenShape
  <1>. QED BY <1>1, <1>2, <1>4, <1>5 DEF ScreenShape, TypeOK, Places

(* Every variable of the player, of the screen and of the manager keeps    *)
(* its domain, whatever films there are and however long they are          *)
(* (nn20clock_player.c, nn20clock_video_ui.c, nn20clock_manager.c).        *)
THEOREM PlaybackTypeCorrect == Spec => []TypeOK
  <1>1. IInv => TypeOK
    BY GoodIsTyped DEF IInv
  <1>. QED BY <1>1, AlwaysIInv, PTL

(* A playback that nobody has halted belongs to a playback screen that     *)
(* still exists: across the swap of screens, which destroys before it      *)
(* shows, the retries and the ends of films (video_ui_destroy,             *)
(* apply_screen), with queues of any length and any number of alarms.      *)
THEOREM SoundAlwaysHasScreen == Spec => []SoundHasScreen
  <1>1. IInv => SoundHasScreen
    BY DEF IInv
  <1>. QED BY <1>1, AlwaysIInv, PTL

(* The file that opens for the alarm starts at the place of the snooze.    *)
LEMMA OpensAtPlace ==
  ASSUME IInv, [Next]_vars,
         At("idle"), ~At("idle")', job'.pc = "loop", request.remember, jobs' = Tail(jobs),
         place.path = request.path, place.cursor \in 1 .. FilmLength - 1
  PROVE  job'.cursor = place.cursor
  <1> USE DEF jobVars, At, Goto
  <1>1. job' # job
    OBVIOUS
  <1>2. CASE Begin
    <2>1. Opens
      BY <1>2 DEF Begin, RefusesToOpen, Job
    <2>2. place # Nowhere
      BY Constants DEF Nowhere
    <2>3. resume = place
      BY <2>2 DEF IInv, PlaceIsKnown
    <2>. QED BY <2>1, <2>3 DEF Opens, StartsAt, Job
  <1>3. CASE PlayerRuns
    BY <1>1, <1>2, <1>3 DEF PlayerRuns, PlayerStep, Forget, Loop, Turn, Frame, EndOfFile,
       ChunkFails, Ended, Close, After, ToneEnds, Finish, Report
  <1>4. CASE ClocksRun
    BY <1>1, <1>4 DEF ClocksRun, TimerRings, DisplayPolls, PollTouch, PatienceIsLost,
       PatienceEnds, ScreenTimeRunsOut, PlayerTimeRunsOut, playerVars
  <1>5. CASE ScreenActs
    BY <1>1, <1>5 DEF ScreenActs, UiRuns, HandleTouch, HandleDone, HandleDestroy, HandleShow,
       GiveUp, Retry, ButtonsTimeOut, playerVars
  <1>6. CASE ManagerRuns
    BY <1>1, <1>6 DEF ManagerRuns, ApplyAlarm, ApplySnooze, ApplyStop, IgnoreHour,
       ApplyCancelSnooze, ApplyMove, ApplyScreen, PostShow, playerVars
  <1>7. CASE UserActs
    BY <1>1, <1>7 DEF UserActs, Press, Lift, ClickView, ClickSnooze, ClickStop, ClickOff,
       ClickFace, ClickList
  <1>8. CASE UNCHANGED vars
    BY <1>1, <1>8 DEF vars, playerVars
  <1>. QED BY <1>3, <1>4, <1>5, <1>6, <1>7, <1>8 DEF Next, ClocksRun, ScreenActs

(* A snoozed alarm comes back to the chunk it was interrupted in: no other *)
(* playback, however many there were in between, has written the place     *)
(* that the player remembers (playback_private and its `remember').        *)
THEOREM AlarmResumesWhereSnoozed == Spec => ResumesWhereSnoozed
  <1>1. IInv /\ [Next]_vars =>
          [At("idle") /\ ~At("idle")' /\ job'.pc = "loop"
           /\ request.remember /\ jobs' = Tail(jobs)
           /\ place.path = request.path /\ place.cursor \in 1 .. FilmLength - 1
           => job'.cursor = place.cursor]_vars
    BY OpensAtPlace
  <1>. QED BY <1>1, AlwaysIInv, PTL DEF Spec, ResumesWhereSnoozed

(* A finger leaves the glass by Lift, which nobody hears of, or as a click *)
(* of LVGL's, which has the panel then.                                    *)
LEMMA ClickIsUnseen ==
  ASSUME IInv, [Next]_vars, finger, ~finger', screen' # screen \/ inbox' # inbox
  PROVE  ~seen
  <1>1. CASE Click
    BY <1>1 DEF Click, LvglRuns, IInv, SeenIsHeld, Holds
  <1>2. CASE UserActs
    BY <1>1, <1>2 DEF UserActs, Press, Lift, ClickView, ClickSnooze, ClickStop, ClickOff,
       ClickFace, ClickList, ClickButton
  <1>3. CASE PlayerRuns
    BY <1>3, PlayerKeeps DEF PlayerRuns, IInv
  <1>4. CASE ClocksRun
    BY <1>4, ClocksRunShape DEF IInv
  <1>5. CASE ScreenActs
    BY <1>5, ScreenActsLeave DEF IInv
  <1>6. CASE ManagerRuns
    BY <1>6 DEF ManagerRuns, ApplyAlarm, ApplySnooze, ApplyStop, IgnoreHour,
       ApplyCancelSnooze, ApplyMove, ApplyScreen, PostShow, playerVars
  <1>7. CASE UNCHANGED vars
    BY <1>7 DEF vars, playerVars
  <1>. QED BY <1>2, <1>3, <1>4, <1>5, <1>6, <1>7 DEF Next, ClocksRun, ScreenActs

(* The finger that brought the buttons up does not press one of them when  *)
(* it is lifted, unless it stayed past the deadline: LVGL has not had the  *)
(* panel since the player saw it (sync_video_visibility).                  *)
THEOREM OneTouchOneAction == Spec => NoPhantomClick
  <1>1. IInv /\ [Next]_vars =>
          [finger /\ ~finger' /\ (screen' # screen \/ inbox' # inbox) => ~seen]_vars
    BY ClickIsUnseen
  <1>. QED BY <1>1, AlwaysIInv, PTL DEF Spec, NoPhantomClick
=============================================================================
