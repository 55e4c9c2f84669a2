------------------------------ MODULE Playback ------------------------------
(***************************************************************************)
(* Films and alarms on the screen: the Player with the playback screen     *)
(* that asks for it (nn20clock_video_ui.c), the application that builds    *)
(* that screen and draws random films for it (nn20clock_app.c), and the    *)
(* part of the manager's state machine that puts one screen in the place   *)
(* of another (nn20clock_manager.c, nn20clock_ui.c).                       *)
(*                                                                         *)
(* Four threads: the player's worker, the UiWorker with its queue and the  *)
(* events LVGL finds while it owns the panel, the manager's worker with    *)
(* its inbox, and the user's finger.  Here there is one alarm, rung by the *)
(* Timer MaxRings times at any moment.                                     *)
(***************************************************************************)
EXTENDS Player

CONSTANTS
    AlarmMedia,          \* what the alarm's record may ask for
    SleepTimers,         \* what the picker may be set to
    MaxRings,            \* bound on alarm events
    MaxTaps,             \* bound on touches of the glass
    MaxInbox,            \* bound on the manager's requests when one is made
    Beginnings           \* what a behaviour may begin with, and what of the
                         \* bounds is then used up

ASSUME PlaybackAssumption ==
    /\ AlarmMedia \subseteq Films \union {NoFilm, "random"}
    /\ "random" \notin Films /\ NoFilm \notin Films /\ Films # {}
    /\ SleepTimers \subseteq {"none", "left"}
    /\ MaxRings \in Nat /\ MaxTaps \in Nat /\ MaxInbox \in Nat \ {0}
    /\ Beginnings \subseteq [with : {"boot", "snooze", "film"},
                              rings : 0 .. MaxRings, taps : 0 .. MaxTaps,
                              faults : 0 .. MaxFaults]

VARIABLES
    media,               \* what the alarm's record asks for
    state, ringing,      \* of the manager
    snoozed,             \* the Timer holds a snooze
    inbox,               \* the manager's requests
    mgr,                 \* the swap of screens in progress
    screen,              \* the screen that exists, as its own struct sees it
    rolled,              \* random_choice
    place,               \* history: where a remembered playback stopped, until
                         \* somebody asks for it to be forgotten
    seen,                \* history: the player had the panel when it saw the
                         \* finger that is on the glass
    rings, taps          \* what the bounds count

jobVars == <<job, stopAt, hasVideo, panelVars>>
managerVars == <<state, ringing, snoozed, mgr, rolled>>
worldVars == <<media, rings, taps>>
historyVars == <<place, seen>>
screenVars == <<managerVars, worldVars, inbox, screen>>
vars == <<playerVars, screenVars, historyVars>>

Screen(kind, path, next, sleep) ==
    [kind |-> kind, path |-> path, next |-> next, sleep |-> sleep,
     buttons |-> FALSE, retry |-> FALSE]
NoScreen == Screen("none", NoFilm, FALSE, "none")
TimeScreen == Screen("time", NoFilm, FALSE, "none")
ListScreen == Screen("list", NoFilm, FALSE, "none")

Screens ==
    [kind : {"none", "time", "list", "media", "alarm"},
     path : Films \union {NoFilm}, next : BOOLEAN,
     sleep : {"none", "left", "over"}, buttons : BOOLEAN, retry : BOOLEAN]

IsVideo(s) == s.kind \in {"media", "alarm"}
IsAlarm(s) == s.kind = "alarm"

Destroy == [task |-> "destroy"]
Show(s) == [task |-> "show", screen |-> s]
UiTasks == {Touch, Done, Destroy} \union {Show(s) : s \in Screens}

Ask(type) == [type |-> type]
ShowFilm(s) == [type |-> "film", screen |-> s]
Requests ==
    {Ask(type) : type \in {"alarm", "snooze", "stop", "cancel", "open",
                           "close", "hour"}}
    \union {ShowFilm(s) : s \in Screens}

Swap(pc, s) == [pc |-> pc, next |-> s]
NoSwap == Swap("idle", NoScreen)

(* start_playback(): a playback that loops has no end to hear about.       *)
Asked(s) ==
    [path |-> s.path,
     loop |-> ~s.next /\ (IsAlarm(s) \/ s.sleep # "none"),
     sleeps |-> ~IsAlarm(s) /\ s.sleep = "left",
     tone |-> IsAlarm(s),
     remember |-> IsAlarm(s)]

(* After a boot, on the clock face.                                        *)
InitBooted ==
    /\ PlayerInit
    /\ snoozed = FALSE /\ rolled = NoFilm
    /\ place = Nowhere
    /\ state = "TIME" /\ screen = TimeScreen

(* After a film was interrupted by a snooze, and the player has gone idle. *)
InitSnoozed ==
    /\ snoozed = TRUE
    /\ rolled \in IF media = "random" THEN Films ELSE {NoFilm}
    /\ place \in [path : {media, rolled} \cap Films, cursor : 1 .. FilmLength]
    /\ resume = place /\ thumbnail \in BOOLEAN
    /\ request = [path |-> place.path, loop |-> rolled = NoFilm,
                  sleeps |-> FALSE, tone |-> TRUE, remember |-> TRUE]
    /\ playing = FALSE /\ halt = TRUE
    /\ jobs = <<>> /\ job = Idle
    /\ stopAt = "none"
    /\ wanted = FALSE /\ hasVideo = FALSE
    /\ panel = "lvgl" /\ finger = FALSE
    /\ touched = FALSE /\ touchDown = FALSE /\ patience = "none"
    /\ uiQueue = <<>>
    /\ state = "TIME" /\ screen = TimeScreen

(* The first film after a boot has just been chosen by hand and shown.     *)
InitFilm ==
    /\ snoozed = FALSE /\ rolled = NoFilm
    /\ place = Nowhere /\ resume = Nowhere /\ thumbnail = FALSE
    /\ state = "MEDIA_PLAYBACK"
    /\ screen \in {Screen("media", film, next, sleep) :
                      film \in Films, next \in BOOLEAN, sleep \in SleepTimers}
    /\ request = Asked(screen)
    /\ playing = TRUE /\ halt = FALSE
    /\ jobs = <<"play">> /\ job = Idle
    /\ stopAt = "none"
    /\ wanted = TRUE /\ hasVideo = FALSE
    /\ panel = "lvgl" /\ finger = FALSE
    /\ touched = FALSE /\ touchDown = FALSE /\ patience = "none"
    /\ uiQueue = <<>>

Init ==
    /\ media \in AlarmMedia
    /\ ringing = FALSE
    /\ inbox = <<>> /\ mgr = NoSwap
    /\ seen = FALSE
    /\ \E b \in Beginnings :
          /\ rings = b.rings /\ taps = b.taps /\ faults = b.faults
          /\ \/ b.with = "boot" /\ InitBooted
             \/ b.with = "snooze" /\ InitSnoozed
             \/ b.with = "film" /\ InitFilm

-----------------------------------------------------------------------------
(* The playback screen, on the UiWorker.                                   *)

(* A player that is still busy with what came before is asked again later. *)
Start(s) ==
    IF playing
      THEN /\ screen' = [s EXCEPT !.retry = TRUE]
           /\ UNCHANGED <<requestVars, halt, jobs, thumbnail>>
      ELSE Play(Asked(s)) /\ screen' = s

(* show_actions(): only records the wish, the player hands over.           *)
ShowButtons(shown) ==
    /\ screen' = [screen EXCEPT !.buttons = shown]
    /\ wanted' = ~shown

Others(film) == IF Films = {film} THEN {film} ELSE Films \ {film}

(* choose_random_media() without the film that just played; NoFilm when    *)
(* the folder cannot be read.                                              *)
Draw(last) == Others(last) \union (IF faults < MaxFaults THEN {NoFilm} ELSE {})

Drawn(film) == IF film = NoFilm THEN Fail ELSE Succeed

(* play_next(): another film, or the same one again.                       *)
PlayNext ==
    \E film \in Draw(screen.path) :
        /\ Drawn(film)
        /\ rolled' = IF IsAlarm(screen) /\ film # NoFilm THEN film ELSE rolled
        /\ Start(IF film = NoFilm THEN screen ELSE [screen EXCEPT !.path = film])

UiTask(task) == uiQueue # <<>> /\ Head(uiQueue).task = task

HandleTouch ==
    /\ UiTask("touch")
    /\ uiQueue' = Tail(uiQueue)
    /\ IF IsVideo(screen) /\ ~screen.buttons THEN ShowButtons(TRUE)
       ELSE UNCHANGED <<wanted, screen>>
    /\ UNCHANGED <<managerVars, worldVars, historyVars, jobVars, requestVars,
                   memoryVars, halt, jobs, finger, faults, inbox>>

(* notify_done_private() and on_player_done(): only a screen that can come *)
(* to an end has registered for it.                                        *)
HandleDone ==
    /\ UiTask("done")
    /\ uiQueue' = Tail(uiQueue)
    /\ IF ~IsVideo(screen) \/ (IsAlarm(screen) /\ ~screen.next)
         THEN UNCHANGED <<requestVars, halt, jobs, thumbnail, faults, inbox,
                          screen, rolled>>
       ELSE IF IsAlarm(screen) \/ (screen.sleep = "left" /\ screen.next)
         THEN PlayNext /\ UNCHANGED inbox
       ELSE /\ inbox' = Append(inbox, Ask("close"))
            /\ UNCHANGED <<requestVars, halt, jobs, thumbnail, faults, screen,
                           rolled>>
    /\ UNCHANGED <<worldVars, historyVars, jobVars, resume, wanted, finger,
                   state, ringing, snoozed, mgr>>

KeepPlaying ==    \* fault: the screen goes, the sound stays
    /\ UiTask("destroy")
    /\ uiQueue' = Tail(uiQueue)
    /\ screen' = NoScreen
    /\ mgr' = [mgr EXCEPT !.pc = "show"]
    /\ UNCHANGED <<worldVars, historyVars, jobVars, requestVars, memoryVars,
                   halt, jobs, wanted, finger, faults, state, ringing,
                   snoozed, inbox, rolled>>

(* destroy_private(), which the manager waits for.                         *)
HandleDestroy ==
    /\ UiTask("destroy")
    /\ uiQueue' = Tail(uiQueue)
    /\ halt' = (halt \/ IsVideo(screen))
    /\ screen' = NoScreen
    /\ mgr' = [mgr EXCEPT !.pc = "show"]
    /\ UNCHANGED <<worldVars, historyVars, jobVars, requestVars, memoryVars,
                   jobs, wanted, finger, faults, state, ringing, snoozed,
                   inbox, rolled>>

(* show_private() and video_ui_show().                                     *)
HandleShow ==
    /\ UiTask("show")
    /\ uiQueue' = Tail(uiQueue)
    /\ LET s == Head(uiQueue).screen IN
       IF IsVideo(s) THEN Start(s) /\ wanted' = TRUE
       ELSE /\ screen' = s
            /\ UNCHANGED <<requestVars, halt, jobs, thumbnail, wanted>>
    /\ UNCHANGED <<managerVars, worldVars, historyVars, jobVars, resume,
                   finger, faults, inbox>>

(* LVGL's timers run only while LVGL has the panel.                        *)
LvglRuns == panel = "lvgl"

GiveUpAlways ==    \* fault: an alarm stops asking like a film
    /\ LvglRuns /\ screen.retry /\ playing
    /\ screen' = [screen EXCEPT !.retry = FALSE]
    /\ inbox' = IF IsAlarm(screen) THEN inbox ELSE Append(inbox, Ask("close"))
    /\ UNCHANGED <<playerVars, managerVars, worldVars, historyVars>>

(* on_start_retry(): a film is given up after START_GIVE_UP_MS.            *)
GiveUp ==
    /\ LvglRuns /\ screen.retry /\ playing
    /\ ~IsAlarm(screen)
    /\ screen' = [screen EXCEPT !.retry = FALSE]
    /\ inbox' = Append(inbox, Ask("close"))
    /\ UNCHANGED <<playerVars, managerVars, worldVars, historyVars>>

Retry ==
    /\ LvglRuns /\ screen.retry /\ ~playing
    /\ Play(Asked(screen))
    /\ screen' = [screen EXCEPT !.retry = FALSE]
    /\ UNCHANGED <<managerVars, worldVars, historyVars, jobVars, resume,
                   wanted, finger, uiQueue, faults, inbox>>

(* on_actions_timeout(): the buttons went unused.                          *)
ButtonsTimeOut ==
    /\ LvglRuns /\ screen.buttons
    /\ ShowButtons(FALSE)
    /\ UNCHANGED <<managerVars, worldVars, historyVars, jobVars, requestVars,
                   memoryVars, halt, jobs, finger, uiQueue, faults, inbox>>

-----------------------------------------------------------------------------
(* The user.  LVGL reports a click when the finger is lifted.              *)

Press ==
    /\ ~finger /\ taps < MaxTaps
    /\ finger' = TRUE /\ seen' = FALSE /\ taps' = taps + 1
    /\ UNCHANGED <<managerVars, jobVars, requestVars, memoryVars, halt, jobs,
                   wanted, uiQueue, faults, media, inbox, screen, rings,
                   place>>

Lift ==
    /\ finger /\ finger' = FALSE /\ seen' = FALSE
    /\ UNCHANGED <<managerVars, worldVars, jobVars, requestVars, memoryVars,
                   halt, jobs, wanted, uiQueue, faults, inbox, screen, place>>

InboxHasRoom == Len(inbox) < MaxInbox
Click == LvglRuns /\ finger /\ finger' = FALSE /\ seen' = FALSE

(* on_playback_clicked() and on_scrim_clicked().                           *)
ClickView ==
    /\ Click /\ IsVideo(screen)
    /\ ShowButtons(~screen.buttons)
    /\ UNCHANGED <<managerVars, worldVars, jobVars, requestVars, memoryVars,
                   halt, jobs, uiQueue, faults, inbox, place>>

(* Snooze and Stop are silent at once; so is Off, which forgets as well.   *)
ClickButton(kind, type) ==
    /\ Click /\ InboxHasRoom /\ screen.kind = kind /\ screen.buttons
    /\ halt' = TRUE
    /\ inbox' = Append(inbox, Ask(type))

ClickSnooze ==
    /\ ClickButton("alarm", "snooze")
    /\ UNCHANGED <<managerVars, worldVars, jobVars, requestVars, memoryVars,
                   jobs, wanted, uiQueue, faults, screen, place>>

ClickStop ==
    /\ ClickButton("media", "close")
    /\ UNCHANGED <<managerVars, worldVars, jobVars, requestVars, memoryVars,
                   jobs, wanted, uiQueue, faults, screen, place>>

ClickOff ==
    /\ ClickButton("alarm", "stop")
    /\ ForgetPosition /\ place' = Nowhere
    /\ UNCHANGED <<managerVars, worldVars, jobVars, requestVars, wanted,
                   uiQueue, faults, screen>>

(* The clock face and the list of films.                                   *)
ClickFace ==
    /\ Click /\ InboxHasRoom /\ screen.kind = "time"
    /\ \E type \in {"open"} \union (IF snoozed THEN {"cancel"} ELSE {}) :
           inbox' = Append(inbox, Ask(type))
    /\ UNCHANGED <<managerVars, worldVars, jobVars, requestVars, memoryVars,
                   halt, jobs, wanted, uiQueue, faults, screen, place>>

(* play_media(), and play_random_media() with its first draw.              *)
ClickList ==
    /\ Click /\ InboxHasRoom /\ screen.kind = "list"
    /\ \/ inbox' = Append(inbox, Ask("close"))
       \/ \E film \in Films, next \in BOOLEAN, sleep \in SleepTimers :
              inbox' = Append(inbox, ShowFilm(Screen("media", film, next, sleep)))
    /\ UNCHANGED <<managerVars, worldVars, jobVars, requestVars, memoryVars,
                   halt, jobs, wanted, uiQueue, faults, screen, place>>

-----------------------------------------------------------------------------
(* The manager's worker.                                                   *)

Take(type) ==
    /\ mgr.pc = "idle"
    /\ inbox # <<>> /\ Head(inbox).type = type
    /\ inbox' = Tail(inbox)

(* apply_screen() destroys first and waits for it.                         *)
SwapTo(s) ==
    /\ mgr' = Swap("destroy", s)
    /\ uiQueue' = Append(uiQueue, Destroy)

(* apply_state(): MEDIA_PLAYBACK is only entered from the clock face, and  *)
(* the clock face is not entered twice.                                    *)
Enter(to, s) ==
    IF \/ to = "TIME" /\ state = "TIME"
       \/ to = "MEDIA_PLAYBACK" /\ state # "TIME"
      THEN UNCHANGED <<uiQueue, state, mgr>>
      ELSE state' = to /\ SwapTo(s)

(* on_ringing_ended(): an alarm that is over leaves nothing behind.        *)
RingingEnded(over) ==
    IF over
      THEN /\ rolled' = NoFilm /\ place' = Nowhere
           /\ ForgetPosition
      ELSE UNCHANGED <<memoryVars, jobs, rolled, place>>

(* resolve_media(): a film is rolled once for an occurrence and its        *)
(* snoozes.                                                                *)
ResolveMedia(path, next) ==
    IF media # "random"
      THEN path = media /\ next = FALSE /\ Succeed /\ UNCHANGED rolled
    ELSE IF rolled # NoFilm
      THEN path = rolled /\ next = TRUE /\ Succeed /\ UNCHANGED rolled
    ELSE /\ path \in Draw(NoFilm)
         /\ Drawn(path)
         /\ next = (path # NoFilm)
         /\ rolled' = path

ApplyAlarm ==
    /\ Take("alarm")
    /\ ringing' = TRUE /\ snoozed' = FALSE
    /\ \E path \in Films \union {NoFilm}, next \in BOOLEAN :
           /\ ResolveMedia(path, next)
           /\ Enter("ALARM_RINGING", Screen("alarm", path, next, "none"))
    /\ UNCHANGED <<worldVars, historyVars, jobVars, requestVars, memoryVars,
                   halt, jobs, wanted, finger, screen>>

ApplySnooze ==
    /\ Take("snooze")
    /\ snoozed' = (snoozed \/ ringing)
    /\ ringing' = FALSE
    /\ Enter("TIME", TimeScreen)
    /\ UNCHANGED <<worldVars, historyVars, jobVars, requestVars, memoryVars,
                   halt, jobs, wanted, finger, faults, screen, rolled>>

(* dismiss_alarm(), by hand or when the alarm's hour is over.              *)
ApplyStop ==
    /\ \/ Take("stop")
       \/ Take("hour") /\ state = "ALARM_RINGING"
    /\ RingingEnded(ringing)
    /\ ringing' = FALSE /\ snoozed' = FALSE
    /\ Enter("TIME", TimeScreen)
    /\ UNCHANGED <<worldVars, jobVars, requestVars, halt, wanted, finger,
                   faults, screen, seen>>

IgnoreHour ==
    /\ Take("hour") /\ state # "ALARM_RINGING"
    /\ UNCHANGED <<playerVars, managerVars, worldVars, historyVars, screen>>

ApplyCancelSnooze ==
    /\ Take("cancel")
    /\ RingingEnded(snoozed)
    /\ snoozed' = FALSE
    /\ UNCHANGED <<worldVars, jobVars, requestVars, halt, wanted, finger,
                   uiQueue, faults, state, ringing, mgr, screen, seen>>

ApplyMove ==
    /\ \/ Take("open") /\ Enter("MEDIA_PLAYBACK", ListScreen)
       \/ Take("close") /\ Enter("TIME", TimeScreen)
    /\ UNCHANGED <<worldVars, historyVars, jobVars, requestVars, memoryVars,
                   halt, jobs, wanted, finger, faults, ringing, snoozed,
                   screen, rolled>>

(* set_screen(), whatever the state has become meanwhile.                  *)
ApplyScreen ==
    /\ Take("film")
    /\ SwapTo(Head(inbox).screen)
    /\ UNCHANGED <<worldVars, historyVars, jobVars, requestVars, memoryVars,
                   halt, jobs, wanted, finger, faults, state, ringing,
                   snoozed, screen, rolled>>

(* nn20clock_ui_show() is posted and not waited for.                       *)
PostShow ==
    /\ mgr.pc = "show"
    /\ uiQueue' = Append(uiQueue, Show(mgr.next))
    /\ mgr' = NoSwap
    /\ UNCHANGED <<worldVars, historyVars, jobVars, requestVars, memoryVars,
                   halt, jobs, wanted, finger, faults, state, ringing,
                   snoozed, inbox, screen, rolled>>

(* The Timer's alarms and snoozes, and the tick that finds the hour over.  *)
TimerRings ==
    /\ rings < MaxRings /\ InboxHasRoom
    /\ rings' = rings + 1
    /\ \E type \in {"alarm"} \union (IF ringing THEN {"hour"} ELSE {}) :
           inbox' = Append(inbox, Ask(type))
    /\ UNCHANGED <<playerVars, managerVars, historyVars, media, screen, taps>>

-----------------------------------------------------------------------------
(* The screen counts its sleep timer from before the player does.          *)
ScreenTimeRunsOut ==
    /\ screen.sleep = "left"
    /\ screen' = [screen EXCEPT !.sleep = "over"]
    /\ UNCHANGED <<playerVars, managerVars, worldVars, historyVars, inbox>>

PlayerTimeRunsOut ==
    /\ stopAt = "ahead"
    /\ stopAt' = "past"
    /\ screen' = IF screen.sleep = "left"
                   THEN [screen EXCEPT !.sleep = "over"] ELSE screen
    /\ UNCHANGED <<managerVars, worldVars, historyVars, requestVars,
                   memoryVars, panelVars, halt, jobs, job, wanted, hasVideo,
                   finger, uiQueue, faults, inbox>>

ForgetWaits == \E i \in DOMAIN jobs : jobs[i] = "forget"

PlayerRuns ==
    /\ PlayerStep
    /\ place' = IF At("close") /\ request.remember /\ ~ForgetWaits
                  THEN [path |-> request.path, cursor |-> job.cursor]
                  ELSE place
    /\ seen' = (seen /\ ~(Holds /\ ~Holds' /\ patience = "over"))
    /\ UNCHANGED screenVars

DisplayPolls ==
    /\ PollTouch
    /\ seen' = (seen \/ finger)
    /\ UNCHANGED <<managerVars, worldVars, inbox, screen, place>>

PatienceIsLost == PatienceEnds /\ UNCHANGED <<managerVars, worldVars,
                                              historyVars, inbox, screen>>

UiRuns == HandleTouch \/ HandleDone \/ HandleDestroy \/ HandleShow

ManagerRuns ==
    \/ ApplyAlarm \/ ApplySnooze \/ ApplyStop \/ IgnoreHour
    \/ ApplyCancelSnooze \/ ApplyMove \/ ApplyScreen \/ PostShow

UserActs ==
    \/ Press \/ Lift \/ ClickView \/ ClickSnooze \/ ClickStop \/ ClickOff
    \/ ClickFace \/ ClickList

Next ==
    \/ PlayerRuns \/ DisplayPolls \/ PatienceIsLost
    \/ UiRuns \/ GiveUp \/ Retry \/ ButtonsTimeOut
    \/ ManagerRuns \/ UserActs \/ TimerRings
    \/ ScreenTimeRunsOut \/ PlayerTimeRunsOut

Fairness ==
    /\ WF_vars(PlayerRuns) /\ WF_vars(DisplayPolls) /\ WF_vars(PatienceIsLost)
    /\ WF_vars(UiRuns) /\ WF_vars(Retry) /\ WF_vars(ButtonsTimeOut)
    /\ WF_vars(ManagerRuns)

Spec == Init /\ [][Next]_vars /\ Fairness

-----------------------------------------------------------------------------
(* Every variable stays in its domain: no request is lost half-way between *)
(* the UiWorker's queue, the manager's inbox and the swap in progress.     *)
TypeOK ==
    /\ PlayerTypeOK
    /\ media \in AlarmMedia
    /\ state \in {"TIME", "MEDIA_PLAYBACK", "ALARM_RINGING"}
    /\ ringing \in BOOLEAN /\ snoozed \in BOOLEAN
    /\ inbox \in Seq(Requests)
    /\ uiQueue \in Seq(UiTasks)
    /\ mgr \in [pc : {"idle", "destroy", "show"}, next : Screens]
    /\ screen \in Screens
    /\ rolled \in Films \union {NoFilm}
    /\ place \in [path : Films \union {NoFilm}, cursor : 0 .. FilmLength]
    /\ rings \in 0 .. MaxRings /\ taps \in 0 .. MaxTaps

(* Sound has a screen that can stop it: a playback that nobody has halted  *)
(* belongs to a playback screen that still exists, across the swap of      *)
(* screens, the retries and the ends of films (video_ui_destroy).          *)
SoundHasScreen == playing /\ ~halt => IsVideo(screen)

(* A snoozed alarm comes back to the chunk it was interrupted in, whatever *)
(* was played by hand in between (playback_private and its `remember').    *)
ResumesWhereSnoozed ==
    [][At("idle") /\ ~At("idle")' /\ job'.pc = "loop"
       /\ request.remember /\ jobs' = Tail(jobs)
       /\ place.path = request.path /\ place.cursor \in 1 .. FilmLength - 1
       => job'.cursor = place.cursor]_vars

Sounds == ~halt /\ request.remember /\ job.pc \in {"turn", "chunk", "tone"}

(* The two ways an alarm falls silent in this code: a sleep timer of the   *)
(* last film that is over when the tone starts, and a panel that was not   *)
(* given back with the film and that nobody gives back after it, which is  *)
(* PanelGoesBack below.                                                    *)
SleepTimerIsOver == stopAt = "past"
PanelIsLost == Holds /\ (At("tone") \/ (At("idle") /\ jobs = <<>>))

(* Design 13, "there is no silent option": an alarm on the screen comes to *)
(* sound, behind a film that is still winding down, between random films   *)
(* and over a card that fails, unless somebody answers it (on_start_retry, *)
(* on_player_done, play_tone).                                             *)
AlarmSounds ==
    IsAlarm(screen) ~>
        Sounds \/ ~IsAlarm(screen) \/ SleepTimerIsOver \/ PanelIsLost

(* One touch does one thing: the finger that the player reported, and that *)
(* brought the buttons up, does not press one of them when it is lifted,   *)
(* unless it stayed past the deadline ("a click nobody made",              *)
(* sync_video_visibility).                                                 *)
NoPhantomClick ==
    [][finger /\ ~finger' /\ (screen' # screen \/ inbox' # inbox) => ~seen]_vars

(* "The file is over, so there is no picture left to hold the panel with   *)
(* and it goes back to LVGL" (playback_private): where no film plays, LVGL *)
(* draws.                                                                  *)
PanelGoesBack == ~PanelIsLost
=============================================================================
