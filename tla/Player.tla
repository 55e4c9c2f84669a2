------------------------------- MODULE Player -------------------------------
(***************************************************************************)
(* The life of a playback, nn20clock_player.c above its read-ahead window: *)
(* the request, the job on the player's worker, where it stops and what it *)
(* remembers, and the panel it borrows from LVGL (nn20clock_display.c).    *)
(*                                                                         *)
(* The window and the card below it are ReadAhead's; here a film is        *)
(* FilmLength chunks, each of which may be a frame, and reading one fails  *)
(* now and then.  Time is what may have run out: the sleep timer and the   *)
(* patience with a finger on the glass are armed, and later are over.      *)
(***************************************************************************)
EXTENDS Naturals, Sequences

CONSTANTS
    Films,               \* files on the card
    FilmLength,          \* chunks of a film
    MaxFaults,           \* bound on files, chunks and folders that fail
    MaxWaiting           \* bound on the UiWorker's queue when a touch is posted

ASSUME PlayerAssumption ==
    /\ FilmLength \in Nat \ {0, 1} /\ MaxFaults \in Nat /\ MaxWaiting \in Nat \ {0}

VARIABLES
    request,             \* path .. remember, as play() copied them
    playing, halt,
    jobs,                \* the queue of the player's worker
    job,                 \* playback_private: [pc, cursor, drew, failed]
    stopAt,              \* stop_at_us, against the clock
    resume,              \* resume_path and resume_cursor
    thumbnail,           \* thumbnail_valid
    wanted, hasVideo,
    panel,               \* who draws: "player" is the display's video_mode
    finger,              \* on the glass
    touched, touchDown,  \* what the display has seen of it
    patience,            \* release_deadline_us, against the clock
    uiQueue,             \* the queue of the UiWorker
    faults               \* counts against MaxFaults

requestVars == <<request, playing>>
memoryVars == <<resume, thumbnail>>
panelVars == <<panel, touched, touchDown, patience>>
playerVars == <<requestVars, halt, jobs, job, stopAt, memoryVars, wanted,
                hasVideo, panelVars, finger, uiQueue, faults>>

NoFilm == "no film"      \* the empty path
Nowhere == [path |-> NoFilm, cursor |-> 0]
Job(pc, cursor, drew, failed) ==
    [pc |-> pc, cursor |-> cursor, drew |-> drew, failed |-> failed]
Idle == Job("idle", 0, FALSE, FALSE)
NoRequest == [path |-> NoFilm, loop |-> FALSE, sleeps |-> FALSE,
              tone |-> FALSE, remember |-> FALSE]
Touch == [task |-> "touch"]
Done == [task |-> "done"]

At(pc) == job.pc = pc
Goto(pc) == job' = [job EXCEPT !.pc = pc]
Expired == stopAt = "past"
OnPanel == hasVideo /\ wanted
Holds == panel = "player"

PlayerInit ==
    /\ request = NoRequest
    /\ playing = FALSE /\ halt = FALSE
    /\ jobs = <<>> /\ job = Idle
    /\ stopAt = "none"
    /\ resume = Nowhere /\ thumbnail = FALSE
    /\ wanted = FALSE /\ hasVideo = FALSE
    /\ panel = "lvgl" /\ finger = FALSE
    /\ touched = FALSE /\ touchDown = FALSE /\ patience = "none"
    /\ uiQueue = <<>>

Fail == faults < MaxFaults /\ faults' = faults + 1
Succeed == UNCHANGED faults

-----------------------------------------------------------------------------
(* What the UiWorker and the manager's worker call.                        *)

Play(asked) ==
    /\ ~playing
    /\ request' = asked
    /\ thumbnail' = (thumbnail /\ ~asked.remember)
    /\ halt' = FALSE
    /\ playing' = TRUE
    /\ jobs' = Append(jobs, "play")

(* forget_position(): the frame now, the position behind the playback that *)
(* is still going to write it.                                             *)
ForgetPosition ==
    /\ thumbnail' = FALSE
    /\ jobs' = Append(jobs, "forget")
    /\ UNCHANGED resume

-----------------------------------------------------------------------------
(* The panel.                                                              *)

(* sync_video_visibility(): what it does depends on a finger it last saw.  *)
GivesBackAtOnce(shows) == ~shows /\ Holds    \* fault: whatever is on the glass

Borrows(shows) == shows /\ ~Holds
GivesBack(shows) == ~shows /\ Holds /\ (~touchDown \/ patience = "over")
Waits(shows) == ~shows /\ Holds /\ ~GivesBack(shows)

SyncPanel(shows) ==
    /\ panel' = IF Borrows(shows) THEN "player"
                ELSE IF GivesBack(shows) THEN "lvgl"
                ELSE panel
    /\ patience' = IF Borrows(shows) \/ GivesBack(shows) THEN "none"
                   ELSE IF Waits(shows) /\ patience = "none" THEN "waiting"
                   ELSE patience

ForgetTouches(shows) ==
    /\ touched' = (touched /\ ~Borrows(shows))
    /\ touchDown' = (touchDown /\ ~Borrows(shows))

(* poll_touch(): LVGL cannot report it, so the screen is told; a full      *)
(* queue drops the touch, and a finger that stays there is seen again.     *)
Reports(shows) == touched /\ Holds /\ ~GivesBack(shows)

SyncAndPoll(shows) ==
    /\ SyncPanel(shows)
    /\ touched' = (touched /\ ~Borrows(shows) /\ ~Reports(shows))
    /\ touchDown' = (touchDown /\ ~Borrows(shows))
    /\ uiQueue' = IF Reports(shows) /\ Len(uiQueue) < MaxWaiting
                    THEN Append(uiQueue, Touch) ELSE uiQueue

(* video_touch_poll(): what LVGL's tick does while the player draws.       *)
PollTouch ==
    /\ Holds
    /\ touched' = (touched \/ finger)
    /\ touchDown' = finger
    /\ <<touched', touchDown'>> # <<touched, touchDown>>
    /\ UNCHANGED <<requestVars, halt, jobs, job, stopAt, memoryVars, wanted,
                   hasVideo, panel, patience, finger, uiQueue, faults>>

PatienceEnds ==
    /\ patience = "waiting"
    /\ patience' = "over"
    /\ UNCHANGED <<requestVars, halt, jobs, job, stopAt, memoryVars, wanted,
                   hasVideo, panel, touched, touchDown, finger, uiQueue,
                   faults>>

-----------------------------------------------------------------------------
(* The job on the player's worker.                                         *)

Forget ==
    /\ At("idle")
    /\ jobs # <<>> /\ Head(jobs) = "forget"
    /\ jobs' = Tail(jobs)
    /\ resume' = Nowhere /\ thumbnail' = FALSE
    /\ UNCHANGED <<requestVars, halt, job, stopAt, wanted, hasVideo,
                   panelVars, finger, uiQueue, faults>>

StartsAt ==
    IF /\ request.remember
       /\ resume.path = request.path
       /\ resume.cursor \in 1 .. FilmLength - 1
      THEN resume.cursor ELSE 0

Opens ==
    /\ job' = Job("loop", StartsAt, FALSE, FALSE)
    /\ hasVideo' = TRUE
    /\ stopAt' = IF request.sleeps THEN "ahead" ELSE "none"

RefusesToOpen ==
    /\ job' = Job("after", 0, FALSE, TRUE)
    /\ UNCHANGED <<hasVideo, stopAt>>

(* begin_file(), and what is armed only once the file is open.             *)
Begin ==
    /\ At("idle")
    /\ jobs # <<>> /\ Head(jobs) = "play"
    /\ jobs' = Tail(jobs)
    /\ \/ request.path # NoFilm /\ Opens /\ Succeed
       \/ request.path # NoFilm /\ RefusesToOpen /\ Fail
       \/ request.path = NoFilm /\ RefusesToOpen /\ Succeed
    /\ UNCHANGED <<requestVars, halt, memoryVars, wanted, panelVars, finger,
                   uiQueue>>

jobStep == <<requestVars, halt, jobs, stopAt, wanted, finger>>

(* The head of each pass.                                                  *)
Loop ==
    /\ At("loop")
    /\ Goto(IF halt \/ Expired THEN "close" ELSE "turn")
    /\ UNCHANGED <<jobStep, memoryVars, hasVideo, panelVars, uiQueue, faults>>

(* The head of each turn of play_once().                                   *)
Turn ==
    /\ At("turn")
    /\ IF halt \/ Expired
         THEN Goto("ended") /\ UNCHANGED <<panelVars, uiQueue>>
         ELSE Goto("chunk") /\ SyncAndPoll(OnPanel)
    /\ UNCHANGED <<jobStep, memoryVars, hasVideo, faults>>

(* A frame is skipped while the screen has the panel; only a drawn one     *)
(* counts, and only a remembered playback keeps its picture.               *)
Frame ==
    /\ At("chunk") /\ job.cursor < FilmLength
    /\ job' = [job EXCEPT !.pc = "turn", !.cursor = @ + 1,
                          !.drew = @ \/ OnPanel]
    /\ thumbnail' = (thumbnail \/ (OnPanel /\ request.remember))
    /\ UNCHANGED <<jobStep, resume, hasVideo, panelVars, uiQueue, faults>>

EndOfFile ==
    /\ At("chunk") /\ job.cursor = FilmLength
    /\ Goto("ended")
    /\ UNCHANGED <<jobStep, memoryVars, hasVideo, panelVars, uiQueue, faults>>

ChunkFails ==
    /\ At("chunk") /\ Fail
    /\ job' = [job EXCEPT !.pc = "close", !.failed = TRUE]
    /\ UNCHANGED <<jobStep, memoryVars, hasVideo, panelVars, uiQueue>>

(* After a pass: stopped, nothing drawn, over, or round again.             *)
Ended ==
    /\ At("ended")
    /\ job' = IF halt THEN [job EXCEPT !.pc = "close"]
              ELSE IF ~job.drew
                THEN [job EXCEPT !.pc = "close", !.failed = TRUE]
              ELSE IF ~request.loop \/ Expired
                THEN [job EXCEPT !.pc = "close"]
              ELSE Job("loop", 0, FALSE, FALSE)
    /\ UNCHANGED <<jobStep, memoryVars, hasVideo, panelVars, uiQueue, faults>>

CloseRemembering ==    \* fault: whatever was played
    /\ At("close")
    /\ resume' = [path |-> request.path, cursor |-> job.cursor]
    /\ hasVideo' = FALSE
    /\ SyncPanel(FALSE) /\ ForgetTouches(FALSE)
    /\ Goto("after")
    /\ UNCHANGED <<jobStep, thumbnail, uiQueue, faults>>

Close ==
    /\ At("close")
    /\ resume' = IF request.remember
                   THEN [path |-> request.path, cursor |-> job.cursor]
                   ELSE resume
    /\ hasVideo' = FALSE
    /\ SyncPanel(FALSE) /\ ForgetTouches(FALSE)
    /\ Goto("after")
    /\ UNCHANGED <<jobStep, thumbnail, uiQueue, faults>>

After ==
    /\ At("after")
    /\ IF job.failed /\ request.tone /\ ~halt
         THEN /\ hasVideo' = FALSE
              /\ SyncPanel(FALSE) /\ ForgetTouches(FALSE)
              /\ Goto("tone")
         ELSE Goto("finish") /\ UNCHANGED <<hasVideo, panelVars>>
    /\ UNCHANGED <<jobStep, memoryVars, uiQueue, faults>>

(* play_tone(): until it is halted, or the sleep timer has run out.        *)
ToneEnds ==
    /\ At("tone")
    /\ halt \/ Expired
    /\ Goto("finish")
    /\ UNCHANGED <<jobStep, memoryVars, hasVideo, panelVars, uiQueue, faults>>

(* From here a new playback is accepted.                                   *)
Finish ==
    /\ At("finish")
    /\ hasVideo' = FALSE
    /\ playing' = FALSE
    /\ Goto("report")
    /\ UNCHANGED <<request, halt, jobs, stopAt, memoryVars, wanted, panelVars,
                   finger, uiQueue, faults>>

Report ==
    /\ At("report")
    /\ job' = Idle
    /\ uiQueue' = IF halt THEN uiQueue ELSE Append(uiQueue, Done)
    /\ UNCHANGED <<jobStep, memoryVars, hasVideo, panelVars, faults>>

PlayerStep ==
    \/ Forget \/ Begin \/ Loop \/ Turn \/ Frame \/ EndOfFile
    \/ ChunkFails \/ Ended \/ Close \/ After \/ ToneEnds \/ Finish
    \/ Report

PlayerTypeOK ==
    /\ request \in [path : Films \union {NoFilm}, loop : BOOLEAN,
                    sleeps : BOOLEAN, tone : BOOLEAN, remember : BOOLEAN]
    /\ playing \in BOOLEAN /\ halt \in BOOLEAN
    /\ jobs \in Seq({"play", "forget"})
    /\ job \in [pc : {"idle", "loop", "turn", "chunk",
                      "ended", "close", "after", "tone", "finish", "report"},
                cursor : 0 .. FilmLength, drew : BOOLEAN, failed : BOOLEAN]
    /\ stopAt \in {"none", "ahead", "past"}
    /\ resume \in [path : Films \union {NoFilm}, cursor : 0 .. FilmLength]
    /\ thumbnail \in BOOLEAN
    /\ wanted \in BOOLEAN /\ hasVideo \in BOOLEAN
    /\ panel \in {"player", "lvgl"} /\ finger \in BOOLEAN
    /\ touched \in BOOLEAN /\ touchDown \in BOOLEAN
    /\ patience \in {"none", "waiting", "over"}
    /\ faults \in 0 .. MaxFaults
=============================================================================
