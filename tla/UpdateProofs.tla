---------------------------- MODULE UpdateProofs ----------------------------
(***************************************************************************)
(* NeverBricked holds for every set of releases, every image size and any  *)
(* number of presses, power cuts and stops, and so does what the About     *)
(* view shows: AboutTellsTheRelease.                                       *)
(***************************************************************************)
EXTENDS Update, RingIndex

InstallSteps == {"open", "read", "sum", "end", "boot", "done", "fail"}
Writing == {"read", "sum", "end", "boot"}

CheckTodos == {<<"fetch", "version", "notes", "state">>, <<"version", "notes", "state">>,
               <<"notes", "state">>, <<"state">>}
InstallTodos == {<<step>> : step \in InstallSteps}

OtaRecords == [state : States, percent : Int, version : Versions, notes : Versions,
               offered : Releases, worker : {"up", "stopping", "gone"}]

Shape ==
  /\ flash \in [slot : [Slots -> Images], boot : Slots, mark : [Slots -> Marks]]
  /\ running \in Slots
  /\ ota \in OtaRecords
  /\ job \in [todo : {<< >>} \cup CheckTodos \cup InstallTodos, written : Int]

(* An image that has started, or came over a cable, and is whole.          *)
Trusted(slot) == /\ flash.mark[slot] \in {"undefined", "valid"}
                 /\ Good(slot) /\ flash.slot[slot].image.starts

(* The boot choice is trusted, or is on trial with a trusted image behind  *)
(* it.                                                                     *)
Fallback ==
  \/ Trusted(flash.boot)
  \/ /\ flash.mark[flash.boot] \in {"new", "pending"} /\ Good(flash.boot)
     /\ Trusted(Other(flash.boot))

(* A job belongs to the state that announces it.                           *)
JobAnnounced ==
  /\ job.todo \in CheckTodos => ota.state = "CHECKING"
  /\ job.todo \in InstallTodos => ota.state = "DOWNLOADING"

(* While the clock runs the boot choice is the slot it runs from, until an *)
(* install has selected the other one; and a slot is written only from an  *)
(* image that is trusted itself.                                           *)
InstallIsSafe ==
  /\ phase # "bootloader" =>
       \/ flash.boot = running /\ flash.mark[running] # "new"
       \/ /\ flash.boot = Target /\ flash.mark[Target] = "new" /\ Trusted(running)
          /\ ota.state = "INSTALLED" \/ job.todo = <<"done">>
  /\ \A step \in Writing : job.todo = <<step>> => flash.boot = running /\ Trusted(running)
  /\ job.todo = <<"end">> => flash.slot[Target].genuine
  /\ job.todo = <<"boot">> => Good(Target)

ResetIsClean ==
  phase = "bootloader" => job = NoJob /\ ota.state = "IDLE"

(* The view is gone in a clock that is not up to showing it.               *)
AboutOpenOnlyAwake == phase = "bootloader" => about.pc = "closed"

IInv == Shape /\ Fallback /\ JobAnnounced /\ InstallIsSafe /\ ResetIsClean

(***************************************************************************)
(* The shapes a job may have, spelled out once for the steps below.        *)
(***************************************************************************)
LEMMA CheckShape ==
  /\ CheckSteps \in CheckTodos
  /\ \A todo \in CheckTodos :
       /\ todo # << >> /\ todo \notin InstallTodos
       /\ Head(todo) \in {"fetch", "version", "notes", "state"}
       /\ Head(todo) = "state" => Tail(todo) = << >>
       /\ Head(todo) # "state" => Tail(todo) \in CheckTodos
  BY DEF CheckSteps, CheckTodos, InstallTodos, InstallSteps

LEMMA InstallShape ==
  ASSUME NEW todo \in InstallTodos
  PROVE  /\ todo # << >> /\ todo \notin CheckTodos
         /\ Head(todo) \in InstallSteps /\ todo = <<Head(todo)>>
  BY DEF CheckTodos, InstallTodos, InstallSteps

(* What is at the head of a job tells which job it is.                     *)
LEMMA HeadTells ==
  ASSUME Shape, NEW step, Doing(step)
  PROVE  /\ step \in InstallSteps => job.todo = <<step>> /\ job.todo \in InstallTodos
         /\ step \in {"fetch", "version", "notes", "state"} => job.todo \in CheckTodos
  <1>1. job.todo # << >> /\ Head(job.todo) = step
    BY DEF Doing
  <1>2. job.todo \in CheckTodos \/ job.todo \in InstallTodos
    BY <1>1 DEF Shape
  <1>3. CASE job.todo \in CheckTodos
    BY <1>1, <1>3, CheckShape DEF InstallSteps
  <1>4. CASE job.todo \in InstallTodos
    BY <1>1, <1>4, InstallShape DEF InstallSteps
  <1>. QED BY <1>2, <1>3, <1>4

(***************************************************************************)
(* The initial states, and steps that touch none of what IInv speaks of.   *)
(***************************************************************************)
LEMMA InitIInv ==
  ASSUME Init PROVE IInv
  <1>1. PICK first \in Releases, rubbish \in Releases :
          /\ first.starts
          /\ flash = [slot |-> [s \in Slots |->
                 IF s = 0 THEN [image |-> first, whole |-> TRUE, genuine |-> TRUE]
                 ELSE [image |-> rubbish, whole |-> FALSE, genuine |-> FALSE]],
               boot |-> 0, mark |-> [s \in Slots |-> "undefined"]]
          /\ ota = Fresh(first)
    BY DEF Init
  <1>2. running = 0 /\ job = NoJob /\ phase = "up"
    BY DEF Init
  <1>3. NoVersion \in Versions
    BY DEF NoVersion, Versions
  <1>4. Shape
    BY <1>1, <1>2, <1>3 DEF Shape, Slots, Images, Marks, Fresh, NoJob, States, OtaRecords
  <1>5. Trusted(0)
    BY <1>1 DEF Trusted, Good, Slots
  <1>6. job.todo = << >> /\ << >> \notin CheckTodos /\ << >> \notin InstallTodos
    BY <1>2, CheckShape, InstallShape DEF NoJob
  <1>7. \A step : job.todo # <<step>>
    BY <1>6
  <1>8. flash.boot = running /\ flash.mark[running] # "new"
    BY <1>1, <1>2 DEF Slots
  <1>. QED
    BY <1>1, <1>2, <1>4, <1>5, <1>6, <1>7, <1>8
    DEF IInv, Fallback, JobAnnounced, InstallIsSafe, ResetIsClean

LEMMA QuietStep ==
  ASSUME IInv, UNCHANGED <<otaVars, phase>>
  PROVE  IInv'
  BY DEF IInv, Shape, Fallback, JobAnnounced, InstallIsSafe, ResetIsClean, Trusted, Good,
         Target, otaVars

(***************************************************************************)
(* A reset keeps the flash, and the flash is what Fallback is about.       *)
(***************************************************************************)
LEMMA EmptyJob ==
  /\ NoJob.todo = << >> /\ NoJob.written = 0
  /\ << >> \notin CheckTodos /\ << >> \notin InstallTodos
  /\ \A step : << >> # <<step>>
  BY CheckShape, InstallShape DEF NoJob

LEMMA CleanSlate ==
  ASSUME IInv, UNCHANGED running, phase' = "bootloader",
         ota' = Fresh(ota.offered), job' = NoJob,
         flash' = flash
  PROVE  IInv'
  <1>1. NoVersion \in Versions
    BY DEF NoVersion, Versions
  <1>2. Shape'
    BY <1>1, EmptyJob DEF IInv, Shape, Fresh, NoJob, States, OtaRecords
  <1>3. ota'.state = "IDLE" /\ job' = NoJob
    BY DEF Fresh
  <1>4. Fallback'
    BY DEF IInv, Fallback, Trusted, Good
  <1>. QED
    BY <1>2, <1>3, <1>4, EmptyJob DEF IInv, JobAnnounced, InstallIsSafe, ResetIsClean

LEMMA BootStep ==
  ASSUME IInv, Boot
  PROVE  IInv'
  <1>1. /\ phase = "bootloader" /\ phase' = "starting" /\ running' = BootChoice
        /\ flash' = [flash EXCEPT !.boot = BootChoice,
                                  !.mark = [s \in Slots |-> Marked(s)]]
        /\ UNCHANGED <<ota, job>>
    BY DEF Boot
  <1>2. flash \in [slot : [Slots -> Images], boot : Slots, mark : [Slots -> Marks]]
    BY DEF IInv, Shape
  <1>3. BootChoice \in Slots /\ \A s \in Slots : Other(s) \in Slots /\ Other(Other(s)) = s
                                                      /\ Other(s) # s
    BY <1>2 DEF BootChoice, Other, Slots
  <1>4. \A s \in Slots : Marked(s) \in Marks
    BY <1>2 DEF Marked, Marks
  <1>5. /\ flash'.slot = flash.slot /\ flash'.boot = BootChoice
        /\ \A s \in Slots : flash'.mark[s] = Marked(s)
    BY <1>1, <1>2
  <1>6. Shape'
    BY <1>1, <1>2, <1>3, <1>4 DEF IInv, Shape
  <1>7. \/ BootChoice = flash.boot
        \/ BootChoice = Other(flash.boot) /\ Trusted(Other(flash.boot))
    BY <1>2 DEF IInv, Fallback, BootChoice, Doubted, Trusted, Good
  <1>8. CASE BootChoice = flash.boot
    <2>1. CASE Trusted(flash.boot)
      <3>1. Trusted(flash.boot)'
        BY <1>2, <1>3, <1>5, <1>8, <2>1 DEF Trusted, Good, Marked
      <3>. QED BY <1>1, <1>5, <1>6, <3>1, EmptyJob
           DEF IInv, Fallback, JobAnnounced, InstallIsSafe, ResetIsClean, Trusted
    <2>2. CASE ~Trusted(flash.boot)
      <3>1. /\ flash.mark[flash.boot] = "new" /\ Good(flash.boot)
            /\ Trusted(Other(flash.boot))
        BY <1>2, <1>3, <1>8, <2>2 DEF IInv, Fallback, BootChoice, Doubted
      <3>2. /\ flash'.mark[flash.boot] = "pending" /\ Good(flash.boot)'
            /\ Trusted(Other(flash.boot))'
        BY <1>2, <1>3, <1>5, <1>8, <3>1 DEF Trusted, Good, Marked
      <3>. QED BY <1>1, <1>5, <1>6, <1>8, <3>2, EmptyJob
           DEF IInv, Fallback, JobAnnounced, InstallIsSafe, ResetIsClean
    <2>. QED BY <2>1, <2>2
  <1>9. CASE BootChoice = Other(flash.boot) /\ Trusted(Other(flash.boot))
    <2>2. flash'.boot = Other(flash.boot) /\ running' = flash'.boot
      BY <1>1, <1>5, <1>9
    <2>3. Trusted(flash.boot)'
      BY <1>2, <1>3, <1>5, <1>9, <2>2 DEF Trusted, Good, Marked
    <2>. QED BY <1>1, <1>6, <2>2, <2>3, EmptyJob
         DEF IInv, Fallback, JobAnnounced, InstallIsSafe, ResetIsClean, Trusted
  <1>. QED BY <1>7, <1>8, <1>9

(***************************************************************************)
(* The start of the application confirms an image that is on trial, and    *)
(* only one that starts.                                                   *)
(***************************************************************************)
LEMMA StartedStep ==
  ASSUME IInv, Started
  PROVE  IInv'
  <1>1. /\ phase = "starting" /\ phase' = "up" /\ flash.slot[running].image.starts
        /\ flash' = MarkValid /\ UNCHANGED <<running, ota, job>>
    BY DEF Started, Start, Confirms
  <1>2. /\ flash \in [slot : [Slots -> Images], boot : Slots, mark : [Slots -> Marks]]
        /\ running \in Slots
    BY DEF IInv, Shape
  <1>3. CASE flash.mark[running] # "pending"
    <2>1. flash' = flash
      BY <1>1, <1>3 DEF MarkValid
    <2>. QED BY <1>1, <2>1
         DEF IInv, Shape, Fallback, JobAnnounced, InstallIsSafe, ResetIsClean, Trusted,
             Good, Target
  <1>4. CASE flash.mark[running] = "pending"
    <2>1. /\ flash'.slot = flash.slot /\ flash'.boot = flash.boot
          /\ flash'.mark = [flash.mark EXCEPT ![running] = "valid"]
          /\ flash' \in [slot : [Slots -> Images], boot : Slots, mark : [Slots -> Marks]]
      BY <1>1, <1>2, <1>4 DEF MarkValid, Marks
    <2>2. flash.boot = running
      BY <1>1, <1>4 DEF IInv, InstallIsSafe, Trusted
    <2>3. Good(running)
      BY <1>4, <2>2 DEF IInv, Fallback, Trusted
    <2>4. Trusted(flash.boot)' /\ Trusted(running)'
      BY <1>1, <1>2, <2>1, <2>2, <2>3 DEF Trusted, Good
    <2>5. InstallIsSafe'
      BY <1>1, <1>2, <2>1, <2>2, <2>4 DEF IInv, InstallIsSafe, Target, Good, Trusted
    <2>. QED BY <1>1, <2>1, <2>4, <2>5
         DEF IInv, Shape, Fallback, JobAnnounced, ResetIsClean
  <1>. QED BY <1>3, <1>4

LEMMA StartPanicsStep ==
  ASSUME IInv, StartPanics
  PROVE  IInv'
  BY CleanSlate DEF StartPanics, Start, Confirms

LEMMA StartFailsStep ==
  ASSUME IInv, StartFails
  PROVE  IInv'
  <1>1. phase = "starting" /\ phase' = "stuck" /\ UNCHANGED <<flash, running, ota, job>>
    BY DEF StartFails, Start, Confirms
  <1>. QED BY <1>1
       DEF IInv, Shape, Fallback, JobAnnounced, InstallIsSafe, ResetIsClean, Trusted, Good,
           Target

(***************************************************************************)
(* What the caller asks for: a check or an install takes the worker only   *)
(* when no job is on it.                                                   *)
(***************************************************************************)
LEMMA PostStep ==
  ASSUME IInv, NEW state \in {"CHECKING", "DOWNLOADING"}, NEW todo,
         \/ state = "CHECKING" /\ todo \in CheckTodos
         \/ state = "DOWNLOADING" /\ todo = <<"open">>,
         ota.state \notin Busy, ota.state # "INSTALLED", Posts(state, todo),
         phase # "bootloader", UNCHANGED phase
  PROVE  IInv'
  <1>1. job.todo \notin CheckTodos /\ job.todo \notin InstallTodos
    BY DEF IInv, JobAnnounced, Busy
  <1>2. job.todo = << >>
    BY <1>1 DEF IInv, Shape
  <1>3. flash.boot = running /\ flash.mark[running] # "new"
    BY <1>2, EmptyJob DEF IInv, InstallIsSafe
  <1>4. /\ UNCHANGED <<flash, running>>
        /\ ota' = [ota EXCEPT !.percent = 0,
                     !.state = IF ota.worker = "up" THEN state ELSE "FAILED"]
        /\ job' = IF ota.worker = "up" THEN [NoJob EXCEPT !.todo = todo] ELSE job
    BY DEF Posts
  <1>5. <<"open">> \in InstallTodos
    BY DEF InstallTodos, InstallSteps
  <1>6. Shape'
    <2>1. ota' \in OtaRecords
      <3>1. (IF ota.worker = "up" THEN state ELSE "FAILED") \in States
        BY DEF States
      <3>2. ota \in OtaRecords /\ 0 \in Int
        BY DEF IInv, Shape
      <3>. QED BY <1>4, <3>1, <3>2 DEF OtaRecords
    <2>2. todo \in CheckTodos \cup InstallTodos
      BY <1>5
    <2>3. [NoJob EXCEPT !.todo = todo] = [todo |-> todo, written |-> 0]
      BY DEF NoJob
    <2>4. job' \in [todo : {<< >>} \cup CheckTodos \cup InstallTodos, written : Int]
      BY <1>4, <2>2, <2>3 DEF IInv, Shape
    <2>. QED BY <1>4, <2>1, <2>4 DEF IInv, Shape
  <1>7. \/ job'.todo = << >>
        \/ job'.todo \in CheckTodos /\ ota'.state = "CHECKING"
        \/ job'.todo = <<"open">> /\ ota'.state = "DOWNLOADING"
    BY <1>2, <1>4 DEF NoJob, IInv, Shape
  <1>8. JobAnnounced'
    BY <1>5, <1>7, CheckShape, InstallShape, EmptyJob DEF JobAnnounced
  <1>9. \A step \in Writing : job'.todo # <<step>>
    <2>1. \A step \in Writing : <<step>> \in InstallTodos /\ <<step>> # <<"open">>
      BY DEF Writing, InstallTodos, InstallSteps
    <2>. QED BY <1>7, <2>1, CheckShape, EmptyJob
  <1>10. InstallIsSafe'
    <2>1. job'.todo # <<"end">> /\ job'.todo # <<"boot">>
      BY <1>9 DEF Writing
    <2>. QED BY <1>3, <1>4, <1>9, <2>1 DEF InstallIsSafe
  <1>. QED BY <1>4, <1>6, <1>8, <1>10 DEF IInv, Fallback, ResetIsClean, Trusted, Good

LEMMA FailureTyped ==
  ASSUME ota \in OtaRecords, PublishFailure
  PROVE  ota' \in OtaRecords /\ ota'.state = "FAILED"
  <1>1. ota' = [ota EXCEPT !.state = "FAILED", !.percent = 0]
    BY DEF PublishFailure
  <1>2. "FAILED" \in States /\ 0 \in Int
    BY DEF States
  <1>. QED BY <1>1, <1>2 DEF OtaRecords

(***************************************************************************)
(* check_private touches no slot.                                          *)
(***************************************************************************)
LEMMA CheckJobStep ==
  ASSUME IInv, FetchFails \/ Fetched \/ PublishVersion \/ PublishNotes \/ PublishVerdict,
         UNCHANGED phase
  PROVE  IInv'
  <1>1. job.todo \in CheckTodos /\ ota.state = "CHECKING"
    <2>1. \E step \in {"fetch", "version", "notes", "state"} : Doing(step)
      BY DEF FetchFails, Fetched, PublishVersion, PublishNotes, PublishVerdict
    <2>. QED BY <2>1, HeadTells DEF IInv, JobAnnounced
  <1>2. UNCHANGED <<flash, running>>
    BY DEF FetchFails, Fetched, PublishVersion, PublishNotes, PublishVerdict
  <1>3. \/ job'.todo = << >>
        \/ job'.todo \in CheckTodos /\ ota'.state = "CHECKING"
    <2>1. CASE FetchFails
      BY <2>1, EmptyJob DEF FetchFails
    <2>2. CASE Fetched
      BY <1>1, <2>2, CheckShape DEF Fetched, Doing, Done, IInv, Shape
    <2>3. CASE PublishVersion
      BY <1>1, <2>3, CheckShape DEF PublishVersion, Doing, Done, IInv, Shape
    <2>4. CASE PublishNotes
      BY <1>1, <2>4, CheckShape DEF PublishNotes, Doing, Done, IInv, Shape
    <2>5. CASE PublishVerdict
      BY <1>1, <2>5, CheckShape DEF PublishVerdict, Doing, Done, IInv, Shape
    <2>. QED BY <2>1, <2>2, <2>3, <2>4, <2>5
  <1>4. ota' \in OtaRecords
    <2>1. ota.offered.version \in Versions
      BY OtaAssumption DEF IInv, Shape, OtaAssumption, OtaRecords
    <2>2. ota \in OtaRecords /\ {"FAILED", "AVAILABLE", "UP_TO_DATE"} \subseteq States
      BY DEF IInv, Shape, States
    <2>3. CASE FetchFails
      BY <2>2, <2>3, FailureTyped DEF FetchFails
    <2>4. CASE Fetched
      BY <2>2, <2>4 DEF Fetched, OtaRecords
    <2>5. CASE PublishVersion
      BY <2>1, <2>2, <2>5 DEF PublishVersion, OtaRecords
    <2>6. CASE PublishNotes
      BY <2>1, <2>2, <2>6 DEF PublishNotes, OtaRecords
    <2>7. CASE PublishVerdict
      BY <2>2, <2>7 DEF PublishVerdict, OtaRecords
    <2>. QED BY <2>3, <2>4, <2>5, <2>6, <2>7
  <1>5. job' = NoJob \/ job' = [job EXCEPT !.todo = Tail(job.todo)]
    BY DEF FetchFails, Fetched, PublishVersion, PublishNotes, PublishVerdict, Done
  <1>6. job' \in [todo : {<< >>} \cup CheckTodos \cup InstallTodos, written : Int]
    BY <1>3, <1>5, EmptyJob DEF IInv, Shape, NoJob
  <1>7. \A step : job'.todo # <<step>> \/ step \notin InstallSteps
    <2>1. \A step \in InstallSteps : <<step>> \in InstallTodos
      BY DEF InstallTodos
    <2>. QED BY <1>3, <2>1, CheckShape, EmptyJob
  <1>8. (flash.boot = running /\ flash.mark[running] # "new") \/ phase = "bootloader"
    <2>1. job.todo # <<"done">>
      BY <1>1, CheckShape DEF InstallTodos, InstallSteps
    <2>. QED BY <1>1, <2>1 DEF IInv, InstallIsSafe
  <1>9. phase # "bootloader"
    BY <1>1, EmptyJob DEF IInv, ResetIsClean, States
  <1>10. InstallIsSafe'
    BY <1>2, <1>7, <1>8, <1>9 DEF InstallIsSafe, Writing, InstallSteps
  <1>11. JobAnnounced'
    BY <1>3, CheckShape, EmptyJob DEF JobAnnounced
  <1>. QED BY <1>2, <1>4, <1>6, <1>9, <1>10, <1>11
       DEF IInv, Shape, Fallback, ResetIsClean, Trusted, Good

(***************************************************************************)
(* download_image, up to the step that selects the slot: it writes the     *)
(* slot that does not run, from an image that is trusted.                  *)
(***************************************************************************)
LEMMA InstallJob ==
  ASSUME IInv, NEW step \in InstallSteps, Doing(step)
  PROVE  /\ job.todo = <<step>> /\ ota.state = "DOWNLOADING"
         /\ phase # "bootloader"
         /\ step # "done" => flash.boot = running /\ flash.mark[running] # "new"
  <1>1. job.todo = <<step>> /\ job.todo \in InstallTodos
    BY HeadTells DEF IInv
  <1>2. ota.state = "DOWNLOADING" /\ phase # "bootloader"
    BY <1>1 DEF IInv, JobAnnounced, ResetIsClean
  <1>3. step # "done" => <<step>> # <<"done">>
    OBVIOUS
  <1>. QED BY <1>1, <1>2, <1>3 DEF IInv, InstallIsSafe

LEMMA RunningTarget ==
  ASSUME IInv
  PROVE  /\ running \in Slots /\ Target \in Slots /\ Target # running
         /\ Other(running) = Target /\ Other(Target) = running
         /\ running' = running => Target' = Target
  BY DEF IInv, Shape, Target, Other, Slots

(* A step of an install that leaves the flash as it is.                    *)
LEMMA InstallStepKeepsFlash ==
  ASSUME IInv, NEW step \in InstallSteps \ {"done"}, Doing(step),
         UNCHANGED <<flash, running, phase>>, ota' \in OtaRecords, job'.written \in Int,
         NEW next, job' = [todo |-> next, written |-> job'.written],
         \/ next = << >>
         \/ /\ next \in {<<"read">>, <<"sum">>, <<"fail">>}
            /\ ota'.state = "DOWNLOADING"
            /\ step = "read" \/ next = <<"fail">>
         \/ next = <<"end">> /\ ota'.state = "DOWNLOADING" /\ step = "sum"
            /\ flash.slot[Target].genuine
  PROVE  IInv'
  <1>1. /\ job.todo = <<step>> /\ phase # "bootloader"
        /\ flash.boot = running /\ flash.mark[running] # "new"
    BY InstallJob
  <1>2. next \in {<< >>} \cup InstallTodos
    BY DEF InstallTodos, InstallSteps
  <1>3. Shape'
    BY <1>2 DEF IInv, Shape
  <1>4. next # << >> => step \in Writing \/ next = <<"fail">>
    BY DEF Writing
  <1>5. step \in Writing => Trusted(running)
    BY <1>1 DEF IInv, InstallIsSafe
  <1>6. \A s \in Writing : <<"fail">> # <<s>> /\ << >> # <<s>>
    BY EmptyJob DEF Writing
  <1>7. next = <<"end">> => flash.slot[Target].genuine
    BY <1>6 DEF Writing
  <1>8. next # <<"boot">>
    <2>1. /\ <<"read">> # <<"boot">> /\ <<"sum">> # <<"boot">> /\ <<"fail">> # <<"boot">>
          /\ <<"end">> # <<"boot">> /\ << >> # <<"boot">>
      OBVIOUS
    <2>. QED BY <2>1
  <1>9. InstallIsSafe'
    BY <1>1, <1>4, <1>5, <1>6, <1>7, <1>8, RunningTarget DEF InstallIsSafe, Trusted, Good
  <1>10. JobAnnounced'
    BY <1>2, InstallShape, EmptyJob DEF JobAnnounced
  <1>. QED BY <1>1, <1>3, <1>9, <1>10 DEF IInv, Fallback, ResetIsClean, Trusted, Good

(* A step of an install that writes the slot that does not run.            *)
LEMMA InstallStepWrites ==
  ASSUME IInv, NEW step \in InstallSteps \ {"done"}, Doing(step), Trusted(running),
         UNCHANGED <<running, phase>>, ota' \in OtaRecords, job'.written \in Int,
         ota'.state = "DOWNLOADING",
         NEW image \in Images, flash' = [flash EXCEPT !.slot[Target] = image],
         NEW next, job' = [todo |-> <<next>>, written |-> job'.written],
         \/ next \in {"read", "sum", "fail"}
         \/ next = "boot" /\ image.whole /\ image.genuine
  PROVE  IInv'
  <1>1. /\ job.todo = <<step>> /\ phase # "bootloader"
        /\ flash.boot = running /\ flash.mark[running] # "new"
    BY InstallJob
  <1>2. /\ flash'.boot = flash.boot /\ flash'.mark = flash.mark
        /\ flash'.slot = [flash.slot EXCEPT ![Target] = image]
        /\ flash' \in [slot : [Slots -> Images], boot : Slots, mark : [Slots -> Marks]]
    BY RunningTarget DEF IInv, Shape
  <1>3. flash'.slot[running] = flash.slot[running] /\ flash'.slot[Target] = image
    BY <1>2, RunningTarget DEF IInv, Shape
  <1>4. Trusted(running)' /\ Trusted(flash.boot)'
    BY <1>1, <1>2, <1>3 DEF Trusted, Good
  <1>5. next \in InstallSteps /\ <<next>> \in InstallTodos
    BY DEF InstallSteps, InstallTodos
  <1>6. Shape'
    BY <1>2, <1>5 DEF IInv, Shape
  <1>7. next # "boot" => <<next>> # <<"boot">>
    OBVIOUS
  <1>8. next # "end" /\ <<next>> # <<"end">>
    OBVIOUS
  <1>9. InstallIsSafe'
    BY <1>1, <1>2, <1>3, <1>4, <1>7, <1>8, RunningTarget DEF InstallIsSafe, Good
  <1>10. JobAnnounced'
    BY <1>5, InstallShape DEF JobAnnounced
  <1>. QED BY <1>1, <1>4, <1>6, <1>9, <1>10 DEF IInv, Fallback, ResetIsClean

LEMMA InstallJobStep ==
  ASSUME IInv, UNCHANGED phase,
         \/ OpenImage \/ ReadChunk \/ SumImage \/ EndImage \/ SelectImage
         \/ InstallStepFails \/ Installed \/ InstallFailed
  PROVE  IInv'
  <1>1. /\ ota \in OtaRecords /\ job.written \in Int /\ job = [todo |-> job.todo, written |-> job.written]
        /\ flash \in [slot : [Slots -> Images], boot : Slots, mark : [Slots -> Marks]]
        /\ flash.slot[Target] \in Images
    BY RunningTarget DEF IInv, Shape
  <1>2. ASSUME NEW step \in Writing, Doing(step) PROVE Trusted(running)
    BY <1>2, InstallJob DEF IInv, InstallIsSafe, Writing, InstallSteps
  <1>3. CASE OpenImage
    <2>1. /\ Doing("open") /\ flash.mark[running] # "pending"
          /\ flash' = [flash EXCEPT !.slot[Target] =
                         [image |-> ota.offered, whole |-> FALSE, genuine |-> TRUE]]
          /\ job' = [job EXCEPT !.todo = <<"read">>] /\ UNCHANGED <<running, ota>>
      BY <1>3 DEF OpenImage, Goes
    <2>2. Trusted(running)
      BY <2>1, InstallJob DEF IInv, Fallback, InstallSteps
    <2>3. [image |-> ota.offered, whole |-> FALSE, genuine |-> TRUE] \in Images
      BY <1>1 DEF Images, OtaRecords
    <2>4. job' = [todo |-> <<"read">>, written |-> job'.written] /\ job'.written \in Int
      BY <1>1, <2>1
    <2>5. "open" \in InstallSteps \ {"done"} /\ ota.state = "DOWNLOADING"
      BY <2>1, InstallJob DEF InstallSteps
    <2>. QED BY <1>1, <1>3, <2>1, <2>2, <2>3, <2>4, <2>5, InstallStepWrites
  <1>4. CASE ReadChunk
    <2>1. Doing("read") /\ UNCHANGED running
      BY <1>4 DEF ReadChunk
    <2>2. PICK corrupt \in BOOLEAN :
            flash' = IF corrupt THEN [flash EXCEPT !.slot[Target].genuine = FALSE] ELSE flash
      BY <1>4 DEF ReadChunk
    <2>3. Trusted(running)
      BY <1>2, <2>1 DEF Writing
    <2>4. PICK next \in {"read", "sum", "fail"} :
            job' = [todo |-> <<next>>, written |-> job.written + 1]
      BY <1>4 DEF ReadChunk
    <2>5. "read" \in InstallSteps \ {"done"} /\ ota.state = "DOWNLOADING"
      BY <2>1, InstallJob DEF InstallSteps
    <2>6. ((job.written + 1) * 100) \div Chunks \in Int
      BY <1>1, OtaAssumption DEF OtaAssumption
    <2>7. ota' = [ota EXCEPT !.percent = ((job.written + 1) * 100) \div Chunks]
      BY <1>4 DEF ReadChunk
    <2>8. ota' \in OtaRecords /\ ota'.state = "DOWNLOADING"
      BY <1>1, <2>5, <2>6, <2>7 DEF OtaRecords
    <2>9. DEFINE kept == flash.slot[Target]
                 image == IF corrupt THEN [kept EXCEPT !.genuine = FALSE] ELSE kept
    <2>10. image \in Images
      BY <1>1 DEF Images
    <2>11. flash' = [flash EXCEPT !.slot[Target] = image]
      BY <1>1, <2>2, RunningTarget
    <2>12. job' = [todo |-> <<next>>, written |-> job'.written] /\ job'.written \in Int
      BY <1>1, <2>4
    <2>. HIDE DEF image
    <2>. QED BY <2>1, <2>3, <2>5, <2>8, <2>10, <2>11, <2>12, InstallStepWrites
  <1>5. CASE SumImage
    <2>1. /\ Doing("sum") /\ flash.slot[Target].genuine /\ UNCHANGED <<flash, running, ota>>
          /\ job' = [job EXCEPT !.todo = <<"end">>]
      BY <1>5 DEF SumImage, ChecksumMatches, Goes
    <2>2. job' = [todo |-> <<"end">>, written |-> job'.written] /\ job'.written \in Int
      BY <1>1, <2>1
    <2>3. "sum" \in InstallSteps \ {"done"} /\ ota.state = "DOWNLOADING"
      BY <2>1, InstallJob DEF InstallSteps
    <2>. QED BY <1>1, <2>1, <2>2, <2>3, InstallStepKeepsFlash
  <1>6. CASE EndImage
    <2>1. /\ Doing("end") /\ flash' = [flash EXCEPT !.slot[Target].whole = TRUE]
          /\ job' = [job EXCEPT !.todo = <<"boot">>] /\ UNCHANGED <<running, ota>>
      BY <1>6 DEF EndImage, Goes
    <2>2. Trusted(running)
      BY <1>2, <2>1 DEF Writing
    <2>3. "end" \in InstallSteps \ {"done"} /\ ota.state = "DOWNLOADING"
          /\ job.todo = <<"end">>
      BY <2>1, InstallJob DEF InstallSteps
    <2>4. flash.slot[Target].genuine
      BY <2>3 DEF IInv, InstallIsSafe
    <2>5. DEFINE kept == flash.slot[Target]
                 image == [kept EXCEPT !.whole = TRUE]
    <2>6. image \in Images /\ image.whole /\ image.genuine
      BY <1>1, <2>4 DEF Images
    <2>7. flash' = [flash EXCEPT !.slot[Target] = image]
      BY <1>1, <2>1, RunningTarget
    <2>8. job' = [todo |-> <<"boot">>, written |-> job'.written] /\ job'.written \in Int
      BY <1>1, <2>1
    <2>. HIDE DEF image
    <2>. QED BY <1>1, <2>1, <2>2, <2>3, <2>6, <2>7, <2>8, InstallStepWrites
  <1>7. CASE SelectImage
    <2>1. /\ Doing("boot") /\ UNCHANGED <<running, ota>>
          /\ flash' = [flash EXCEPT !.boot = Target, !.mark[Target] = "new"]
          /\ job' = [job EXCEPT !.todo = <<"done">>]
      BY <1>7 DEF SelectImage, Goes
    <2>2. Trusted(running)
      BY <1>2, <2>1 DEF Writing
    <2>3. job.todo = <<"boot">> /\ ota.state = "DOWNLOADING" /\ phase # "bootloader"
      BY <2>1, InstallJob DEF InstallSteps
    <2>4. Good(Target)
      BY <2>3 DEF IInv, InstallIsSafe
    <2>5. /\ flash'.slot = flash.slot /\ flash'.boot = Target
          /\ flash'.mark = [flash.mark EXCEPT ![Target] = "new"]
          /\ flash' \in [slot : [Slots -> Images], boot : Slots, mark : [Slots -> Marks]]
      BY <1>1, <2>1, RunningTarget DEF Marks
    <2>6. Trusted(running)' /\ Good(flash.boot)' /\ flash'.mark[flash'.boot] = "new"
      BY <1>1, <2>1, <2>2, <2>4, <2>5, RunningTarget DEF Trusted, Good
    <2>7. Trusted(Other(flash.boot))'
      BY <2>1, <2>5, <2>6, RunningTarget DEF Trusted, Good
    <2>8. job' = [todo |-> <<"done">>, written |-> job'.written] /\ job'.written \in Int
      BY <1>1, <2>1
    <2>9. <<"done">> \in InstallTodos
      BY DEF InstallTodos, InstallSteps
    <2>10. \A s \in Writing : <<s>> # <<"done">>
      BY DEF Writing
    <2>11. <<"end">> # <<"done">> /\ <<"boot">> # <<"done">>
      OBVIOUS
    <2>12. Shape'
      BY <2>1, <2>5, <2>8, <2>9 DEF IInv, Shape
    <2>13. InstallIsSafe'
      BY <2>1, <2>5, <2>6, <2>8, <2>10, <2>11, RunningTarget DEF InstallIsSafe
    <2>14. JobAnnounced'
      BY <2>1, <2>3, <2>8, <2>9, InstallShape DEF JobAnnounced
    <2>. QED BY <2>3, <2>6, <2>7, <2>12, <2>13, <2>14 DEF IInv, Fallback, ResetIsClean
  <1>8. CASE InstallStepFails
    <2>1. PICK step \in Writing \cup {"open"} : Doing(step)
      BY <1>8 DEF InstallStepFails, Writing
    <2>2. /\ UNCHANGED <<flash, running, ota>>
          /\ job' = [todo |-> <<"fail">>, written |-> job'.written] /\ job'.written \in Int
      BY <1>1, <1>8 DEF InstallStepFails, Goes
    <2>3. step \in InstallSteps \ {"done"} /\ ota.state = "DOWNLOADING"
      BY <2>1, InstallJob DEF InstallSteps, Writing
    <2>. QED BY <1>1, <2>1, <2>2, <2>3, InstallStepKeepsFlash
  <1>9. CASE Installed
    <2>1. /\ Doing("done") /\ job' = NoJob /\ UNCHANGED <<flash, running>>
          /\ ota' = [ota EXCEPT !.percent = 100, !.state = "INSTALLED"]
      BY <1>9 DEF Installed
    <2>2. job.todo = <<"done">> /\ phase # "bootloader" /\ ota.state = "DOWNLOADING"
      BY <2>1, InstallJob DEF InstallSteps
    <2>3. 100 \in Int /\ "INSTALLED" \in States
      BY DEF States
    <2>4. ota' \in OtaRecords /\ ota'.state = "INSTALLED"
      BY <1>1, <2>1, <2>3 DEF OtaRecords
    <2>5. Shape'
      BY <2>1, <2>4, EmptyJob DEF IInv, Shape, NoJob
    <2>6. InstallIsSafe'
      BY <2>1, <2>2, <2>4, EmptyJob, RunningTarget
      DEF IInv, InstallIsSafe, Trusted, Good
    <2>7. JobAnnounced'
      BY <2>1, EmptyJob DEF JobAnnounced
    <2>. QED BY <2>1, <2>2, <2>5, <2>6, <2>7 DEF IInv, Fallback, ResetIsClean, Trusted, Good
  <1>10. CASE InstallFailed
    <2>1. Doing("fail") /\ job' = NoJob /\ UNCHANGED <<flash, running>> /\ PublishFailure
      BY <1>10 DEF InstallFailed
    <2>2. ota' \in OtaRecords
      BY <1>1, <2>1, FailureTyped
    <2>3. job' = [todo |-> << >>, written |-> job'.written] /\ job'.written \in Int
      BY <2>1 DEF NoJob
    <2>4. "fail" \in InstallSteps \ {"done"}
      BY DEF InstallSteps
    <2>. QED BY <2>1, <2>2, <2>3, <2>4, InstallStepKeepsFlash
  <1>. QED BY <1>3, <1>4, <1>5, <1>6, <1>7, <1>8, <1>9, <1>10

(***************************************************************************)
(* The view looks and presses; the destructor only tells the worker.       *)
(***************************************************************************)
LEMMA AboutStepKeeps ==
  ASSUME IInv, AboutOpenOnlyAwake, AboutStep
  PROVE  IInv'
  <1>1. CASE OpenAbout \/ CloseAbout \/ Poll \/ CopyStrings \/ RefreshAfterPress
    BY <1>1, QuietStep DEF OpenAbout, CloseAbout, Poll, CopyStrings, RefreshAfterPress
  <1>2. CASE PressRestart
    BY <1>2, CleanSlate DEF PressRestart, Reset
  <1>3. CASE PressInstall
    <2>1. /\ ota.state = "AVAILABLE" /\ Posts("DOWNLOADING", <<"open">>)
          /\ UNCHANGED phase /\ phase # "bootloader"
      BY <1>3 DEF PressInstall, Install, Pressed, ButtonEnabled, AboutOpenOnlyAwake
    <2>. QED BY <2>1, PostStep DEF Busy
  <1>4. CASE PressCheck
    <2>1. /\ ota.state \notin Busy /\ ota.state # "INSTALLED"
          /\ Posts("CHECKING", CheckSteps) /\ UNCHANGED phase /\ phase # "bootloader"
      BY <1>4 DEF PressCheck, Check, Pressed, ButtonEnabled, AboutOpenOnlyAwake
    <2>. QED BY <2>1, PostStep, CheckShape
  <1>. QED BY <1>1, <1>2, <1>3, <1>4 DEF AboutStep

LEMMA DtorStepKeeps ==
  ASSUME IInv, DtorBegins \/ DtorEnds
  PROVE  IInv'
  <1>1. UNCHANGED <<flash, running, job, phase>> /\ ota'.state = ota.state
    BY DEF DtorBegins, DtorEnds, IInv, Shape, OtaRecords
  <1>2. ota' \in OtaRecords
    BY DEF DtorBegins, DtorEnds, IInv, Shape, OtaRecords
  <1>. QED BY <1>1, <1>2
       DEF IInv, Shape, Fallback, JobAnnounced, InstallIsSafe, ResetIsClean, Trusted, Good,
           Target

LEMMA ViewStep ==
  ASSUME AboutOpenOnlyAwake, [Next]_vars
  PROVE  AboutOpenOnlyAwake'
  <1>1. CASE Boot \/ Started \/ StartFails
    BY <1>1 DEF Boot, Started, StartFails, AboutOpenOnlyAwake
  <1>2. CASE StartPanics \/ PowerCut \/ CycleStuck \/ PressRestart
    BY <1>2 DEF StartPanics, PowerCut, CycleStuck, PressRestart, Reset, Closed,
                AboutOpenOnlyAwake
  <1>3. CASE OtaRuns \/ DtorBegins \/ DtorEnds \/ UNCHANGED vars
    BY <1>3 DEF OtaRuns, DtorBegins, DtorEnds, vars, AboutOpenOnlyAwake
  <1>4. CASE OpenAbout
    BY <1>4 DEF OpenAbout, Awake, AboutOpenOnlyAwake
  <1>5. CASE \/ CloseAbout \/ Poll \/ CopyStrings \/ RefreshAfterPress
             \/ PressInstall \/ PressCheck
    <2>1. about.pc # "closed" /\ UNCHANGED phase
      BY <1>5 DEF CloseAbout, Poll, CopyStrings, RefreshAfterPress, PressInstall,
                  PressCheck, Pressed, ButtonEnabled
    <2>. QED BY <2>1 DEF AboutOpenOnlyAwake
  <1>. QED BY <1>1, <1>2, <1>3, <1>4, <1>5 DEF Next, Starting, AboutStep

LEMMA NextStep ==
  ASSUME IInv, AboutOpenOnlyAwake, [Next]_vars
  PROVE  IInv'
  <1>1. CASE Boot
    BY <1>1, BootStep
  <1>2. CASE Starting
    BY <1>2, StartedStep, StartPanicsStep, StartFailsStep DEF Starting
  <1>3. CASE PowerCut \/ CycleStuck
    BY <1>3, CleanSlate DEF PowerCut, CycleStuck, Reset
  <1>4. CASE OtaRuns
    BY <1>4, CheckJobStep, InstallJobStep DEF OtaRuns, OtaWorkerStep
  <1>5. CASE AboutStep
    BY <1>5, AboutStepKeeps
  <1>6. CASE DtorBegins \/ DtorEnds
    BY <1>6, DtorStepKeeps
  <1>7. CASE UNCHANGED vars
    BY <1>7, QuietStep DEF vars
  <1>. QED BY <1>1, <1>2, <1>3, <1>4, <1>5, <1>6, <1>7 DEF Next

(***************************************************************************)
(* Whatever moment the power goes at, the boot choice is a whole image     *)
(* that matched its checksum, with a trusted one behind it while it is on  *)
(* trial: nn20clock_ota.c never writes the slot a reset depends on.        *)
(***************************************************************************)
THEOREM UpdateNeverBricks == Spec => []NeverBricked
  <1>1. Init => IInv /\ AboutOpenOnlyAwake
    BY InitIInv DEF Init, AboutOpenOnlyAwake, Closed
  <1>2. IInv /\ AboutOpenOnlyAwake /\ [Next]_vars => IInv' /\ AboutOpenOnlyAwake'
    BY NextStep, ViewStep
  <1>3. IInv => NeverBricked
    <2>. SUFFICES ASSUME IInv PROVE NeverBricked
      OBVIOUS
    <2>1. CASE Trusted(flash.boot)
      BY <2>1 DEF NeverBricked, Trusted
    <2>2. CASE ~Trusted(flash.boot)
      BY <2>2 DEF NeverBricked, IInv, Fallback, Trusted
    <2>. QED BY <2>1, <2>2
  <1>. QED BY <1>1, <1>2, <1>3, PTL DEF Spec

(***************************************************************************)
(* The release the About view tells of.  The worker publishes the strings  *)
(* before the state that makes them readable, and writes only the release  *)
(* it published; a view that has loaded such a state is told of the same   *)
(* release, because no check can begin before its next press.              *)
(***************************************************************************)
Offering == {"AVAILABLE", "DOWNLOADING", "INSTALLED"}
Told == ota.version = ota.offered.version /\ ota.notes = ota.offered.version

OfferIsTold ==
  /\ ota.state \in Offering => Told
  /\ job.todo \in {<<"notes", "state">>, <<"state">>} => ota.version = ota.offered.version
  /\ job.todo = <<"state">> => ota.notes = ota.offered.version

WrittenIsOffered ==
  /\ \A step \in Writing \cup {"done"} :
       job.todo = <<step>> => flash.slot[Target].image = ota.offered
  /\ job.todo = <<"done">> => flash.boot = Target
  /\ ota.state = "INSTALLED" => /\ ota.percent = 100 /\ flash.boot = Target
                                /\ flash.slot[Target].image = ota.offered

LoadedIsTold ==
  about.pc = "copy" =>
    /\ about.loaded \in Offering => Told /\ ota.state # "CHECKING"
    /\ about.loaded = "INSTALLED" => ota.state = "INSTALLED"

ShownIsTold ==
  about.pc = "open" =>
    /\ about.shown.state \in Offering =>
         /\ about.shown.version = ota.offered.version
         /\ about.shown.notes = ota.offered.version
         /\ ota.state # "CHECKING"
    /\ about.shown.state = "INSTALLED" =>
         about.shown.percent = 100 /\ ota.state = "INSTALLED"

ViewTyped ==
  about \in [pc : {"closed", "open", "copy", "refresh"}, loaded : States \cup {"none"},
            shown : [state : States \cup {"none"}, percent : Int, version : Versions,
                     notes : Versions]]

TellInv == ViewTyped /\ OfferIsTold /\ WrittenIsOffered /\ LoadedIsTold /\ ShownIsTold

LEMMA InitTellInv ==
  ASSUME Init PROVE TellInv
  <1>1. job.todo = << >> /\ ota.state = "IDLE" /\ about.pc = "closed"
    BY DEF Init, NoJob, Fresh, Closed
  <1>2. job.todo # <<"notes", "state">> /\ \A step : job.todo # <<step>>
    BY <1>1, EmptyJob
  <1>3. ViewTyped
    BY DEF Init, ViewTyped, Closed, NoView, NoVersion, Versions
  <1>. QED BY <1>1, <1>2, <1>3
       DEF TellInv, OfferIsTold, WrittenIsOffered, LoadedIsTold, ShownIsTold, Offering

(* A reset, a boot and a start offer nothing and write nothing.            *)
LEMMA RestartTells ==
  ASSUME IInv, AboutOpenOnlyAwake, TellInv,
         Boot \/ StartPanics \/ PowerCut \/ CycleStuck \/ PressRestart
  PROVE  TellInv'
  <1>1. job'.todo = << >> /\ ota'.state = "IDLE" /\ about'.pc = "closed"
    BY EmptyJob
    DEF Boot, StartPanics, PowerCut, CycleStuck, PressRestart, Reset, Fresh, Closed, IInv,
        ResetIsClean, AboutOpenOnlyAwake
  <1>2. job'.todo # <<"notes", "state">> /\ \A step : job'.todo # <<step>>
    BY <1>1, EmptyJob
  <1>3. about' = about \/ about' = Closed
    BY DEF Boot, StartPanics, PowerCut, CycleStuck, PressRestart, Reset
  <1>4. ViewTyped'
    BY <1>3 DEF TellInv, ViewTyped, Closed, NoView, NoVersion, Versions
  <1>. QED BY <1>1, <1>2, <1>4
       DEF TellInv, OfferIsTold, WrittenIsOffered, LoadedIsTold, ShownIsTold, Offering

LEMMA StartTells ==
  ASSUME IInv, TellInv, Started \/ StartFails
  PROVE  TellInv'
  <1>1. /\ flash'.slot = flash.slot /\ flash'.boot = flash.boot
        /\ UNCHANGED <<running, ota, job, about>>
    BY DEF Started, StartFails, Start, Confirms, MarkValid, IInv, Shape
  <1>. QED BY <1>1
       DEF TellInv, ViewTyped, OfferIsTold, WrittenIsOffered, LoadedIsTold, ShownIsTold,
           Told, Target

(***************************************************************************)
(* A check: the view has loaded nothing it may read while one runs.        *)
(***************************************************************************)
LEMMA CheckTells ==
  ASSUME IInv, TellInv, UNCHANGED about,
         FetchFails \/ Fetched \/ PublishVersion \/ PublishNotes \/ PublishVerdict
  PROVE  TellInv'
  <1>1. PICK step \in {"fetch", "version", "notes", "state"} : Doing(step)
    BY DEF FetchFails, Fetched, PublishVersion, PublishNotes, PublishVerdict
  <1>2. ota.state = "CHECKING" /\ job.todo \in CheckTodos /\ ota \in OtaRecords
    BY <1>1, HeadTells DEF IInv, JobAnnounced, Shape
  <1>3. /\ about.pc = "copy" => about.loaded \notin Offering
        /\ about.pc = "open" => about.shown.state \notin Offering
    BY <1>2 DEF TellInv, LoadedIsTold, ShownIsTold
  <1>4. LoadedIsTold' /\ ShownIsTold' /\ ViewTyped'
    BY <1>3 DEF TellInv, ViewTyped, LoadedIsTold, ShownIsTold, Offering
  <1>5. ota'.state # "INSTALLED" /\ \A s \in Writing \cup {"done"} : job'.todo # <<s>>
    <2>1. ota'.state # "INSTALLED"
      BY <1>2 DEF FetchFails, Fetched, PublishVersion, PublishNotes, PublishVerdict,
                  PublishFailure, OtaRecords
    <2>2. job'.todo = << >> \/ (job'.todo = Tail(job.todo) /\ Head(job.todo) = step)
      BY <1>1 DEF FetchFails, Fetched, PublishVersion, PublishNotes, PublishVerdict, Done,
                  NoJob, Doing, IInv, Shape
    <2>3. job'.todo \in {<< >>} \cup CheckTodos
      BY <1>2, <2>2, CheckShape
    <2>4. \A s \in Writing \cup {"done"} : <<s>> \in InstallTodos
      BY DEF Writing, InstallTodos, InstallSteps
    <2>. QED BY <2>1, <2>3, <2>4, CheckShape, EmptyJob
  <1>6. WrittenIsOffered'
    <2>1. job'.todo # <<"done">>
      BY <1>5
    <2>. QED BY <1>5, <2>1 DEF WrittenIsOffered
  <1>7. OfferIsTold'
    <2>1. CASE FetchFails
      BY <2>1, EmptyJob DEF FetchFails, PublishFailure, OfferIsTold, Offering, OtaRecords, NoJob
    <2>2. CASE Fetched
      <3>1. job.todo = <<"fetch", "version", "notes", "state">>
        BY <1>2, <2>2 DEF Fetched, Doing, CheckTodos
      <3>2. job'.todo = <<"version", "notes", "state">> /\ ota'.state = "CHECKING"
        BY <1>2, <2>2, <3>1 DEF Fetched, Done, IInv, Shape, OtaRecords
      <3>. QED BY <3>2 DEF OfferIsTold, Offering
    <2>3. CASE PublishVersion
      <3>1. job.todo = <<"version", "notes", "state">>
        BY <1>2, <2>3 DEF PublishVersion, Doing, CheckTodos
      <3>2. /\ job'.todo = <<"notes", "state">> /\ ota'.state = "CHECKING"
            /\ ota'.version = ota'.offered.version
        BY <1>2, <2>3, <3>1 DEF PublishVersion, Done, IInv, Shape, OtaRecords
      <3>. QED BY <3>2 DEF OfferIsTold, Offering
    <2>4. CASE PublishNotes
      <3>1. job.todo = <<"notes", "state">>
        BY <1>2, <2>4 DEF PublishNotes, Doing, CheckTodos
      <3>2. /\ job'.todo = <<"state">> /\ ota'.state = "CHECKING"
            /\ ota'.version = ota.version /\ ota'.offered = ota.offered
            /\ ota'.notes = ota'.offered.version
        BY <1>2, <2>4, <3>1 DEF PublishNotes, Done, IInv, Shape, OtaRecords
      <3>. QED BY <3>1, <3>2 DEF TellInv, OfferIsTold, Offering
    <2>5. CASE PublishVerdict
      <3>1. job.todo = <<"state">>
        BY <1>2, <2>5 DEF PublishVerdict, Doing, CheckTodos
      <3>2. Told
        BY <3>1 DEF TellInv, OfferIsTold, Told
      <3>3. job'.todo = << >> /\ UNCHANGED <<ota.version, ota.notes, ota.offered>>
        BY <1>2, <2>5, <3>1 DEF PublishVerdict, Done, IInv, Shape, OtaRecords
      <3>. QED BY <3>2, <3>3, EmptyJob DEF OfferIsTold, Told
    <2>. QED BY <2>1, <2>2, <2>3, <2>4, <2>5
  <1>. QED BY <1>4, <1>6, <1>7 DEF TellInv

(***************************************************************************)
(* An install: it writes the release the view is told of, into the slot    *)
(* the bootloader is then told to run.                                     *)
(***************************************************************************)
LEMMA InstallKeepsOffer ==
  ASSUME IInv, TellInv, UNCHANGED about, ota.state = "DOWNLOADING", ota'.state # "CHECKING",
         /\ ota'.version = ota.version /\ ota'.notes = ota.notes
         /\ ota'.offered = ota.offered,
         job'.todo \in {<< >>} \cup InstallTodos
  PROVE  ViewTyped' /\ OfferIsTold' /\ LoadedIsTold' /\ ShownIsTold'
  <1>1. Told
    BY DEF TellInv, OfferIsTold, Offering
  <1>2. job'.todo \notin {<<"notes", "state">>, <<"state">>}
    <2>1. {<<"notes", "state">>, <<"state">>} \subseteq CheckTodos
      BY DEF CheckTodos
    <2>. QED BY <2>1, InstallShape, EmptyJob
  <1>3. /\ about.pc = "copy" => about.loaded # "INSTALLED"
        /\ about.pc = "open" => about.shown.state # "INSTALLED"
    BY DEF TellInv, LoadedIsTold, ShownIsTold
  <1>4. Told' /\ UNCHANGED ota.offered
    BY <1>1 DEF Told
  <1>5. OfferIsTold'
    BY <1>2, <1>4 DEF OfferIsTold, Told
  <1>6. LoadedIsTold'
    BY <1>3, <1>4 DEF LoadedIsTold
  <1>7. ShownIsTold'
    BY <1>3, <1>4 DEF TellInv, ShownIsTold
  <1>8. ViewTyped'
    BY DEF TellInv, ViewTyped
  <1>. QED BY <1>5, <1>6, <1>7, <1>8

LEMMA InstallTells ==
  ASSUME IInv, TellInv, UNCHANGED about,
         \/ OpenImage \/ ReadChunk \/ SumImage \/ EndImage \/ SelectImage
         \/ InstallStepFails \/ Installed \/ InstallFailed
  PROVE  TellInv'
  <1>1. PICK step \in InstallSteps : Doing(step)
    BY DEF OpenImage, ReadChunk, SumImage, EndImage, SelectImage, InstallStepFails,
           Installed, InstallFailed, InstallSteps
  <1>2. /\ job.todo = <<step>> /\ ota.state = "DOWNLOADING" /\ ota \in OtaRecords
        /\ job = [todo |-> job.todo, written |-> job.written]
        /\ flash \in [slot : [Slots -> Images], boot : Slots, mark : [Slots -> Marks]]
        /\ flash.slot[Target] \in Images /\ Target' = Target
    BY <1>1, InstallJob, RunningTarget
    DEF IInv, Shape, OpenImage, ReadChunk, SumImage, EndImage, SelectImage,
        InstallStepFails, Installed, InstallFailed
  <1>3. \A s : Doing(s) => s = step
    BY <1>2 DEF Doing
  <1>4. ASSUME NEW s \in InstallSteps, s = step, s \in Writing \cup {"done"}
        PROVE  flash.slot[Target].image = ota.offered
    BY <1>2, <1>4 DEF TellInv, WrittenIsOffered
  <1>5. CASE OpenImage \/ SumImage \/ EndImage \/ SelectImage \/ InstallStepFails
    <2>1. UNCHANGED ota
      BY <1>5 DEF OpenImage, SumImage, EndImage, SelectImage, InstallStepFails
    <2>2. PICK next \in InstallSteps : job'.todo = <<next>>
      BY <1>2, <1>5 DEF OpenImage, SumImage, EndImage, SelectImage, InstallStepFails, Goes,
                         InstallSteps
    <2>3. ViewTyped' /\ OfferIsTold' /\ LoadedIsTold' /\ ShownIsTold'
      BY <1>2, <2>1, <2>2, InstallKeepsOffer DEF InstallTodos
    <2>4. CASE OpenImage
      <3>1. flash'.slot[Target].image = ota.offered /\ job'.todo = <<"read">>
        BY <1>2, <2>4, RunningTarget DEF OpenImage, Goes
      <3>2. <<"read">> # <<"done">>
        OBVIOUS
      <3>. QED BY <1>2, <2>1, <2>3, <3>1, <3>2 DEF TellInv, WrittenIsOffered
    <2>5. CASE SumImage
      <3>1. /\ flash' = flash /\ job'.todo = <<"end">>
            /\ flash.slot[Target].image = ota.offered
        BY <1>2, <1>3, <1>4, <2>5 DEF SumImage, Goes, Writing, InstallSteps
      <3>2. <<"end">> # <<"done">>
        OBVIOUS
      <3>. QED BY <1>2, <2>1, <2>3, <3>1, <3>2 DEF TellInv, WrittenIsOffered
    <2>6. CASE EndImage
      <3>1. flash.slot[Target].image = ota.offered
        BY <1>3, <1>4, <2>6 DEF EndImage, Writing, InstallSteps
      <3>2. flash'.slot[Target].image = ota.offered /\ job'.todo = <<"boot">>
        BY <1>2, <2>6, <3>1, RunningTarget DEF EndImage, Goes
      <3>3. <<"boot">> # <<"done">>
        OBVIOUS
      <3>. QED BY <1>2, <2>1, <2>3, <3>2, <3>3 DEF TellInv, WrittenIsOffered
    <2>7. CASE SelectImage
      <3>1. flash.slot[Target].image = ota.offered
        BY <1>3, <1>4, <2>7 DEF SelectImage, Writing, InstallSteps
      <3>2. flash'.slot = flash.slot /\ flash'.boot = Target
        BY <1>2, <2>7 DEF SelectImage
      <3>. QED BY <1>2, <2>1, <2>3, <3>1, <3>2 DEF TellInv, WrittenIsOffered
    <2>8. CASE InstallStepFails
      <3>1. job'.todo = <<"fail">> /\ \A s \in Writing \cup {"done"} : <<s>> # <<"fail">>
        BY <1>2, <2>8 DEF InstallStepFails, Goes, Writing
      <3>2. job'.todo # <<"done">>
        BY <3>1
      <3>. QED BY <1>2, <2>1, <2>3, <3>1, <3>2 DEF TellInv, WrittenIsOffered
    <2>. QED BY <1>5, <2>4, <2>5, <2>6, <2>7, <2>8
  <1>6. CASE ReadChunk
    <2>1. flash.slot[Target].image = ota.offered
      BY <1>3, <1>4, <1>6 DEF ReadChunk, Writing, InstallSteps
    <2>2. flash'.slot[Target].image = ota.offered
      BY <1>2, <1>6, <2>1, RunningTarget DEF ReadChunk
    <2>3. PICK next \in {"read", "sum", "fail"} : job'.todo = <<next>>
      BY <1>6 DEF ReadChunk
    <2>4. PICK percent : ota' = [ota EXCEPT !.percent = percent]
      BY <1>6 DEF ReadChunk
    <2>5. /\ ota'.version = ota.version /\ ota'.notes = ota.notes
          /\ ota'.offered = ota.offered /\ ota'.state = "DOWNLOADING"
      BY <1>2, <2>4 DEF OtaRecords
    <2>6. job'.todo \in InstallTodos /\ <<next>> # <<"done">>
      BY <2>3 DEF InstallTodos, InstallSteps
    <2>7. ViewTyped' /\ OfferIsTold' /\ LoadedIsTold' /\ ShownIsTold'
      BY <1>2, <2>5, <2>6, InstallKeepsOffer
    <2>. QED BY <1>2, <2>2, <2>3, <2>5, <2>6, <2>7 DEF TellInv, WrittenIsOffered
  <1>7. CASE Installed
    <2>1. flash.slot[Target].image = ota.offered /\ flash.boot = Target
      BY <1>2, <1>3, <1>4, <1>7 DEF Installed, Writing, InstallSteps, TellInv, WrittenIsOffered
    <2>2. /\ ota'.version = ota.version /\ ota'.notes = ota.notes
          /\ ota'.offered = ota.offered /\ ota'.state = "INSTALLED" /\ ota'.percent = 100
          /\ job'.todo = << >> /\ flash' = flash
      BY <1>2, <1>7, EmptyJob DEF Installed, OtaRecords
    <2>3. ViewTyped' /\ OfferIsTold' /\ LoadedIsTold' /\ ShownIsTold'
      BY <1>2, <2>2, InstallKeepsOffer
    <2>. QED BY <1>2, <2>1, <2>2, <2>3, EmptyJob DEF TellInv, WrittenIsOffered
  <1>8. CASE InstallFailed
    <2>1. /\ ota'.version = ota.version /\ ota'.notes = ota.notes
          /\ ota'.offered = ota.offered /\ ota'.state = "FAILED" /\ job'.todo = << >>
      BY <1>2, <1>8, EmptyJob DEF InstallFailed, PublishFailure, OtaRecords
    <2>2. ViewTyped' /\ OfferIsTold' /\ LoadedIsTold' /\ ShownIsTold'
      BY <1>2, <2>1, InstallKeepsOffer
    <2>. QED BY <2>1, <2>2, EmptyJob DEF TellInv, WrittenIsOffered
  <1>. QED BY <1>5, <1>6, <1>7, <1>8

(***************************************************************************)
(* The view loads the state, copies what it may read, and asks.            *)
(***************************************************************************)
LEMMA AboutTells ==
  ASSUME IInv, TellInv,
         \/ OpenAbout \/ CloseAbout \/ Poll \/ CopyStrings \/ PressInstall \/ PressCheck
         \/ RefreshAfterPress
  PROVE  TellInv'
  <1>1. CASE OpenAbout \/ Poll \/ RefreshAfterPress
    <2>1. UNCHANGED otaVars /\ about' = [about EXCEPT !.pc = "copy", !.loaded = ota.state]
      BY <1>1 DEF OpenAbout, Poll, RefreshAfterPress, LoadState
    <2>2. ota.state \in States
      BY DEF IInv, Shape, OtaRecords
    <2>3. about'.pc = "copy" /\ about'.loaded = ota.state /\ ViewTyped'
      BY <2>1, <2>2 DEF TellInv, ViewTyped
    <2>4. OfferIsTold' /\ WrittenIsOffered'
      BY <2>1 DEF TellInv, OfferIsTold, WrittenIsOffered, Told, Target, otaVars
    <2>5. LoadedIsTold'
      BY <2>1, <2>3 DEF TellInv, OfferIsTold, LoadedIsTold, Told, Offering, otaVars
    <2>. QED BY <2>3, <2>4, <2>5 DEF TellInv, ShownIsTold
  <1>2. CASE CloseAbout
    <2>1. UNCHANGED otaVars /\ about'.pc = "closed"
      BY <1>2 DEF CloseAbout, Closed
    <2>2. ViewTyped'
      BY <1>2 DEF CloseAbout, Closed, ViewTyped, NoView, NoVersion, Versions
    <2>. QED BY <2>1, <2>2 DEF TellInv, OfferIsTold, WrittenIsOffered, LoadedIsTold, ShownIsTold,
                          Told, Target, otaVars
  <1>3. CASE CopyStrings
    <2>1. /\ UNCHANGED otaVars /\ about.pc = "copy" /\ about'.pc = "open"
          /\ about'.shown =
               [state |-> about.loaded, percent |-> ota.percent,
                version |-> IF Readable(about.loaded) THEN ota.version ELSE NoVersion,
                notes |-> IF Readable(about.loaded) THEN ota.notes ELSE NoVersion]
      BY <1>3 DEF CopyStrings
    <2>2. OfferIsTold' /\ WrittenIsOffered'
      BY <2>1 DEF TellInv, OfferIsTold, WrittenIsOffered, Told, Target, otaVars
    <2>3. about.loaded \in Offering => Readable(about.loaded)
      BY DEF Offering, Readable
    <2>4. ShownIsTold'
      BY <2>1, <2>3 DEF TellInv, LoadedIsTold, ShownIsTold, WrittenIsOffered, Told, otaVars
    <2>5. ViewTyped'
      <3>1. /\ {ota.version, ota.notes, NoVersion} \subseteq Versions /\ ota.percent \in Int
            /\ about.loaded \in States \cup {"none"}
        BY DEF TellInv, ViewTyped, IInv, Shape, OtaRecords, NoVersion, Versions
      <3>. QED BY <1>3, <3>1 DEF CopyStrings, ViewTyped
    <2>. QED BY <2>1, <2>2, <2>4, <2>5 DEF TellInv, LoadedIsTold
  <1>4. CASE PressInstall \/ PressCheck
    <2>1. \E state \in {"CHECKING", "DOWNLOADING"}, todo \in {CheckSteps, <<"open">>} :
            /\ Posts(state, todo) /\ ota.state \notin Busy
            /\ state = "DOWNLOADING" => ota.state = "AVAILABLE"
      <3>1. CASE PressInstall
        BY <3>1 DEF PressInstall, Install, Busy
      <3>2. CASE PressCheck
        BY <3>2 DEF PressCheck, Check
      <3>. QED BY <1>4, <3>1, <3>2
    <2>. PICK state \in {"CHECKING", "DOWNLOADING"}, todo \in {CheckSteps, <<"open">>} :
            /\ Posts(state, todo) /\ ota.state \notin Busy
            /\ state = "DOWNLOADING" => ota.state = "AVAILABLE"
      BY <2>1
    <2>7. about'.pc = "refresh" /\ ViewTyped'
      BY <1>4 DEF PressInstall, PressCheck, TellInv, ViewTyped
    <2>2. /\ ota \in OtaRecords /\ job.todo = << >>
      <3>1. job.todo \notin CheckTodos /\ job.todo \notin InstallTodos
        BY <2>1 DEF IInv, JobAnnounced, Busy
      <3>. QED BY <3>1 DEF IInv, Shape
    <2>3. /\ ota'.state \in {state, "FAILED"}
          /\ UNCHANGED <<ota.version, ota.notes, ota.offered>>
          /\ job'.todo \in {<< >>, todo}
      BY <2>1, <2>2 DEF Posts, OtaRecords, NoJob
    <2>4. /\ job'.todo \notin {<<"notes", "state">>, <<"state">>}
          /\ \A s \in Writing \cup {"done"} : job'.todo # <<s>>
      <3>1. \A s \in Writing \cup {"done"} : <<s>> \in InstallTodos /\ <<s>> # <<"open">>
        BY DEF Writing, InstallTodos, InstallSteps
      <3>2. {<<"notes", "state">>, <<"state">>} \subseteq CheckTodos
        BY DEF CheckTodos
      <3>3. /\ <<"open">> \in InstallTodos
            /\ CheckSteps # <<"notes", "state">> /\ CheckSteps # <<"state">>
        BY DEF InstallTodos, InstallSteps, CheckSteps
      <3>. QED BY <2>3, <3>1, <3>2, <3>3, CheckShape, InstallShape, EmptyJob
    <2>5. OfferIsTold'
      BY <2>1, <2>3, <2>4 DEF TellInv, OfferIsTold, Told, Offering
    <2>6. WrittenIsOffered'
      <3>1. job'.todo # <<"done">>
        BY <2>4
      <3>. QED BY <2>3, <2>4, <3>1 DEF WrittenIsOffered
    <2>. QED BY <2>5, <2>6, <2>7 DEF TellInv, LoadedIsTold, ShownIsTold
  <1>. QED BY <1>1, <1>2, <1>3, <1>4

LEMMA DtorTells ==
  ASSUME IInv, TellInv, DtorBegins \/ DtorEnds
  PROVE  TellInv'
  <1>1. /\ UNCHANGED <<flash, running, job, about>>
        /\ UNCHANGED <<ota.state, ota.percent, ota.version, ota.notes, ota.offered>>
    BY DEF DtorBegins, DtorEnds, IInv, Shape, OtaRecords
  <1>. QED BY <1>1
       DEF TellInv, ViewTyped, OfferIsTold, WrittenIsOffered, LoadedIsTold, ShownIsTold,
           Told, Target

LEMMA TellStep ==
  ASSUME IInv, AboutOpenOnlyAwake, TellInv, [Next]_vars
  PROVE  TellInv'
  <1>1. CASE Boot \/ StartPanics \/ PowerCut \/ CycleStuck \/ PressRestart
    BY <1>1, RestartTells
  <1>2. CASE Started \/ StartFails
    BY <1>2, StartTells
  <1>3. CASE OtaRuns
    BY <1>3, CheckTells, InstallTells DEF OtaRuns, OtaWorkerStep
  <1>4. CASE \/ OpenAbout \/ CloseAbout \/ Poll \/ CopyStrings \/ PressInstall
             \/ PressCheck \/ RefreshAfterPress
    BY <1>4, AboutTells
  <1>5. CASE DtorBegins \/ DtorEnds
    BY <1>5, DtorTells
  <1>6. CASE UNCHANGED vars
    BY <1>6 DEF TellInv, ViewTyped, OfferIsTold, WrittenIsOffered, LoadedIsTold, ShownIsTold, Told,
                Target, vars, otaVars
  <1>. QED BY <1>1, <1>2, <1>3, <1>4, <1>5, <1>6 DEF Next, Starting, AboutStep

(***************************************************************************)
(* What the About view shows is of one release, and of the one the updater *)
(* offers, writes or has made the boot choice: take_snapshot needs no lock *)
(* because of the order the worker publishes in and of the presses.        *)
(***************************************************************************)
THEOREM AboutShowsTheOffer == Spec => []AboutTellsTheRelease
  <1>1. Init => IInv /\ AboutOpenOnlyAwake /\ TellInv
    BY InitIInv, InitTellInv DEF Init, AboutOpenOnlyAwake, Closed
  <1>2. IInv /\ AboutOpenOnlyAwake /\ TellInv /\ [Next]_vars
          => IInv' /\ AboutOpenOnlyAwake' /\ TellInv'
    BY NextStep, ViewStep, TellStep
  <1>3. IInv /\ TellInv => AboutTellsTheRelease
    <2>. SUFFICES ASSUME IInv, TellInv PROVE AboutTellsTheRelease
      OBVIOUS
    <2>1. ota.state = "INSTALLED" =>
            /\ flash.boot # running
            /\ flash.slot[flash.boot].image = ota.offered
      BY RunningTarget DEF TellInv, WrittenIsOffered
    <2>. QED BY <2>1 DEF AboutTellsTheRelease, TellInv, ShownIsTold, Offering
  <1>. QED BY <1>1, <1>2, <1>3, PTL DEF Spec
-----------------------------------------------------------------------------
(***************************************************************************)
(* Types: what has been written of an image is no more than the image has, *)
(* and the percentage that is shown of it is one.                          *)
(***************************************************************************)
CountOK ==
  /\ job.written \in 0..Chunks
  /\ job.todo = <<"open">> => job.written = 0
  /\ job.todo = <<"read">> => job.written < Chunks
  /\ ota.percent \in 0..100
  /\ phase \in {"bootloader", "starting", "up", "stuck"}

LEMMA PercentOf ==
  ASSUME NEW whole \in Nat \ {0}, NEW part \in Nat, part <= whole * 100
  PROVE  part \div whole \in 0..100
  <1> DEFINE q == part \div whole
  <1>1. /\ part = (whole * q) + (part % whole)
        /\ part % whole \in 0..whole - 1 /\ q \in Nat
    BY DivMod
  <1> HIDE DEF q
  <1>2. whole * q <= whole * 100
    BY <1>1
  <1>3. whole * (q - 100) = (whole * q) - (whole * 100)
    BY <1>1
  <1>4. q - 100 > 0 => whole * (q - 100) >= whole
    BY <1>1, MultipleAtLeast
  <1>5. q <= 100
    BY <1>1, <1>2, <1>3, <1>4
  <1>. QED BY <1>1, <1>5 DEF q

LEMMA InitCount == Init => CountOK
  BY OtaAssumption, EmptyJob DEF Init, CountOK, Fresh, OtaAssumption

LEMMA RestCount ==
  ASSUME CountOK, UNCHANGED <<job, ota.percent>>,
         phase' \in {"bootloader", "starting", "up", "stuck"}
  PROVE  CountOK'
  BY DEF CountOK

LEMMA ResetCount ==
  ASSUME Reset \/ (phase' = "bootloader" /\ ota' = Fresh(ota.offered) /\ job' = NoJob)
  PROVE  CountOK'
  BY OtaAssumption, EmptyJob DEF Reset, Fresh, CountOK, OtaAssumption

(* A job begins with nothing written; a check writes nothing.              *)
LEMMA PressCount ==
  ASSUME IInv, CountOK, PressInstall \/ PressCheck
  PROVE  CountOK'
  <1>1. /\ ota' \in OtaRecords /\ ota'.percent = 0 /\ phase' = phase
        /\ job' = job \/ (job'.written = 0 /\ job'.todo \in {<<"open">>, CheckSteps})
    <2>1. /\ phase' = phase
          /\ Posts("DOWNLOADING", <<"open">>) \/ Posts("CHECKING", CheckSteps)
      BY DEF PressInstall, PressCheck, Install, Check
    <2>2. \A todo : /\ [NoJob EXCEPT !.todo = todo].written = 0
                     /\ [NoJob EXCEPT !.todo = todo].todo = todo
      BY DEF NoJob
    <2>3. ASSUME NEW state \in States, NEW todo \in {<<"open">>, CheckSteps},
                 Posts(state, todo)
          PROVE  /\ ota' \in OtaRecords /\ ota'.percent = 0
                 /\ job' = job \/ (job'.written = 0 /\ job'.todo = todo)
      <3>1. ota \in OtaRecords /\ "FAILED" \in States
        BY DEF IInv, Shape, States
      <3>2. PICK told \in States : ota' = [ota EXCEPT !.percent = 0, !.state = told]
        BY <2>3, <3>1 DEF Posts
      <3>3. ota' \in OtaRecords /\ ota'.percent = 0
        <4> DEFINE mid == [ota EXCEPT !.percent = 0]
        <4>1. mid \in OtaRecords /\ mid.percent = 0
          BY <3>1 DEF OtaRecords
        <4>2. ota' = [mid EXCEPT !.state = told]
          BY <3>2
        <4> HIDE DEF mid
        <4>. QED BY <4>1, <4>2 DEF OtaRecords
      <3>4. job' = job \/ (job'.written = 0 /\ job'.todo = todo)
        BY <2>2, <2>3 DEF Posts
      <3>. QED BY <3>3, <3>4
    <2>4. "DOWNLOADING" \in States /\ "CHECKING" \in States
      BY DEF States
    <2>. QED BY <2>1, <2>3, <2>4
  <1>2. <<"open">> # <<"read">> /\ CheckSteps # <<"read">>
    BY DEF CheckSteps
  <1>3. Chunks \in Nat \ {0}
    BY OtaAssumption DEF OtaAssumption
  <1>. QED BY <1>1, <1>2, <1>3 DEF CountOK

LEMMA CheckCount ==
  ASSUME IInv, CountOK, UNCHANGED phase,
         FetchFails \/ Fetched \/ PublishVersion \/ PublishNotes \/ PublishVerdict
  PROVE  CountOK'
  <1>1. PICK step \in {"fetch", "version", "notes", "state"} : Doing(step)
    BY DEF FetchFails, Fetched, PublishVersion, PublishNotes, PublishVerdict
  <1>2. job.todo \in CheckTodos /\ ota \in OtaRecords
    BY <1>1, HeadTells DEF IInv, Shape
  <1>3. /\ job'.written \in {0, job.written}
        /\ job'.todo = << >> \/ job'.todo = Tail(job.todo)
    BY EmptyJob
    DEF FetchFails, Fetched, PublishVersion, PublishNotes, PublishVerdict, Done, IInv, Shape
  <1>4. Tail(job.todo) = << >> \/ Tail(job.todo) \in CheckTodos
    BY <1>2, CheckShape
  <1>5. \A s \in InstallSteps : job'.todo # <<s>>
    <2>1. \A s \in InstallSteps : <<s>> \in InstallTodos
      BY DEF InstallTodos
    <2>. QED BY <1>3, <1>4, <2>1, CheckShape, EmptyJob
  <1>6. job'.todo # <<"open">> /\ job'.todo # <<"read">>
    BY <1>5 DEF InstallSteps
  <1>7. ota'.percent \in {0, ota.percent}
    BY <1>2
    DEF FetchFails, Fetched, PublishVersion, PublishNotes, PublishVerdict, PublishFailure,
        OtaRecords
  <1>8. Chunks \in Nat \ {0}
    BY OtaAssumption DEF OtaAssumption
  <1>9. job'.written \in 0..Chunks
    BY <1>3, <1>8 DEF CountOK
  <1>10. ota'.percent \in 0..100
    BY <1>7 DEF CountOK
  <1>. QED BY <1>6, <1>9, <1>10 DEF CountOK

(* The reads of an image are counted, and no more than it has are made.    *)
LEMMA InstallCount ==
  ASSUME IInv, CountOK, UNCHANGED phase,
         \/ OpenImage \/ ReadChunk \/ SumImage \/ EndImage \/ SelectImage
         \/ InstallStepFails \/ Installed \/ InstallFailed
  PROVE  CountOK'
  <1>0. /\ Chunks \in Nat \ {0} /\ ota \in OtaRecords
        /\ job \in [todo : {<< >>} \cup CheckTodos \cup InstallTodos, written : Int]
    BY OtaAssumption DEF OtaAssumption, IInv, Shape
  <1>1. CASE OpenImage
    <2>1. job.todo = <<"open">>
      BY <1>1, HeadTells DEF OpenImage, IInv, InstallSteps
    <2>2. job'.todo = <<"read">> /\ job'.written = job.written /\ ota' = ota
      BY <1>0, <1>1 DEF OpenImage, Goes
    <2>3. <<"read">> # <<"open">>
      OBVIOUS
    <2>. QED BY <1>0, <2>1, <2>2, <2>3 DEF CountOK
  <1>2. CASE ReadChunk
    <2>1. job.todo = <<"read">>
      BY <1>2, HeadTells DEF ReadChunk, IInv, InstallSteps
    <2>2. job.written \in Nat /\ job.written + 1 \in 0..Chunks
      BY <1>0, <2>1 DEF CountOK
    <2>3. /\ job'.written = job.written + 1
          /\ job'.todo \in {<<"fail">>, <<"read">>, <<"sum">>}
          /\ job'.todo = <<"read">> => job.written + 1 < Chunks
          /\ ota'.percent = ((job.written + 1) * 100) \div Chunks
      BY <1>0, <1>2 DEF ReadChunk, OtaRecords
    <2>4. ota'.percent \in 0..100
      <3>1. /\ (job.written + 1) * 100 \in Nat
            /\ (job.written + 1) * 100 <= Chunks * 100
        BY <1>0, <2>2
      <3>. QED BY <1>0, <2>3, <3>1, PercentOf
    <2>5. job'.todo # <<"open">>
      BY <2>3
    <2>. QED BY <2>2, <2>3, <2>4, <2>5 DEF CountOK
  <1>3. CASE SumImage \/ EndImage \/ SelectImage \/ InstallStepFails
    <2>1. /\ job'.todo \in {<<"end">>, <<"boot">>, <<"done">>, <<"fail">>}
          /\ job'.written = job.written /\ ota' = ota
      BY <1>0, <1>3 DEF SumImage, EndImage, SelectImage, InstallStepFails, Goes
    <2>2. job'.todo # <<"open">> /\ job'.todo # <<"read">>
      BY <2>1
    <2>. QED BY <2>1, <2>2 DEF CountOK
  <1>4. CASE Installed \/ InstallFailed
    <2>1. job' = NoJob /\ ota'.percent \in {0, 100}
      BY <1>0, <1>4 DEF Installed, InstallFailed, PublishFailure, OtaRecords
    <2>. QED BY <1>0, <2>1, EmptyJob DEF CountOK
  <1>. QED BY <1>1, <1>2, <1>3, <1>4

LEMMA CountStep ==
  ASSUME IInv, CountOK, [Next]_vars
  PROVE  CountOK'
  <1>1. CASE Boot \/ Started \/ StartFails
    BY <1>1, RestCount DEF Boot, Started, StartFails, Start
  <1>2. CASE StartPanics \/ PowerCut \/ CycleStuck \/ PressRestart
    BY <1>2, ResetCount DEF StartPanics, PowerCut, CycleStuck, PressRestart
  <1>3. CASE OtaRuns
    BY <1>3, CheckCount, InstallCount DEF OtaRuns, OtaWorkerStep
  <1>4. CASE PressInstall \/ PressCheck
    BY <1>4, PressCount
  <1>5. CASE \/ OpenAbout \/ CloseAbout \/ Poll \/ CopyStrings \/ RefreshAfterPress
             \/ UNCHANGED vars
    <2>1. UNCHANGED <<job, ota, phase>>
      BY <1>5 DEF OpenAbout, CloseAbout, Poll, CopyStrings, RefreshAfterPress, vars, otaVars
    <2>. QED BY <2>1 DEF CountOK
  <1>6. CASE DtorBegins \/ DtorEnds
    <2>1. UNCHANGED <<job, ota.percent, phase>>
      BY <1>6 DEF DtorBegins, DtorEnds, IInv, Shape, OtaRecords
    <2>. QED BY <2>1 DEF CountOK
  <1>. QED BY <1>1, <1>2, <1>3, <1>4, <1>5, <1>6 DEF Next, Starting, AboutStep

(***************************************************************************)
(* Flash, snapshot, job and view are well typed, and an install never says *)
(* that it has written more than there is to write.                        *)
(***************************************************************************)
THEOREM UpdateTypeCorrect == Spec => []TypeOK
  <1>1. Init => IInv /\ AboutOpenOnlyAwake /\ TellInv /\ CountOK
    BY InitIInv, InitTellInv, InitCount DEF Init, AboutOpenOnlyAwake, Closed
  <1>2. IInv /\ AboutOpenOnlyAwake /\ TellInv /\ CountOK /\ [Next]_vars
          => IInv' /\ AboutOpenOnlyAwake' /\ TellInv' /\ CountOK'
    BY NextStep, ViewStep, TellStep, CountStep
  <1>3. IInv /\ TellInv /\ CountOK => TypeOK
    <2>. SUFFICES ASSUME IInv, TellInv, CountOK PROVE TypeOK
      OBVIOUS
    <2>1. \A i \in 1..Len(job.todo) : job.todo[i] \in Steps
      BY DEF IInv, Shape, CheckTodos, InstallTodos, InstallSteps, Steps
    <2>. QED BY <2>1 DEF TypeOK, IInv, Shape, OtaRecords, TellInv, ViewTyped, CountOK
  <1>. QED BY <1>1, <1>2, <1>3, PTL DEF Spec
=============================================================================
