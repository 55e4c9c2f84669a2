------------------------------- MODULE Update -------------------------------
(***************************************************************************)
(* The updater in its clock: the About view that asks for checks, installs *)
(* and restarts and polls the snapshot (nn20clock_device_ui.c), the start  *)
(* of the application, whose last act confirms the running image           *)
(* (nn20clock_app.c), and the bootloader, which takes an unconfirmed image *)
(* back at the next reset.  The power may go at any step.                  *)
(***************************************************************************)
EXTENDS Ota

CONSTANTS MaxPresses,  \* presses of the update button
          MaxCuts,     \* power cuts
          MaxStops     \* times the updater is destroyed

UpdateAssumption == {MaxPresses, MaxCuts, MaxStops} \subseteq Nat
ASSUME UpdateAssumption

VARIABLES phase,   \* where the clock is on its way up
          about,   \* the About view: what it is at, what it loaded and what it shows
          spent    \* presses, cuts and stops so far

vars == <<otaVars, phase, about, spent>>

NoView == [state |-> "none", percent |-> 0, version |-> NoVersion, notes |-> NoVersion]
Closed == [pc |-> "closed", loaded |-> "none", shown |-> NoView]

Init ==
  /\ \E first, rubbish \in Releases :
       /\ first.starts
       /\ flash = [slot |-> [s \in Slots |->
                      IF s = 0 THEN [image |-> first, whole |-> TRUE, genuine |-> TRUE]
                      ELSE [image |-> rubbish, whole |-> FALSE, genuine |-> FALSE]],
                   boot |-> 0, mark |-> [s \in Slots |-> "undefined"]]
       /\ ota = Fresh(first)
  /\ running = 0
  /\ job = NoJob
  /\ phase = "up"
  /\ about = Closed
  /\ spent = [presses |-> 0, cuts |-> 0, stops |-> 0]

(***************************************************************************)
(* A reset loses everything but the flash.  The bootloader then takes the  *)
(* boot choice, unless it was tried and never confirmed or is not a whole  *)
(* image; a new one is tried once.                                         *)
(***************************************************************************)
Reset == /\ phase' = "bootloader"
         /\ ota' = Fresh(ota.offered) /\ job' = NoJob /\ about' = Closed
         /\ UNCHANGED <<flash, running>>

Doubted(slot) == flash.mark[slot] \in {"pending", "aborted"} \/ ~flash.slot[slot].whole
BootChoice == IF Doubted(flash.boot) THEN Other(flash.boot) ELSE flash.boot

Marked(slot) ==
  CASE slot = BootChoice /\ flash.mark[slot] = "new" -> "pending"
    [] slot # BootChoice /\ flash.mark[slot] = "pending" -> "aborted"
    [] OTHER -> flash.mark[slot]

Boot ==
  /\ phase = "bootloader" /\ phase' = "starting"
  /\ running' = BootChoice
  /\ flash' = [flash EXCEPT !.boot = BootChoice, !.mark = [s \in Slots |-> Marked(s)]]
  /\ UNCHANGED <<ota, job, about, spent>>

(***************************************************************************)
(* nn20clock_ota_mark_valid, called when every service has started.        *)
(***************************************************************************)
MarkValid == IF flash.mark[running] = "pending"
             THEN [flash EXCEPT !.mark[running] = "valid"] ELSE flash

\* fault: the image is confirmed before the services are started
ConfirmsFirst(outcome) == TRUE

Confirms(outcome) == outcome = "up"

Start(outcome) ==
  /\ phase = "starting"
  /\ flash' = IF Confirms(outcome) THEN MarkValid ELSE flash

Started ==
  /\ flash.slot[running].image.starts
  /\ Start("up")
  /\ phase' = "up"
  /\ UNCHANGED <<running, ota, job, about, spent>>

(* An image that cannot start panics, or stops where it failed.            *)
StartPanics ==
  /\ ~flash.slot[running].image.starts
  /\ Start("panic")
  /\ phase' = "bootloader"
  /\ ota' = Fresh(ota.offered) /\ job' = NoJob /\ about' = Closed
  /\ UNCHANGED <<running, spent>>

StartFails ==
  /\ ~flash.slot[running].image.starts
  /\ Start("stuck")
  /\ phase' = "stuck"
  /\ UNCHANGED <<running, ota, job, about, spent>>

PowerCut ==
  /\ spent.cuts < MaxCuts /\ spent' = [spent EXCEPT !.cuts = @ + 1]
  /\ Reset

(* The owner of a clock that does nothing takes its plug out.              *)
CycleStuck == phase = "stuck" /\ Reset /\ UNCHANGED spent

(***************************************************************************)
(* The About view.  A snapshot is taken in two steps: the state, and then, *)
(* if that says they may be read, the strings.                             *)
(***************************************************************************)
Awake == phase \in {"starting", "up", "stuck"} /\ ota.worker # "gone"

LoadState == about' = [about EXCEPT !.pc = "copy", !.loaded = ota.state]

OpenAbout ==
  /\ Awake /\ about.pc = "closed"
  /\ LoadState
  /\ UNCHANGED <<otaVars, phase, spent>>

CloseAbout ==
  /\ about.pc = "open"
  /\ about' = Closed
  /\ UNCHANGED <<otaVars, phase, spent>>

Poll ==
  /\ about.pc = "open"
  /\ LoadState
  /\ UNCHANGED <<otaVars, phase, spent>>

Readable(state) == state \notin {"CHECKING", "IDLE"}

CopyStrings ==
  /\ about.pc = "copy"
  /\ about' = [pc |-> "open", loaded |-> "none",
       shown |-> [state |-> about.loaded, percent |-> ota.percent,
                  version |-> IF Readable(about.loaded) THEN ota.version ELSE NoVersion,
                  notes |-> IF Readable(about.loaded) THEN ota.notes ELSE NoVersion]]
  /\ UNCHANGED <<otaVars, phase, spent>>

(* on_ota_action: the button is dead while the last refresh saw the        *)
(* updater busy; the press itself looks again, and refreshes.              *)
ButtonEnabled == about.pc = "open" /\ about.shown.state \notin Busy
Pressed == /\ ButtonEnabled /\ spent.presses < MaxPresses
           /\ spent' = [spent EXCEPT !.presses = @ + 1]

PressRestart == Pressed /\ ota.state = "INSTALLED" /\ Reset

PressInstall ==
  /\ Pressed /\ Install
  /\ about' = [about EXCEPT !.pc = "refresh"]
  /\ UNCHANGED phase

PressCheck ==
  /\ Pressed /\ ota.state \notin {"INSTALLED", "AVAILABLE"}
  /\ Check
  /\ about' = [about EXCEPT !.pc = "refresh"]
  /\ UNCHANGED phase

RefreshAfterPress ==
  /\ about.pc = "refresh"
  /\ LoadState
  /\ UNCHANGED <<otaVars, phase, spent>>

(* nn20clock_ota_dtor: nobody asks any more, the callback in flight ends,  *)
(* one that never began is dropped.                                        *)
DtorBegins ==
  /\ about.pc = "closed" /\ ota.worker = "up" /\ spent.stops < MaxStops
  /\ spent' = [spent EXCEPT !.stops = @ + 1]
  /\ ota' = [ota EXCEPT !.worker = "stopping"]
  /\ UNCHANGED <<flash, running, job, phase, about>>

DtorEnds ==
  /\ ota.worker = "stopping"
  /\ job.todo # << >> => Head(job.todo) \in {"fetch", "open"}
  /\ ota' = [ota EXCEPT !.worker = "gone"]
  /\ UNCHANGED <<flash, running, job, phase, about, spent>>

Starting == Started \/ StartPanics \/ StartFails
OtaRuns == OtaWorkerStep /\ UNCHANGED <<phase, about, spent>>
AboutStep == \/ OpenAbout \/ CloseAbout \/ Poll \/ CopyStrings \/ PressRestart
             \/ PressInstall \/ PressCheck \/ RefreshAfterPress

Next == \/ Boot \/ Starting \/ PowerCut \/ CycleStuck \/ OtaRuns \/ AboutStep
        \/ DtorBegins \/ DtorEnds

(***************************************************************************)
(* Every network call of the worker has a time limit, the bootloader and   *)
(* the start go on by themselves, and a dead clock is unplugged some day.  *)
(***************************************************************************)
Fairness == /\ WF_vars(OtaRuns) /\ WF_vars(Boot) /\ WF_vars(Starting)
            /\ WF_vars(CycleStuck)

Spec == Init /\ [][Next]_vars /\ Fairness

(***************************************************************************)
(* Types.                                                                  *)
(***************************************************************************)
Steps == {"fetch", "version", "notes", "state", "open", "read", "sum", "end", "boot",
          "done", "fail"}

TypeOK ==
  /\ flash \in [slot : [Slots -> Images], boot : Slots, mark : [Slots -> Marks]]
  /\ running \in Slots
  /\ ota.state \in States /\ ota.offered \in Releases
  /\ ota.percent \in 0..100 /\ ota.worker \in {"up", "stopping", "gone"}
  /\ \A i \in 1..Len(job.todo) : job.todo[i] \in Steps
  /\ job.written \in 0..Chunks
  /\ phase \in {"bootloader", "starting", "up", "stuck"}
  /\ about.pc \in {"closed", "open", "copy", "refresh"}

(***************************************************************************)
(* Whatever moment the power goes at, the slot the bootloader is told to   *)
(* run holds a whole image that matched its checksum (download_image's     *)
(* order: sum, end, select), and while that image is still to prove itself *)
(* the other slot holds one that has (the slot an install may erase).      *)
(***************************************************************************)
Good(slot) == flash.slot[slot].whole /\ flash.slot[slot].genuine

NeverBricked ==
  /\ Good(flash.boot)
  /\ flash.mark[flash.boot] \in {"new", "pending"} =>
       Good(Other(flash.boot)) /\ flash.slot[Other(flash.boot)].image.starts

(***************************************************************************)
(* What the About view shows is of one release and of the one that counts: *)
(* a release on offer is the one an install would fetch, one being written *)
(* is the one offered, and one that only waits for the restart is what the *)
(* bootloader runs next (the header's promise to a single caller).         *)
(***************************************************************************)
AboutTellsTheRelease ==
  about.pc = "open" =>
    /\ about.shown.state \in {"AVAILABLE", "DOWNLOADING", "INSTALLED"} =>
         /\ about.shown.version = ota.offered.version
         /\ about.shown.notes = ota.offered.version
    /\ about.shown.state = "INSTALLED" =>
         /\ flash.boot # running /\ about.shown.percent = 100
         /\ flash.slot[flash.boot].image.version = about.shown.version

(***************************************************************************)
(* A check or an install that was started ends, so that the button, dead   *)
(* until then, works again.                                                *)
(***************************************************************************)
UpdateEnds == (ota.state \in Busy) ~> (ota.state \notin Busy \/ ota.worker = "gone")

(***************************************************************************)
(* An update that cannot start un-installs itself: the clock always gets   *)
(* back to a running application, with at most its plug taken out.         *)
(***************************************************************************)
ClockComesBack == (phase # "up") ~> (phase = "up")
=============================================================================
