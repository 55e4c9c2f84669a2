-------------------------------- MODULE Ota --------------------------------
(***************************************************************************)
(* The updater (nn20clock_ota.c): a check fetches a manifest and compares  *)
(* its version with the running one, an install writes the image it names  *)
(* into the slot that is not running and makes it the boot choice.  Both   *)
(* are jobs of the OtaWorker; the caller's side only stores and posts.     *)
(*                                                                         *)
(* The flash is the part of ESP-IDF the code calls: two slots, the boot    *)
(* choice, and what the bootloader thinks of each slot.                    *)
(***************************************************************************)
EXTENDS Integers, Sequences

CONSTANTS Releases,   \* what a manifest may name
          Chunks      \* reads an image takes

Unreadable == << >>
Versions == [1..3 -> Nat] \cup {Unreadable}

OtaAssumption ==
  /\ Releases \subseteq [version : Versions, fits : BOOLEAN, starts : BOOLEAN]
  /\ Chunks \in Nat \ {0}
ASSUME OtaAssumption

Slots == {0, 1}
Other(slot) == 1 - slot
Images == [image : Releases, whole : BOOLEAN, genuine : BOOLEAN]
Marks == {"undefined", "new", "pending", "valid", "aborted"}

NoVersion == <<0, 0, 0>>
States == {"IDLE", "CHECKING", "UP_TO_DATE", "AVAILABLE", "DOWNLOADING", "INSTALLED",
           "FAILED"}
Busy == {"CHECKING", "DOWNLOADING"}

VARIABLES flash,    \* slot contents, boot choice, marks: survives a reset
          running,  \* the slot that was booted
          ota,      \* the published snapshot, the release offered, and
                    \* whether the worker is up
          job       \* the callback on the OtaWorker and its locals

otaVars == <<flash, running, ota, job>>

NoJob == [todo |-> << >>, written |-> 0]
Fresh(release) == [state |-> "IDLE", percent |-> 0, version |-> NoVersion,
                   notes |-> NoVersion, offered |-> release, worker |-> "up"]

(***************************************************************************)
(* nn20clock_ota_compare_versions and what is made of its verdict: a tag   *)
(* that cannot be read is never newer, and newer than an image whose own   *)
(* version cannot be read is anything.                                     *)
(***************************************************************************)
Above(theirs, ours) ==
  \E i \in 1..3 : theirs[i] > ours[i] /\ \A j \in 1..(i - 1) : theirs[j] = ours[j]
IsNewer(offered, own) == /\ offered # Unreadable
                         /\ own # Unreadable => Above(offered, own)

RunningVersion == flash.slot[running].image.version

(***************************************************************************)
(* The caller's side.  At most one job is ever on the worker's queue, so a *)
(* post fails only when the worker is stopping.                            *)
(***************************************************************************)
\* fault: the state is stored before what it makes readable
StateFirst == <<"fetch", "state", "version", "notes">>

CheckSteps == <<"fetch", "version", "notes", "state">>

Posts(state, todo) ==
  /\ ota' = [ota EXCEPT !.percent = 0,
               !.state = IF ota.worker = "up" THEN state ELSE "FAILED"]
  /\ job' = IF ota.worker = "up" THEN [NoJob EXCEPT !.todo = todo] ELSE job
  /\ UNCHANGED <<flash, running>>

Check == ota.state \notin Busy /\ Posts("CHECKING", CheckSteps)
Install == ota.state = "AVAILABLE" /\ Posts("DOWNLOADING", <<"open">>)

(***************************************************************************)
(* check_private.                                                          *)
(***************************************************************************)
Doing(step) == ota.worker # "gone" /\ job.todo # << >> /\ Head(job.todo) = step
Done == job' = [job EXCEPT !.todo = Tail(@)]
Goes(step) == job' = [job EXCEPT !.todo = <<step>>]

\* fault: a fetch that fails returns without saying so
ForgetToPublish == UNCHANGED ota

PublishFailure == ota' = [ota EXCEPT !.state = "FAILED", !.percent = 0]

FetchFails ==
  /\ Doing("fetch")
  /\ PublishFailure
  /\ job' = NoJob
  /\ UNCHANGED <<flash, running>>

Fetched ==
  /\ Doing("fetch")
  /\ \E release \in Releases : ota' = [ota EXCEPT !.offered = release]
  /\ Done
  /\ UNCHANGED <<flash, running>>

PublishVersion ==
  /\ Doing("version") /\ Done
  /\ ota' = [ota EXCEPT !.version = ota.offered.version]
  /\ UNCHANGED <<flash, running>>

PublishNotes ==
  /\ Doing("notes") /\ Done
  /\ ota' = [ota EXCEPT !.notes = ota.offered.version]
  /\ UNCHANGED <<flash, running>>

PublishVerdict ==
  /\ Doing("state") /\ Done
  /\ ota' = [ota EXCEPT !.state = IF IsNewer(ota.offered.version, RunningVersion)
                                  THEN "AVAILABLE" ELSE "UP_TO_DATE"]
  /\ UNCHANGED <<flash, running>>

(***************************************************************************)
(* download_image.  ESP-IDF opens no slot while the running image is still *)
(* to be confirmed.  A failure before the slot is opened leaves the slot,  *)
(* one after it leaves it without the header that makes it bootable.       *)
(***************************************************************************)
Target == Other(running)

OpenImage ==
  /\ Doing("open")
  /\ ota.offered.fits /\ flash.mark[running] # "pending"
  /\ flash' = [flash EXCEPT !.slot[Target] =
                 [image |-> ota.offered, whole |-> FALSE, genuine |-> TRUE]]
  /\ Goes("read")
  /\ UNCHANGED <<running, ota>>

ReadChunk ==
  /\ Doing("read")
  /\ \E corrupt \in BOOLEAN :
       flash' = IF corrupt THEN [flash EXCEPT !.slot[Target].genuine = FALSE] ELSE flash
  /\ job' = [todo |-> << IF ota.worker # "up" THEN "fail"
                         ELSE IF job.written + 1 < Chunks THEN "read" ELSE "sum" >>,
             written |-> job.written + 1]
  /\ ota' = [ota EXCEPT !.percent = ((job.written + 1) * 100) \div Chunks]
  /\ UNCHANGED running

\* fault: the checksum is computed and not compared
Unchecked(image) == TRUE

ChecksumMatches(image) == image.genuine

SumImage ==
  /\ Doing("sum") /\ ChecksumMatches(flash.slot[Target])
  /\ Goes("end")
  /\ UNCHANGED <<flash, running, ota>>

EndImage ==
  /\ Doing("end")
  /\ flash' = [flash EXCEPT !.slot[Target].whole = TRUE]
  /\ Goes("boot")
  /\ UNCHANGED <<running, ota>>

SelectImage ==
  /\ Doing("boot")
  /\ flash' = [flash EXCEPT !.boot = Target, !.mark[Target] = "new"]
  /\ Goes("done")
  /\ UNCHANGED <<running, ota>>

InstallStepFails ==
  /\ \/ \E step \in {"open", "read", "end", "boot"} : Doing(step)
     \/ Doing("sum") /\ ~ChecksumMatches(flash.slot[Target])
  /\ Goes("fail")
  /\ UNCHANGED <<flash, running, ota>>

Installed ==
  /\ Doing("done") /\ job' = NoJob
  /\ ota' = [ota EXCEPT !.percent = 100, !.state = "INSTALLED"]
  /\ UNCHANGED <<flash, running>>

InstallFailed ==
  /\ Doing("fail") /\ job' = NoJob
  /\ PublishFailure
  /\ UNCHANGED <<flash, running>>

OtaWorkerStep ==
  \/ FetchFails \/ Fetched \/ PublishVersion \/ PublishNotes \/ PublishVerdict
  \/ OpenImage \/ ReadChunk \/ SumImage \/ EndImage \/ SelectImage
  \/ InstallStepFails \/ Installed \/ InstallFailed
=============================================================================
