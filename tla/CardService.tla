---------------------------- MODULE CardService ----------------------------
(***************************************************************************)
(* The FTP server in its place: the application starts it when the clock   *)
(* enters media management and stops it on the way out, by jobs posted to  *)
(* the CoreWorker (nn20clock_app.c), and the media screen shows what is on *)
(* the card and reads it again when a poll finds that something changed    *)
(* (nn20clock_media_mgmt_ui.c).  The application may also stop as a whole, *)
(* which takes the card away.                                              *)
(***************************************************************************)
EXTENDS FtpServer

CONSTANT StartingCards   \* what may be on the card when the clock starts

ServiceAssumption == StartingCards \subseteq {tree \in [Paths -> Entries] : IsTree(tree)}
ASSUME ServiceAssumption

VARIABLES media,    \* whether the clock is in MEDIA_MANAGEMENT
          jobs,     \* jobs posted to the CoreWorker
          screen,   \* the media screen: its step, and what it last read
          silent    \* history: a change of the card since the last listing
                    \* that the counter was not told of

vars == <<ftpVars, media, jobs, screen, silent>>

NoCounts == [folders |-> 0, clips |-> 0, others |-> 0]
NoScreen == [pc |-> "none", shown |-> FALSE, stamp |-> 0, counted |-> NoCounts,
             hadClients |-> FALSE]

Init == /\ card \in StartingCards
        /\ FtpInit
        /\ media = FALSE
        /\ jobs = << >>
        /\ screen = NoScreen
        /\ silent = FALSE

HasClients == \E s \in Slots : session[s].inUse

(***************************************************************************)
(* on_state_change: it only posts.                                         *)
(***************************************************************************)
EnterMedia ==
  /\ ~media /\ spent.visits < MaxVisits
  /\ spent' = [spent EXCEPT !.visits = @ + 1]
  /\ media' = TRUE
  /\ jobs' = Append(jobs, "start")
  /\ screen' = [NoScreen EXCEPT !.pc = "stamp"]
  /\ UNCHANGED <<card, mounted, server, acceptor, session, mutations, owner, silent>>

LeaveMedia ==
  /\ media /\ media' = FALSE
  /\ jobs' = Append(jobs, "stop")
  /\ screen' = NoScreen
  /\ UNCHANGED <<ftpVars, silent>>

QuitApp ==
  /\ spent.quits < MaxQuits
  /\ spent' = [spent EXCEPT !.quits = @ + 1]
  /\ jobs' = Append(jobs, "quit")
  /\ UNCHANGED <<card, mounted, server, acceptor, session, mutations, owner, media,
                 screen, silent>>

(***************************************************************************)
(* The CoreWorker.  A stop closes the listener, shuts the clients'         *)
(* connections, then waits.                                                *)
(***************************************************************************)
Doing(job) == jobs # << >> /\ Head(jobs) = job
JobDone == jobs' = Tail(jobs) /\ owner' = "idle"

FtpStart ==
  /\ Doing("start") /\ JobDone
  /\ IF mounted THEN Start
     ELSE UNCHANGED <<card, mounted, server, acceptor, session, mutations, spent>>
  /\ UNCHANGED <<media, screen, silent>>

FtpStopBegins ==
  /\ Doing("stop") \/ Doing("quit")
  /\ owner = "idle" /\ server.running
  /\ StopListening
  /\ owner' = "shut"
  /\ UNCHANGED <<media, jobs, screen, silent>>

FtpStopShuts ==
  /\ owner = "shut"
  /\ ShutControls
  /\ owner' = "wait"
  /\ UNCHANGED <<media, jobs, screen, silent>>

(* What is still open on an unmounted card writes to nothing.              *)
Unmount == /\ mounted' = FALSE
           /\ session' = [s \in Slots |-> [session[s] EXCEPT !.ok = FALSE]]

FtpStopReturns ==
  /\ \/ owner = "wait" /\ StopReturns
     \/ /\ owner = "idle" /\ ~server.running /\ (Doing("stop") \/ Doing("quit"))
        /\ UNCHANGED <<card, server, acceptor, mutations, spent>>
  /\ IF Doing("quit") THEN Unmount ELSE UNCHANGED <<mounted, session>>
  /\ JobDone
  /\ UNCHANGED <<media, screen, silent>>

(***************************************************************************)
(* The screen's poll: if the counter has moved, or the last client went,   *)
(* the card is read again.  The number of clients and the counter are      *)
(* taken together.                                                         *)
(***************************************************************************)
Poll ==
  /\ screen.pc = "shown"
  /\ screen' = [screen EXCEPT
       !.hadClients = HasClients,
       !.pc = IF mutations # screen.stamp \/ (~HasClients /\ screen.hadClients)
              THEN "stamp" ELSE "shown"]
  /\ UNCHANGED <<ftpVars, media, jobs, silent>>

Refresh ==
  /\ screen.pc = "shown"
  /\ screen' = [screen EXCEPT !.pc = "stamp"]
  /\ UNCHANGED <<ftpVars, media, jobs, silent>>

(* refresh_card: the counter is read before the card.                      *)
StampIt == [screen EXCEPT !.stamp = mutations]
CountIt == [screen EXCEPT !.counted = IF mounted THEN Counts(card, Root) ELSE NoCounts]

\* fault: the counter is read after the card
CardThenCounter(step) == IF step = "stamp" THEN CountIt ELSE StampIt

CounterThenCard(step) == IF step = "stamp" THEN StampIt ELSE CountIt

RefreshBegins ==
  /\ screen.pc = "stamp"
  /\ screen' = [CounterThenCard("stamp") EXCEPT !.pc = "list"]
  /\ UNCHANGED <<ftpVars, media, jobs, silent>>

RefreshEnds ==
  /\ screen.pc = "list"
  /\ screen' = [CounterThenCard("list") EXCEPT !.pc = "shown", !.shown = TRUE,
                   !.hadClients = IF screen.shown THEN @ ELSE HasClients]
  /\ silent' = FALSE
  /\ UNCHANGED <<ftpVars, media, jobs>>

(***************************************************************************)
(* The server's tasks.  An upload that ends in any way but well has        *)
(* changed the card and tells nobody.                                      *)
(***************************************************************************)
EndsSilently(s) ==
  /\ session'[s].pc = "loop"
  /\ \/ session[s].pc \in {"accept", "discard"} /\ session[s].verb = "STOR"
     \/ session[s].pc = "recv" /\ card' # card

Beside == /\ silent' = (silent \/ \E s \in Slots : EndsSilently(s))
          /\ UNCHANGED <<media, jobs, screen>>

AcceptorRuns == AcceptorStep /\ Beside
SessionRuns(s) == SessionStep(s) /\ Beside
ClientActs == (Accept \/ \E s \in Slots : ClientStep(s)) /\ Beside

CoreStep == FtpStart \/ FtpStopBegins \/ FtpStopShuts \/ FtpStopReturns
ScreenStep == Poll \/ Refresh \/ RefreshBegins \/ RefreshEnds

Next == \/ EnterMedia \/ LeaveMedia \/ QuitApp
        \/ CoreStep \/ ScreenStep
        \/ AcceptorRuns \/ ClientActs \/ \E s \in Slots : SessionRuns(s)

(* Every task runs on; what a client does, and a person, nobody can say.   *)
Fairness == /\ WF_vars(CoreStep) /\ WF_vars(AcceptorRuns)
            /\ \A s \in Slots : WF_vars(SessionRuns(s))

Spec == Init /\ [][Next]_vars /\ Fairness

(***************************************************************************)
(* Properties.                                                             *)
(***************************************************************************)
SessionTypes ==
  [inUse : BOOLEAN,
   pc : {"none", "loop", "recv", "apply", "note", "accept", "transfer",
         "discard", "close"},
   control : {"none", "open", "shut"}, passive : BOOLEAN,
   dir : Paths, renameFrom : Paths,
   verb : {request.verb : request \in Requests} \cup {"NOOP"}, path : Paths, from : Paths,
   ok : BOOLEAN,
   activity : {"idle", "listing", "downloading", "uploading", "deleting",
               "creating", "renaming", "hiding"},
   prior : Paths]

(* Every path a session acts on, stands in or remembers is one of the card *)
(* and of a length the device carries, and everything else has its type.   *)
TypeOK ==
  /\ card \in [Paths -> Entries] /\ mounted \in BOOLEAN
  /\ server \in [running : BOOLEAN, stopping : BOOLEAN, listening : BOOLEAN,
                failed : BOOLEAN]
  /\ acceptor \in [pc : {"none", "loop", "accept", "claimed"}, slot : Slots]
  /\ session \in [Slots -> SessionTypes]
  /\ mutations \in Nat /\ owner \in {"idle", "shut", "wait"}
  /\ spent \in [clients : Nat, commands : Nat, faults : Nat, visits : Nat,
               quits : Nat]
  /\ media \in BOOLEAN
  /\ jobs \in Seq({"start", "stop", "quit"})
  /\ screen.pc \in {"none", "stamp", "list", "shown"}
  /\ silent \in BOOLEAN

(* Two sessions that create, upload, remove and rename at once leave a     *)
(* tree: what is there is in a folder that is there.  RMD is only of what  *)
(* is empty, and nobody looks and then acts.                               *)
TreeIsWhole ==
  \A path \in Paths : Exists(card, path) => IsFolder(card, Parent(path))

(* A rename moves the path that the command before it named, in the same   *)
(* connection: never one that was named earlier, or by the client that had *)
(* the slot before.                                                        *)
RenameFollowsRnfr ==
  \A s \in Slots : session[s].pc = "apply" /\ session[s].verb = "RNTO"
    => session[s].from # Root /\ session[s].from = session[s].prior

(* A session between commands says that it is idle, however the last one   *)
(* ended, so the screen never shows an upload that is over.                *)
NoGhostActivity ==
  \A s \in Slots : session[s].pc \in {"loop", "recv", "close"}
    => session[s].activity = "idle"

(* What an upload is acknowledged for is on the card as a whole file, if   *)
(* nobody else has touched it since it was opened.                         *)
AcknowledgedIsWhole ==
  \A s \in Slots :
    session[s].pc = "note" /\ session[s].verb = "STOR" /\ session[s].ok
      => card[session[s].path].whole

(* If the media screen shows other counts than the card has, its next poll *)
(* will find the counter changed, or a session is about to change it or is *)
(* uploading, or an upload failed: the counter is raised after the card is *)
(* changed, and read before the card is.                                   *)
StaleIsKnown ==
  screen.pc = "shown" /\ mounted /\ screen.counted # Counts(card, Root)
    => \/ mutations # screen.stamp \/ silent
       \/ \E s \in Slots : session[s].pc = "note" \/ Uploading(s)

Serving == server.listening /\ acceptor.pc # "none"

(* The server listens for as long as the media screen is open and no       *)
(* longer: opening and closing it quickly cannot leave it the other way.   *)
ServerFollowsScreen ==
  /\ <>[](media /\ mounted /\ ~Doing("quit")) => <>[](Serving \/ server.failed)
  /\ <>[]~media => <>[]~server.listening

(* nn20clock_ftp.c says of a failed upload that its partial file is        *)
(* removed: what is removed then is a partial file.                        *)
RemovesOnlyPartials ==
  [][\A s \in Slots :
       session[s].pc = "discard" /\ session'[s].pc = "loop" /\ card' # card
         => ~card[session[s].path].whole]_vars
============================================================================
