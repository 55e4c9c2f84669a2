----------------------------- MODULE FtpServer -----------------------------
(***************************************************************************)
(* The FTP server of nn20clock_ftp.c over the SD card: the task that       *)
(* accepts clients, one task for each of a fixed number of sessions, and   *)
(* the lifecycle calls of its owner.  Nothing here holds a lock: sessions  *)
(* meet on the card, on the counter of changes, and on the flags of their  *)
(* slots.  A client says what it likes and may vanish at any time.         *)
(*                                                                         *)
(* One line is handled per read; replies, the login commands and the       *)
(* content of files are left out.                                          *)
(***************************************************************************)
EXTENDS MediaCard

CONSTANTS MaxSessions,   \* NN20CLOCK_FTP_MAX_SESSIONS
          Requests,      \* the commands a client sends, each with its argument
          MaxClients,    \* bound: connections accepted
          MaxCommands,   \* bound: commands of all clients together
          MaxFaults,     \* bound: calls to the card or the stack that fail
          MaxVisits,     \* bound: times the media screen is opened
          MaxQuits,      \* bound: times the application is stopped
          Spent          \* what of the bounds may be used up at the start

FtpAssumption == /\ MaxSessions \in Nat \ {0}
                 /\ MaxClients \in Nat /\ MaxCommands \in Nat /\ MaxFaults \in Nat
                 /\ MaxVisits \in Nat /\ MaxQuits \in Nat
                 /\ Spent \subseteq [clients : 0 .. MaxClients, commands : 0 .. MaxCommands,
                                    faults : 0 .. MaxFaults, visits : 0 .. MaxVisits,
                                    quits : 0 .. MaxQuits]
ASSUME FtpAssumption

Slots == 0 .. MaxSessions - 1

VARIABLES card,        \* what is at each path
          mounted,     \* NN20ClockSd.mounted
          server,      \* running, stopping, whether the listener is open, and, as
               \* history, whether the last start failed
          acceptor,    \* the acceptor task: where it is, the slot it claimed
          session,     \* the slots, each with its task
          mutations,   \* changes announced to whoever polls
          owner,       \* where the owner's call of start or stop is
          spent        \* how much of each bound is used

ftpVars == <<card, mounted, server, acceptor, session, mutations, owner, spent>>

Changing == {"DELE", "MKD", "RMD", "RNTO", "HIDE", "UNHIDE"}
Transfers == {"LIST", "RETR", "STOR"}

(* A free slot.  What is local to handle_command is Local between commands: *)
(* the verb and its path, the copy RNTO takes of renameFrom, and ok,       *)
(* whether the directory entry an upload writes through is still the one   *)
(* it opened.  prior is history: the path the command before this one      *)
(* named for renaming.                                                     *)
Free == [inUse |-> FALSE, pc |-> "none", control |-> "none", passive |-> FALSE,
         dir |-> Root, renameFrom |-> Root, verb |-> "NOOP", path |-> Root,
         from |-> Root, ok |-> FALSE, activity |-> "idle", prior |-> Root]

Local(slot) == [slot EXCEPT !.verb = "NOOP", !.path = Root, !.from = Root,
                           !.ok = FALSE]

FtpInit == /\ mounted \in BOOLEAN
           /\ server = [running |-> FALSE, stopping |-> FALSE, listening |-> FALSE,
                     failed |-> FALSE]
           /\ acceptor = [pc |-> "none", slot |-> 0]
           /\ session = [s \in Slots |-> Free]
           /\ mutations = 0 /\ owner = "idle"
           /\ spent \in Spent

Fails == /\ spent.faults < MaxFaults
         /\ spent' = [spent EXCEPT !.faults = @ + 1]

Set(s, new) == session' = [session EXCEPT ![s] = new]

(* A change of the card under an upload another session has open leaves    *)
(* that session with a directory entry that is no longer its own.          *)
Uploading(t) == session[t].verb = "STOR"
                  /\ session[t].pc \in {"accept", "transfer", "discard", "note"}
ChangeCard(s, new, changed) ==
  /\ card' = changed
  /\ session' = [t \in Slots |->
       IF t = s THEN new
       ELSE [session[t] EXCEPT !.ok = @ /\ (Uploading(t) =>
              changed[session[t].path] = card[session[t].path])]]

(***************************************************************************)
(* Clients and the acceptor.                                               *)
(***************************************************************************)
AcceptorLoop ==
  /\ acceptor.pc = "loop"
  /\ acceptor' = [acceptor EXCEPT !.pc = IF server.stopping THEN "none" ELSE "accept"]
  /\ UNCHANGED <<card, mounted, server, session, mutations, owner, spent>>

AcceptorWakes ==
  /\ acceptor.pc = "accept" /\ ~server.listening
  /\ acceptor' = [acceptor EXCEPT !.pc = IF server.stopping THEN "none" ELSE "loop"]
  /\ UNCHANGED <<card, mounted, server, session, mutations, owner, spent>>

(* claim_session: a slot keeps what its last client left; it starts over.  *)
\* fault: the new client inherits the rename the last one had begun
ClaimUncleared(s) == [session[s] EXCEPT !.inUse = TRUE, !.activity = "idle",
                                        !.dir = Root]

ClaimSession(s) == [session[s] EXCEPT !.inUse = TRUE, !.activity = "idle",
                                      !.dir = Root, !.renameFrom = Root]

Accept ==
  /\ acceptor.pc = "accept" /\ server.listening /\ spent.clients < MaxClients
  /\ spent' = [spent EXCEPT !.clients = @ + 1]
  /\ \/ \E s \in Slots :
          /\ ~session[s].inUse /\ \A t \in 0 .. s - 1 : session[t].inUse
          /\ Set(s, ClaimSession(s))
          /\ acceptor' = [pc |-> "claimed", slot |-> s]
     \/ /\ \A s \in Slots : session[s].inUse
        /\ acceptor' = [acceptor EXCEPT !.pc = "loop"]
        /\ UNCHANGED session
  /\ UNCHANGED <<card, mounted, server, mutations, owner>>

StartSession ==
  /\ acceptor.pc = "claimed"
  /\ acceptor' = [acceptor EXCEPT !.pc = "loop"]
  /\ LET s == acceptor.slot IN
     \/ /\ Set(s, [session[s] EXCEPT !.control = "open", !.passive = FALSE,
                                     !.pc = "loop", !.prior = Root])
        /\ UNCHANGED spent
     \/ /\ Fails
        /\ Set(s, [session[s] EXCEPT !.inUse = FALSE])
  /\ UNCHANGED <<card, mounted, server, mutations, owner>>

(***************************************************************************)
(* A session's task: between commands.                                     *)
(***************************************************************************)
SessionLoop(s) ==
  /\ session[s].pc = "loop"
  /\ Set(s, [session[s] EXCEPT !.pc = IF server.stopping THEN "close" ELSE "recv"])
  /\ UNCHANGED <<card, mounted, server, acceptor, mutations, owner, spent>>

(* recv returns nothing: the client has closed, said nothing for too long, *)
(* or been cut off by stop.  Of a client that vanishes this is all that is *)
(* seen.                                                                   *)
RecvEnds(s) ==
  /\ session[s].pc = "recv"
  /\ Set(s, [session[s] EXCEPT !.pc = "close"])
  /\ UNCHANGED <<card, mounted, server, acceptor, mutations, owner, spent>>

CloseSession(s) ==
  /\ session[s].pc = "close"
  /\ Set(s, [session[s] EXCEPT !.passive = FALSE, !.control = "none",
                              !.inUse = FALSE, !.pc = "none"])
  /\ UNCHANGED <<card, mounted, server, acceptor, mutations, owner, spent>>

(***************************************************************************)
(* handle_command.  A command finds renameFrom as the one before left it,  *)
(* and leaves it empty unless it is an RNFR that is granted.               *)
(***************************************************************************)
Handling(s, verb) ==
  [session[s] EXCEPT !.renameFrom = Root, !.pc = "loop",
                     !.prior = IF verb = "RNTO" THEN @ ELSE Root]

Reads(s, verb, path) ==
  LET new == Handling(s, verb) IN
  CASE verb = "CWD" /\ mounted /\ IsFolder(card, path) -> [new EXCEPT !.dir = path]
    [] verb = "RNFR" /\ mounted /\ path # Root /\ Exists(card, path)
         -> [new EXCEPT !.renameFrom = path, !.prior = path]
    [] verb = "PASV" -> [new EXCEPT !.passive = TRUE]
    [] verb = "QUIT" -> [new EXCEPT !.pc = "close"]
    [] OTHER -> new

(* The commands that change the card in one call do it in a step of their  *)
(* own: another session may be between its call and its counter.           *)
ActivityOf(verb) ==
  CASE verb \in {"DELE", "RMD"} -> "deleting"
    [] verb = "MKD" -> "creating"
    [] verb = "RNTO" -> "renaming"
    [] verb \in {"HIDE", "UNHIDE"} -> "hiding"
    [] verb = "LIST" -> "listing"
    [] verb = "RETR" -> "downloading"
    [] OTHER -> "uploading"

Changes(s, verb, path) ==
  LET new == Handling(s, verb)
      from == IF verb = "RNTO" THEN session[s].renameFrom ELSE Root
  IN IF verb = "RNTO" /\ from = Root THEN new
     ELSE [new EXCEPT !.pc = "apply", !.verb = verb, !.path = path, !.from = from,
                      !.activity = ActivityOf(verb)]

(* The transfers open what they serve, then wait for the client on the     *)
(* passive socket.  Without one they answer and end, and an upload has cut *)
(* its file by then.                                                       *)
Begins(s, verb, path) ==
  LET new == Handling(s, verb) IN
  IF session[s].passive
  THEN [new EXCEPT !.pc = "accept", !.verb = verb, !.path = path, !.ok = TRUE,
          !.activity = IF verb = "LIST" /\ ~IsFolder(card, path)
                       THEN "idle" ELSE ActivityOf(verb)]
  ELSE new

CanBegin(verb, path) ==
  CASE verb = "LIST" -> mounted /\ Exists(card, path)
    [] verb = "RETR" -> mounted /\ IsFile(card, path)
    [] OTHER -> mounted /\ CanOpenWrite(card, path)

Obey(s, verb, path) ==
  IF path \notin Paths THEN Set(s, Handling(s, verb)) /\ UNCHANGED card
  ELSE IF verb \in Changing THEN Set(s, Changes(s, verb, path)) /\ UNCHANGED card
  ELSE IF verb \notin Transfers THEN Set(s, Reads(s, verb, path)) /\ UNCHANGED card
  ELSE IF ~CanBegin(verb, path) THEN Set(s, Handling(s, verb)) /\ UNCHANGED card
  ELSE IF verb = "STOR"
       THEN ChangeCard(s, Begins(s, verb, path), OpenWrite(card, path))
       ELSE Set(s, Begins(s, verb, path)) /\ UNCHANGED card

Command(s) ==
  /\ session[s].pc = "recv" /\ session[s].control = "open"
  /\ spent.commands < MaxCommands
  /\ spent' = [spent EXCEPT !.commands = @ + 1]
  /\ \E request \in Requests :
       Obey(s, request.verb, Resolve(session[s].dir, request.input))
  /\ UNCHANGED <<mounted, server, acceptor, mutations, owner>>

(* One call to the card.                                                   *)
Allowed(verb, path, from) ==
  /\ mounted
  /\ CASE verb = "DELE" -> CanDeleteFile(card, path)
       [] verb = "MKD" -> CanMakeFolder(card, path)
       [] verb = "RMD" -> CanDeleteFolder(card, path)
       [] verb = "RNTO" -> CanRename(card, from, path)
       [] OTHER -> CanHide(card, path)

Result(verb, path, from) ==
  CASE verb = "DELE" -> DeleteFile(card, path)
    [] verb = "MKD" -> MakeFolder(card, path)
    [] verb = "RMD" -> DeleteFolder(card, path)
    [] verb = "RNTO" -> Rename(card, from, path)
    [] OTHER -> SetHidden(card, path, verb = "HIDE")

Apply(s) ==
  LET verb == session[s].verb
      path == session[s].path
      from == session[s].from
      idle == [session[s] EXCEPT !.activity = "idle"]
  IN /\ session[s].pc = "apply"
     /\ \/ /\ Allowed(verb, path, from)
           /\ ChangeCard(s, [idle EXCEPT !.pc = "note"], Result(verb, path, from))
           /\ UNCHANGED spent
        \/ /\ ~Allowed(verb, path, from)
           /\ Set(s, Local([idle EXCEPT !.pc = "loop"]))
           /\ UNCHANGED <<card, spent>>
        \/ /\ Fails
           /\ Set(s, Local([idle EXCEPT !.pc = "loop"]))
           /\ UNCHANGED card
     /\ UNCHANGED <<mounted, server, acceptor, mutations, owner>>

(* note_mutation, after the card has changed.                              *)
Note(s) ==
  /\ session[s].pc = "note"
  /\ mutations' = mutations + 1
  /\ Set(s, Local([session[s] EXCEPT !.pc = "loop", !.activity = "idle"]))
  /\ UNCHANGED <<card, mounted, server, acceptor, owner, spent>>

(***************************************************************************)
(* send_listing, send_file and receive_file.                               *)
(***************************************************************************)
DataAccept(s) ==
  /\ session[s].pc = "accept"
  /\ Set(s, [session[s] EXCEPT !.pc = "transfer"])
  /\ UNCHANGED <<card, mounted, server, acceptor, mutations, owner, spent>>

(* No connection or no memory: the file is closed as it is.                *)
\* fault: one way out of a transfer that does not reset the activity
DataFailsBusy(s) ==
  /\ session[s].pc = "accept" /\ Fails
  /\ Set(s, Local([session[s] EXCEPT !.pc = "loop", !.passive = FALSE]))
  /\ UNCHANGED <<card, mounted, server, acceptor, mutations, owner>>

DataFails(s) ==
  /\ session[s].pc = "accept" /\ Fails
  /\ Set(s, Local([session[s] EXCEPT !.pc = "loop", !.passive = FALSE,
                                    !.activity = "idle"]))
  /\ UNCHANGED <<card, mounted, server, acceptor, mutations, owner>>

(* The last byte, or the point at which one side gave up.  A file whose    *)
(* entry was taken away is not made whole by being closed.                 *)
\* fault: a connection that breaks is taken for the end of the file
FinishedAnyhow(s, complete) ==
  LET closed == [session[s] EXCEPT !.passive = FALSE] IN
  IF session[s].verb # "STOR"
  THEN Local([closed EXCEPT !.pc = "loop", !.activity = "idle"])
  ELSE [closed EXCEPT !.pc = "note"]

Finished(s, complete) ==
  LET closed == [session[s] EXCEPT !.passive = FALSE] IN
  IF session[s].verb # "STOR"
  THEN Local([closed EXCEPT !.pc = "loop", !.activity = "idle"])
  ELSE [closed EXCEPT !.pc = IF complete THEN "note" ELSE "discard"]

Transfer(s) ==
  /\ session[s].pc = "transfer"
  /\ \E complete \in BOOLEAN :
       /\ Set(s, Finished(s, complete))
       /\ card' = IF complete /\ session[s].verb = "STOR" /\ session[s].ok
                  THEN [card EXCEPT ![session[s].path].whole = TRUE] ELSE card
  /\ UNCHANGED <<mounted, server, acceptor, mutations, owner, spent>>

(* The partial file of a failed upload is removed, by name.                *)
Discard(s) ==
  LET path == session[s].path
      done == Local([session[s] EXCEPT !.pc = "loop", !.activity = "idle"])
  IN /\ session[s].pc = "discard"
     /\ IF mounted /\ CanDeleteFile(card, path)
        THEN ChangeCard(s, done, DeleteFile(card, path))
        ELSE Set(s, done) /\ UNCHANGED card
     /\ UNCHANGED <<mounted, server, acceptor, mutations, owner, spent>>

(***************************************************************************)
(* The owner's calls, on its own worker.                                   *)
(***************************************************************************)
\* fault: a start that leaves the flag of the last stop up
StartStopping ==
  /\ ~server.running
  /\ server' = [server EXCEPT !.running = TRUE, !.listening = TRUE]
  /\ acceptor' = [acceptor EXCEPT !.pc = "loop"]
  /\ UNCHANGED <<card, mounted, session, mutations, spent>>

Start ==
  \/ /\ ~server.running
     /\ server' = [running |-> TRUE, stopping |-> FALSE, listening |-> TRUE,
                   failed |-> FALSE]
     /\ acceptor' = [acceptor EXCEPT !.pc = "loop"]
     /\ UNCHANGED <<card, mounted, session, mutations, spent>>
  \/ /\ ~server.running /\ Fails
     /\ server' = [server EXCEPT !.failed = TRUE]
     /\ UNCHANGED <<card, mounted, acceptor, session, mutations>>
  \/ /\ server.running
     /\ UNCHANGED <<card, mounted, server, acceptor, session, mutations, spent>>

StopListening ==
  /\ server' = [server EXCEPT !.stopping = TRUE, !.listening = FALSE]
  /\ UNCHANGED <<card, mounted, acceptor, session, mutations, spent>>

ShutControls ==
  /\ session' = [s \in Slots |->
       IF session[s].inUse /\ session[s].control = "open"
       THEN [session[s] EXCEPT !.control = "shut"] ELSE session[s]]
  /\ UNCHANGED <<card, mounted, server, acceptor, mutations, spent>>

(* stop waits for two seconds at most, which is long for everything but a  *)
(* client that keeps a data connection waiting.                            *)
AllGone == acceptor.pc = "none" /\ \A s \in Slots : ~session[s].inUse
OnlyClientsWait == /\ acceptor.pc = "none"
                   /\ \A s \in Slots : session[s].inUse
                                         => session[s].pc \in {"accept", "transfer"}

StopReturns ==
  /\ AllGone \/ OnlyClientsWait
  /\ server' = [server EXCEPT !.running = FALSE]
  /\ UNCHANGED <<card, acceptor, mutations, spent>>

SessionStep(s) == \/ SessionLoop(s) \/ RecvEnds(s) \/ CloseSession(s)
                  \/ Apply(s) \/ Note(s) \/ Discard(s)
ClientStep(s) == Command(s) \/ DataAccept(s) \/ DataFails(s) \/ Transfer(s)
AcceptorStep == AcceptorLoop \/ AcceptorWakes \/ StartSession
============================================================================
