------------------------------ MODULE Network ------------------------------
(***************************************************************************)
(* The radio of nn20clock_net.c.  Three threads act on it: the CoreWorker   *)
(* starts it, joins networks, scans and runs SNTP; the event task answers   *)
(* what the driver reports; and the driver itself (ESP-IDF, external) joins *)
(* or fails to join on its own.  A step is the span between two accesses to *)
(* what another thread may write.                                           *)
(***************************************************************************)
EXTENDS Naturals, Sequences

CONSTANTS Networks,     \* the networks in range
          MaxRetry      \* CONFIG_NN20CLOCK_WIFI_MAX_RETRY

None == "none"          \* the empty SSID

ASSUME NetworkAssumption ==
  /\ None \notin Networks
  /\ MaxRetry \in Nat \ {0}

VARIABLES
  net,      \* NN20ClockNet
  radio,    \* the driver: its configuration and its association
  events,   \* what the driver has reported and the event task not yet seen
  taken     \* the attempt number of the retry the event task is about to make

netVars == <<net, radio, events, taken>>

NetStates == {"DISABLED", "CONNECTING", "CONNECTED", "FAILED"}

NewNet == [ssid |-> None, wanted |-> TRUE, sntp |-> FALSE, up |-> FALSE,
           started |-> FALSE, state |-> "DISABLED", retries |-> 0,
           have |-> FALSE, ip |-> FALSE, scanning |-> FALSE, client |-> 0]

Silent == [config |-> None, assoc |-> "idle", target |-> None,
           refused |-> FALSE]

NetInit == net = NewNet /\ radio = Silent /\ events = <<>> /\ taken = 0

NetReset == net' = NewNet /\ radio' = Silent /\ events' = <<>> /\ taken' = 0

-----------------------------------------------------------------------------
(* The driver. *)

(* esp_wifi_connect(): joins what is configured at this moment; nothing if  *)
(* it is joining or has joined already.  It may refuse, and no event tells. *)
Connect ==
  \/ /\ radio.assoc = "idle"
     /\ \/ radio' = [radio EXCEPT !.assoc = "joining", !.target = radio.config]
        \/ radio' = [radio EXCEPT !.refused = TRUE]
  \/ radio.assoc # "idle" /\ UNCHANGED radio

(* esp_wifi_disconnect() *)
Disconnect ==
  /\ radio' = [radio EXCEPT !.assoc = "idle"]
  /\ events' = IF radio.assoc = "idle" THEN events
               ELSE Append(events, "disconnected")

Joins ==
  /\ radio.assoc = "joining"
  /\ radio' = [radio EXCEPT !.assoc = "joined"]
  /\ events' = Append(events, "got_ip")
  /\ UNCHANGED <<net, taken>>

JoinFails ==
  /\ radio.assoc = "joining"
  /\ radio' = [radio EXCEPT !.assoc = "idle"]
  /\ events' = Append(events, "disconnected")
  /\ UNCHANGED <<net, taken>>

Drops ==
  /\ radio.assoc = "joined"
  /\ radio' = [radio EXCEPT !.assoc = "idle"]
  /\ events' = Append(events, "disconnected")
  /\ UNCHANGED <<net, taken>>

-----------------------------------------------------------------------------
(* The event task: on_wifi_event() and on_got_ip(). *)

Seen(e) == taken = 0 /\ events # <<>> /\ Head(events) = e /\ events' = Tail(events)

EventStart ==
  /\ Seen("start")
  /\ IF net.have THEN Connect ELSE UNCHANGED radio
  /\ UNCHANGED <<net, taken>>

EventLost ==
  /\ Seen("disconnected")
  /\ taken' = net.retries + 1
  /\ net' = [net EXCEPT !.ip = FALSE, !.retries = @ + 1]
  /\ UNCHANGED radio

EventRetry ==
  /\ taken \in 1..MaxRetry
  /\ Connect
  /\ taken' = 0
  /\ UNCHANGED <<net, events>>

\* fault: retries for ever.
RetryForever ==
  /\ taken > MaxRetry
  /\ Connect
  /\ taken' = 0
  /\ net' = [net EXCEPT !.retries = 0]
  /\ UNCHANGED events

EventGiveUp ==
  /\ taken > MaxRetry
  /\ net' = [net EXCEPT !.state = "FAILED"]
  /\ taken' = 0
  /\ UNCHANGED <<radio, events>>

EventGotIp ==
  /\ Seen("got_ip")
  /\ net' = [net EXCEPT !.retries = 0, !.ip = TRUE, !.state = "CONNECTED"]
  /\ UNCHANGED <<radio, taken>>

EventTask == EventStart \/ EventLost \/ EventRetry \/ EventGiveUp \/ EventGotIp

-----------------------------------------------------------------------------
(* The CoreWorker's tasks.  Each is one step of a callback. *)

(* start_private(): the interface, the driver and the START it reports ...  *)
NetUp(ssid) ==
  /\ net' = [net EXCEPT !.ssid = ssid, !.have = ssid # None, !.up = TRUE,
               !.state = IF ssid # None THEN "CONNECTING" ELSE "DISABLED"]
  /\ radio' = [radio EXCEPT !.config = ssid]
  /\ events' = Append(events, "start")
  /\ UNCHANGED taken

(* ... or one of its calls fails, some of them marking the state. *)
NetUpFails(ssid) ==
  /\ \E s \in {"FAILED", "DISABLED"}:
       net' = [net EXCEPT !.ssid = ssid, !.state = s]
  /\ UNCHANGED <<radio, events, taken>>

(* sntp_up(), when the user wants it *)
NetStarted ==
  /\ net' = [net EXCEPT !.sntp = net.wanted, !.started = TRUE]
  /\ UNCHANGED <<radio, events, taken>>

(* set_ntp_private() *)
SetNtp ==
  /\ net' = [net EXCEPT !.sntp = net.wanted /\ (@ \/ net.started)]
  /\ UNCHANGED <<radio, events, taken>>

(* connect_to_private() *)
JoinDrop(ssid) ==
  /\ net' = [net EXCEPT !.ssid = ssid, !.have = TRUE]
  /\ Disconnect
  /\ UNCHANGED taken

JoinReset ==
  /\ net' = [net EXCEPT !.retries = 0]
  /\ UNCHANGED <<radio, events, taken>>

JoinApply ==
  /\ radio' = [radio EXCEPT !.config = net.ssid]
  /\ UNCHANGED <<net, events, taken>>

JoinConnecting ==
  /\ net' = [net EXCEPT !.state = "CONNECTING"]
  /\ UNCHANGED <<radio, events, taken>>

JoinConnect ==
  /\ Connect
  /\ UNCHANGED <<net, events, taken>>

-----------------------------------------------------------------------------
NetTypeOK ==
  /\ net \in [ssid : Networks \cup {None}, wanted : BOOLEAN, sntp : BOOLEAN,
              up : BOOLEAN, started : BOOLEAN, state : NetStates, retries : Nat,
              have : BOOLEAN, ip : BOOLEAN, scanning : BOOLEAN, client : Nat]
  /\ radio \in [config : Networks \cup {None}, assoc : {"idle", "joining", "joined"},
                target : Networks \cup {None}, refused : BOOLEAN]
  /\ events \in Seq({"start", "disconnected", "got_ip"})
  /\ taken \in Nat

(* RadioSettles: retries are bounded and every join ends.  Whatever the     *)
(* access points do and whichever network is chosen under way, the screen   *)
(* stops saying "Connecting...", and says CONNECTED exactly when there is   *)
(* an association with an address - unless the driver has refused a         *)
(* connect, which the code neither retries nor reports                      *)
(* (on_wifi_event, connect_to_private).                                     *)
Settled ==
  /\ net.state # "CONNECTING"
  /\ net.state = "CONNECTED" <=> radio.assoc = "joined"
  /\ net.ip <=> radio.assoc = "joined"

RadioSettles == []<>(Settled \/ radio.refused)
=============================================================================
