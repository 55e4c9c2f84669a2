------------------------------ MODULE Settings ------------------------------
(***************************************************************************)
(* The settings of the clock: the stored record, the settings screen that   *)
(* edits a copy of it, the hooks that apply it, the brightness schedule and *)
(* the radio.                                                               *)
(*                                                                          *)
(* The UiWorker runs the screen's handlers and waits for the CoreWorker     *)
(* when a handler applies something to the radio; the CoreWorker starts the *)
(* application, drives the panel and the radio; the manager swaps screens   *)
(* and posts what follows from it.                                          *)
(***************************************************************************)
EXTENDS Network, FiniteSets

CONSTANTS Levels,       \* brightness percentages
          Zones,
          Budgets       \* bounds: how often the environment may do each of
                        \* these things in one behaviour

Acts == {"list", "slide", "toggle", "time", "zone", "join", "visit", "cut", "turn",
         "ring", "drop", "fault"}

ASSUME SettingsAssumption ==
  /\ Levels \subseteq Nat \ {0} /\ \E top \in Levels : \A l \in Levels : l <= top
  /\ Zones # {}
  /\ Budgets \subseteq [Acts -> Nat]

Unset == 0                   \* the system clock after a power cut
Synced == 1                  \* ... and as SNTP sets it; a hand sets later ones

VARIABLES
  flash,    \* the record in NVS
  ram,      \* storage->config
  ui,       \* DeviceUi, and where its handler waits
  core,     \* the CoreWorker: its queue and the step it is at
  posted,   \* scan_done_private tasks on the UiWorker, by screen
  mode,     \* what is shown: "off", "time", "settings" or "ringing"
  light,    \* the panel and what the schedule last asked for
  dark,     \* whether it is night
  clock,    \* the system clock
  zone,     \* the Timer's zone
  user,     \* history: what the user has set and been shown as set
  budget    \* what is left of each bound

screenVars == <<ui, posted, mode>>
lightVars == <<light, dark>>
settingsVars == <<flash, ram, ui, core, posted, mode, light, dark, clock, zone,
                  user, budget>>
vars == <<netVars, settingsVars>>

Top == CHOOSE l \in Levels : \A m \in Levels : m <= l

(* NN20ClockConfig, as far as it matters here: `film` is the playback       *)
(* minimum, `known` the last known time.                                    *)
Defaults == [ssid |-> None, ntp |-> TRUE, zone |-> CHOOSE z \in Zones : TRUE,
             day |-> Top, night |-> Top, film |-> Top, known |-> Unset]

Views == {"menu", "networks", "password", "brightness", "time"}

NoScreen == [view |-> "none", copy |-> Defaults, scanning |-> FALSE,
             found |-> FALSE, pending |-> None, night |-> FALSE, wait |-> "no",
             leaving |-> FALSE]

Spend(as) ==
  /\ \A a \in as : budget[a] > 0
  /\ budget' = [a \in Acts |-> IF a \in as THEN budget[a] - 1 ELSE budget[a]]

Post(t) == core' = [core EXCEPT !.queue = Append(@, t)]
PostAll(ts) == core' = [core EXCEPT !.queue = @ \o ts]

Init ==
  /\ NetInit
  /\ flash = Defaults /\ ram = Defaults
  /\ ui = NoScreen /\ posted = <<>>
  /\ core = [queue |-> <<>>, step |-> "idle"]
  /\ mode = "off"
  /\ light = [panel |-> Top, scheduled |-> 0, playing |-> FALSE]
  /\ dark = FALSE /\ clock = Unset /\ zone = Defaults.zone
  /\ user = [ssid |-> None, ntp |-> TRUE, zone |-> Defaults.zone,
             time |-> Unset, switch |-> TRUE, spoiled |-> FALSE]
  /\ budget \in Budgets

-----------------------------------------------------------------------------
(* Storage: apply_config() writes flash, then memory.  A write that fails   *)
(* leaves the memory alone; flash may hold either record.                   *)
Saved(c) == flash' = c /\ ram' = c

SaveFails(c) ==
  /\ Spend({"fault"})
  /\ ram' = ram
  /\ flash' \in {flash, c}

(* What a handler saves, and what the user knows after it. *)
Keep(c, known) ==
  \/ Saved(c) /\ user' = known /\ UNCHANGED budget
  \/ SaveFails(c) /\ user' = [known EXCEPT !.spoiled = TRUE]

-----------------------------------------------------------------------------
(* The brightness schedule: apply_scheduled_brightness() on the CoreWorker, *)
(* which reads the stored record every time.                                *)
Scheduled(c) == IF dark THEN c.night ELSE c.day

Answer(c, playing) ==
  IF playing /\ Scheduled(c) < c.film THEN c.film ELSE Scheduled(c)

Apply(last, playing) ==
  LET percent == Answer(ram, playing) IN
  light' = [panel |-> IF percent = last THEN light.panel ELSE percent,
            scheduled |-> percent, playing |-> playing]

Tick == Apply(light.scheduled, light.playing)

\* fault: does not forget what the schedule last asked for.
ReclaimIfChanged(playing) == Apply(light.scheduled, playing)

Reclaim(playing) == Apply(0, playing)

(* A MINUTE tick is posted by the Timer; the half of the day may turn.      *)
Minute ==
  /\ mode # "off" /\ Spend({"turn"})
  /\ dark' = ~dark
  /\ Post("tick")
  /\ UNCHANGED <<netVars, flash, ram, screenVars, light, clock, zone, user>>

-----------------------------------------------------------------------------
(* The application starts on the CoreWorker: storage, zone and manager ...  *)
Boot ==
  /\ mode = "off"
  /\ ram' = flash /\ zone' = flash.zone
  /\ mode' = "time" /\ core' = [queue |-> <<>>, step |-> "config"]
  /\ user' = [user EXCEPT !.switch = flash.ntp]
  /\ UNCHANGED <<netVars, flash, ui, posted, lightVars, clock, budget>>

(* ... then the stored brightness, time synchronisation and time. *)
Restored ==
  clock' = IF ~ram.ntp /\ ram.known # Unset /\ clock = Unset THEN ram.known
           ELSE clock

\* fault: the stored choice about SNTP is not applied.
ConfigWithoutNtp ==
  /\ core.step = "config"
  /\ Tick
  /\ Restored
  /\ core' = [core EXCEPT !.step = "radio"]
  /\ UNCHANGED <<netVars, flash, ram, screenVars, dark, zone, user, budget>>

ConfigApplied ==
  /\ core.step = "config"
  /\ Tick
  /\ net' = [net EXCEPT !.wanted = ram.ntp]
  /\ Restored
  /\ core' = [core EXCEPT !.step = "radio"]
  /\ UNCHANGED <<radio, events, taken, flash, ram, screenVars, dark, zone,
                 user, budget>>

RadioUp ==
  /\ core.step = "radio"
  /\ \/ /\ NetUp(ram.ssid) /\ UNCHANGED budget
        /\ core' = [core EXCEPT !.step = "sntp"]
     \/ /\ Spend({"fault"}) /\ NetUpFails(ram.ssid)
        /\ core' = [core EXCEPT !.step = "idle"]
  /\ UNCHANGED <<flash, ram, screenVars, lightVars, clock, zone, user>>

RadioStarted ==
  /\ core.step = "sntp"
  /\ NetStarted
  /\ core' = [core EXCEPT !.step = "idle"]
  /\ UNCHANGED <<flash, ram, screenVars, lightVars, clock, zone, user, budget>>

(* The power goes, or the clock restarts; the RTC survives the second.      *)
PowerCut ==
  /\ mode # "off" /\ Spend({"cut"})
  /\ NetReset
  /\ mode' = "off" /\ ui' = NoScreen /\ posted' = <<>>
  /\ core' = [queue |-> <<>>, step |-> "idle"]
  /\ light' = [panel |-> Top, scheduled |-> 0, playing |-> FALSE]
  /\ clock' \in {clock, Unset}
  /\ UNCHANGED <<flash, ram, dark, zone, user>>

(* SNTP sets the clock whenever it runs and there is a network. *)
SntpSyncs ==
  /\ net.sntp /\ net.ip /\ clock # Synced
  /\ clock' = Synced
  /\ UNCHANGED <<netVars, flash, ram, screenVars, core, lightVars, zone, user,
                 budget>>

-----------------------------------------------------------------------------
(* The CoreWorker's queue. *)
AtHead(t) == core.step = "idle" /\ core.queue # <<>> /\ Head(core.queue) = t

Ran == core' = [core EXCEPT !.queue = Tail(@)]

PanelTask ==
  /\ \/ AtHead("tick") /\ Tick
     \/ AtHead("reclaim") /\ Reclaim(light.playing)
     \/ AtHead("begun") /\ Reclaim(TRUE)
     \/ AtHead("ended") /\ Reclaim(FALSE)
  /\ Ran
  /\ UNCHANGED <<netVars, flash, ram, screenVars, dark, clock, zone, user, budget>>

NtpTask ==
  /\ AtHead("ntp") /\ Ran
  /\ SetNtp
  /\ ui' = [ui EXCEPT !.wait = "ntp done"]
  /\ UNCHANGED <<flash, ram, posted, mode, lightVars, clock, zone, user, budget>>

Step(s) == core' = [core EXCEPT !.step = s]

JoinOver == /\ core' = [queue |-> Tail(core.queue), step |-> "idle"]
            /\ ui' = [ui EXCEPT !.wait = "join done"]

JoinTask ==
  /\ \/ AtHead("join") /\ net.up /\ JoinDrop(ui.copy.ssid) /\ Step("reset")
     \/ core.step = "reset" /\ JoinReset /\ Step("apply")
     \/ core.step = "apply" /\ JoinApply /\ Step("connecting")
     \/ core.step = "connecting" /\ JoinConnecting /\ Step("connect")
  /\ UNCHANGED <<flash, ram, screenVars, lightVars, clock, zone, user, budget>>

(* The task ends: with the connect, or early when the radio never came up   *)
(* or the driver does not take the configuration.                           *)
JoinEnds ==
  /\ \/ core.step = "connect" /\ JoinConnect /\ UNCHANGED budget
     \/ AtHead("join") /\ ~net.up /\ UNCHANGED <<netVars, budget>>
     \/ core.step = "apply" /\ Spend({"fault"})
        /\ UNCHANGED netVars
  /\ JoinOver
  /\ UNCHANGED <<flash, ram, posted, mode, lightVars, clock, zone, user>>

(* scan_private(): blocks the CoreWorker until the channels are swept, then *)
(* hands the result to the screen it was started for and posts the redraw.  *)
(* A screen that has gone since is written to all the same: its memory is   *)
(* not modelled.                                                            *)
ScanTask ==
  /\ AtHead("scan") /\ Ran
  /\ net' = [net EXCEPT !.scanning = FALSE]
  /\ \E found \in BOOLEAN :
       ui' = IF net.client = budget.visit /\ mode = "settings"
             THEN [ui EXCEPT !.found = found] ELSE ui
  /\ posted' = Append(posted, net.client)
  /\ UNCHANGED <<radio, events, taken, flash, ram, mode, lightVars, clock, zone,
                 user, budget>>

CoreWorker == \/ ConfigApplied \/ RadioUp \/ RadioStarted
              \/ PanelTask \/ NtpTask \/ JoinTask \/ JoinEnds \/ ScanTask

-----------------------------------------------------------------------------
(* The manager: state changes, the screen they bring, and on_state_change(). *)
(* It destroys the screen on the UiWorker, which has to be idle for that.   *)
\* fault: the record is not loaded when the screen is shown.
ShownAsLeft ==
  ui' = [NoScreen EXCEPT !.view = "menu", !.copy = ui.copy]

Shown == ui' = [NoScreen EXCEPT !.view = "menu", !.copy = ram]

(* The boot has read its configuration long before a finger can get here.   *)
OpenSettings ==
  /\ mode = "time" /\ core.step # "config" /\ Spend({"visit"})
  /\ mode' = "settings"
  /\ Shown
  /\ UNCHANGED <<netVars, flash, ram, core, posted, lightVars, clock, zone, user>>

Gone == ui' = [NoScreen EXCEPT !.copy = ui.copy]

SettingsClosed ==
  /\ mode = "settings" /\ ui.wait = "no" /\ ui.leaving
  /\ mode' = "time" /\ Gone
  /\ Post("reclaim")
  /\ UNCHANGED <<netVars, flash, ram, posted, lightVars, clock, zone, user, budget>>

AlarmRings ==
  /\ Spend({"ring"})
  /\ \/ mode = "time" /\ Post("begun") /\ UNCHANGED ui
     \/ /\ mode = "settings" /\ ui.wait = "no"
        /\ Gone /\ PostAll(<<"reclaim", "begun">>)
  /\ mode' = "ringing"
  /\ UNCHANGED <<netVars, flash, ram, posted, lightVars, clock, zone, user>>

RingEnds ==
  /\ mode = "ringing" /\ mode' = "time"
  /\ Post("ended")
  /\ UNCHANGED <<netVars, flash, ram, ui, posted, lightVars, clock, zone, user,
                 budget>>

Manager == OpenSettings \/ SettingsClosed \/ AlarmRings \/ RingEnds

-----------------------------------------------------------------------------
(* The screen's handlers, on the UiWorker. *)
Handler(view) == mode = "settings" /\ ui.wait = "no" /\ ui.view = view

Preview(l) == light' = [light EXCEPT !.panel = l]

(* show_networks(): a scan is started whenever there is nothing to list. *)
NetworksShown(u) ==
  IF u.scanning \/ u.found THEN
    /\ ui' = [u EXCEPT !.view = "networks"]
    /\ UNCHANGED <<net, core>>
  ELSE IF net.up /\ ~net.scanning THEN
    /\ ui' = [u EXCEPT !.view = "networks", !.scanning = TRUE]
    /\ net' = [net EXCEPT !.scanning = TRUE, !.client = budget.visit]
    /\ Post("scan")
  ELSE
    /\ ui' = [u EXCEPT !.view = "networks"]
    /\ UNCHANGED <<net, core>>

OpenNetworks ==
  /\ Handler("menu") /\ Spend({"list"})
  /\ NetworksShown([ui EXCEPT !.found = FALSE])
  /\ UNCHANGED <<radio, events, taken, flash, ram, posted, mode, lightVars,
                 clock, zone, user>>

(* scan_done_private(), whatever view is up by now *)
ScanDone ==
  /\ posted # <<>> /\ ui.wait = "no"
  /\ posted' = Tail(posted)
  /\ IF Head(posted) = budget.visit /\ mode = "settings"
     THEN NetworksShown([ui EXCEPT !.scanning = FALSE])
     ELSE UNCHANGED <<ui, net, core>>
  /\ UNCHANGED <<radio, events, taken, flash, ram, mode, lightVars, clock, zone,
                 user, budget>>

Navigate(from, to, u) ==
  /\ Handler(from)
  /\ ui' = [u EXCEPT !.view = to]
  /\ UNCHANGED <<netVars, flash, ram, core, posted, mode, lightVars, clock, zone,
                 user, budget>>

(* The views, and on_leave().  The brightness view remembers which half of  *)
(* the schedule it was opened in.                                           *)
OpenBrightness == Navigate("menu", "brightness", [ui EXCEPT !.night = dark])
OpenTime == Navigate("menu", "time", ui)
BackToMenu == \E v \in {"networks", "time"} : Navigate(v, "menu", ui)
BackToNetworks ==
  /\ Handler("password")
  /\ NetworksShown(ui)
  /\ UNCHANGED <<radio, events, taken, flash, ram, posted, mode, lightVars,
                 clock, zone, user, budget>>
Leave == Navigate("menu", "menu", [ui EXCEPT !.leaving = TRUE])

(* on_open_media(): saves on the way out *)
OpenMedia ==
  /\ Handler("menu")
  /\ Keep(ui.copy, user)
  /\ ui' = [ui EXCEPT !.leaving = TRUE]
  /\ UNCHANGED <<netVars, core, posted, mode, lightVars, clock, zone>>

(* on_day_brightness_changed() and its two siblings *)
Slide(field, l) ==
  /\ Handler("brightness") /\ Spend({"slide"})
  /\ ui' = [ui EXCEPT !.copy[field] = l]
  /\ IF CASE field = "day" -> ~ui.night
          [] field = "night" -> ui.night
          [] OTHER -> TRUE
     THEN Preview(l) ELSE UNCHANGED light
  /\ UNCHANGED <<netVars, flash, ram, core, posted, mode, dark, clock, zone,
                 user>>

BrightnessDone ==
  /\ Handler("brightness")
  /\ Keep(ui.copy, user)
  /\ ui' = [ui EXCEPT !.view = "menu"]
  /\ UNCHANGED <<netVars, core, posted, mode, lightVars, clock, zone>>

(* The slider of the playback screen only previews. *)
FilmSlider ==
  /\ mode = "ringing" /\ Spend({"slide"})
  /\ \E l \in Levels : Preview(l)
  /\ UNCHANGED <<netVars, flash, ram, screenVars, core, dark, clock, zone, user>>

(* on_ntp_toggled(): nn20clock_net_set_ntp() records the wish, then waits    *)
(* for the CoreWorker; the record is saved after it.                        *)
Toggle ==
  /\ Handler("time") /\ Spend({"toggle"})
  /\ LET on == ~ui.copy.ntp IN
     /\ user' = [user EXCEPT !.switch = @ \/ on]
     /\ net' = [net EXCEPT !.wanted = on]
     /\ IF net.wanted = on
        THEN /\ ui' = [ui EXCEPT !.copy.ntp = on, !.wait = "ntp done"]
             /\ UNCHANGED core
        ELSE /\ ui' = [ui EXCEPT !.copy.ntp = on, !.wait = "ntp"]
             /\ Post("ntp")
  /\ UNCHANGED <<radio, events, taken, flash, ram, posted, mode, lightVars,
                 clock, zone>>

Toggled ==
  /\ ui.wait = "ntp done"
  /\ Keep(ui.copy, [user EXCEPT !.ntp = ui.copy.ntp,
                                !.switch = ui.copy.ntp])
  /\ ui' = [ui EXCEPT !.wait = "no"]
  /\ UNCHANGED <<netVars, core, posted, mode, lightVars, clock, zone>>

(* on_set_time() and set_time_hook(): refused while SNTP is wanted.  The     *)
(* hook saves the stored record with the new time in it; the screen's copy  *)
(* is not told.                                                             *)
SetTime ==
  /\ Handler("time") /\ ~ui.copy.ntp /\ ~net.wanted
  /\ LET when == user.time + 2 IN
     /\ clock' = when
     /\ \/ /\ Saved([ram EXCEPT !.known = when]) /\ Spend({"time"})
           /\ user' = [user EXCEPT !.time = when]
        \/ /\ Spend({"time", "fault"}) /\ ram' = ram
           /\ flash' \in {flash, [ram EXCEPT !.known = when]}
           /\ user' = [user EXCEPT !.time = when, !.spoiled = TRUE]
  /\ Post("reclaim")
  /\ ui' = [ui EXCEPT !.view = "menu"]
  /\ UNCHANGED <<netVars, posted, mode, lightVars, zone>>

(* on_timezone_chosen(): applied first, stored only if that worked *)
ChooseZone ==
  /\ Handler("time")
  /\ \E z \in Zones \ {ui.copy.zone} :
       /\ zone' = z
       /\ \/ /\ Saved([ui.copy EXCEPT !.zone = z]) /\ Spend({"zone"})
             /\ user' = [user EXCEPT !.zone = z]
          \/ /\ Spend({"zone", "fault"}) /\ ram' = ram
             /\ flash' \in {flash, [ui.copy EXCEPT !.zone = z]}
             /\ user' = [user EXCEPT !.spoiled = TRUE]
       /\ ui' = [ui EXCEPT !.copy.zone = z]
  /\ UNCHANGED <<netVars, core, posted, mode, lightVars, clock>>

(* on_network_chosen(): joins an open network at once, asks for the         *)
(* passphrase of another; on_password_ready() goes on from there.           *)
AskPassword ==
  /\ ui.found /\ ~ui.scanning
  /\ \E n \in Networks :
       Navigate("networks", "password", [ui EXCEPT !.pending = n])

Join ==
  /\ \E n \in Networks :
       /\ \/ Handler("networks") /\ ui.found /\ ~ui.scanning
          \/ Handler("password") /\ ui.pending = n
       /\ LET copy == [ui.copy EXCEPT !.ssid = n] IN
          /\ ui' = [ui EXCEPT !.copy = copy, !.wait = "join"]
          /\ \/ /\ Saved(copy) /\ Spend({"join"})
                /\ user' = [user EXCEPT !.ssid = n]
             \/ /\ Spend({"join", "fault"})
                /\ ram' = ram /\ flash' \in {flash, copy}
                /\ user' = [user EXCEPT !.spoiled = TRUE]
  /\ Post("join")
  /\ UNCHANGED <<netVars, posted, mode, lightVars, clock, zone>>

Joined ==
  /\ ui.wait = "join done"
  /\ NetworksShown([ui EXCEPT !.wait = "no"])
  /\ UNCHANGED <<radio, events, taken, flash, ram, posted, mode, lightVars,
                 clock, zone, user, budget>>

User == \/ OpenNetworks \/ OpenBrightness \/ OpenTime \/ BackToMenu
        \/ BackToNetworks \/ Leave \/ OpenMedia \/ BrightnessDone \/ FilmSlider
        \/ Toggle \/ SetTime \/ ChooseZone \/ AskPassword \/ Join
        \/ \E f \in {"day", "night", "film"}, l \in Levels : Slide(f, l)

UiWorker == ScanDone \/ Toggled \/ Joined

-----------------------------------------------------------------------------
(* A join takes an access point and a DHCP server; connect_to_private() is  *)
(* through with its calls before that.                                      *)
Joining == core.step \in {"reset", "apply", "connecting", "connect"}

EventStep == EventTask /\ UNCHANGED settingsVars

DriverStep == /\ (Joins /\ ~Joining) \/ JoinFails
              /\ UNCHANGED settingsVars

LinkLost == /\ Drops /\ Spend({"drop"})
            /\ UNCHANGED <<flash, ram, screenVars, core, lightVars, clock, zone,
                           user>>

Next == \/ Boot \/ PowerCut \/ Minute \/ SntpSyncs
        \/ CoreWorker \/ Manager \/ User \/ UiWorker
        \/ EventStep \/ DriverStep \/ LinkLost

Fairness == /\ WF_vars(Boot) /\ WF_vars(CoreWorker) /\ WF_vars(UiWorker)
            /\ WF_vars(EventStep) /\ WF_vars(DriverStep)

Spec == Init /\ [][Next]_vars /\ Fairness

-----------------------------------------------------------------------------
PanelTasks == {"tick", "reclaim", "begun", "ended"}
CoreTasks == PanelTasks \cup {"ntp", "join", "scan"}
CoreSteps == {"idle", "config", "radio", "sntp", "reset", "apply", "connecting",
              "connect"}

Records == [ssid : Networks \cup {None}, ntp : BOOLEAN, zone : Zones,
            day : Levels, night : Levels, film : Levels, known : Nat]

TypeOK ==
  /\ NetTypeOK
  /\ flash \in Records /\ ram \in Records
  /\ ui \in [view : Views \cup {"none"}, copy : Records, scanning : BOOLEAN,
             found : BOOLEAN, pending : Networks \cup {None}, night : BOOLEAN,
             wait : {"no", "ntp", "ntp done", "join", "join done"},
             leaving : BOOLEAN]
  /\ core \in [queue : Seq(CoreTasks), step : CoreSteps]
  /\ posted \in Seq(Nat) /\ mode \in {"off", "time", "settings", "ringing"}
  /\ light \in [panel : Levels, scheduled : Levels \cup {0}, playing : BOOLEAN]
  /\ dark \in BOOLEAN /\ clock \in Nat /\ zone \in Zones
  /\ user \in [ssid : Networks \cup {None}, ntp : BOOLEAN, zone : Zones,
               time : Nat, switch : BOOLEAN, spoiled : BOOLEAN]
  /\ budget \in [Acts -> Nat]

(* Nobody is in the middle of applying or storing anything. *)
Resting ==
  /\ mode # "off" /\ core.step = "idle" /\ ui.wait = "no"
  /\ ~user.spoiled

(* AsLeft: the clock runs on, and has stored, what the user last chose:     *)
(* network, time synchronisation and zone, across restarts at any moment    *)
(* and whatever else is saved in between.  Every save writes the whole      *)
(* record, from a copy read when the screen came up.                        *)
AsLeft ==
  Resting =>
    /\ <<flash.ssid, flash.ntp, flash.zone>> = <<user.ssid, user.ntp, user.zone>>
    /\ net.wanted = user.ntp /\ zone = user.zone
    /\ net.up => net.ssid = user.ssid

(* OffSyncStays: a clock the user has taken off SNTP is not moved by it, in  *)
(* the moments after the switch, after a restart, or while the CoreWorker   *)
(* is busy elsewhere (on_ntp_toggled, and the order of start_private).      *)
OffSyncStays == [][clock' = Synced /\ clock' # clock => user.switch]_vars

(* PanelFollowsSchedule: what a slider or a film did to the panel is gone   *)
(* with its screen: on the clock face, once the CoreWorker is through, the  *)
(* panel shows what the stored schedule asks for at this hour.              *)
PanelFollowsSchedule ==
  /\ mode = "time" /\ core.step # "config"
  /\ \A i \in DOMAIN core.queue :
       core.queue[i] \notin PanelTasks
  => light.panel = Answer(ram, FALSE)

(* HandSetTimeKept: a time set by hand is what a power cut goes back to     *)
(* (the comment on set_time_hook: "without it a power cut takes a hand-set  *)
(* clock back to 1970").                                                    *)
HandSetTimeKept ==
  Resting /\ user.time # Unset => flash.known = user.time
=============================================================================
