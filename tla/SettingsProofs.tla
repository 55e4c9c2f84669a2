---------------------------- MODULE SettingsProofs ----------------------------
(***************************************************************************)
(* The settings, for any networks, zones, percentages and evenings: the    *)
(* clock runs on and has stored what the user last chose, SNTP leaves a    *)
(* clock alone that was taken off it, and the panel goes back to its       *)
(* schedule.                                                               *)
(***************************************************************************)
EXTENDS Settings, SequenceTheorems, TLAPS

(* Where a task waits in the CoreWorker's queue.                           *)
At(q, i, task) == i \in DOMAIN q /\ q[i] = task
Waits(i, task) == At(core.queue, i, task)

(* A handler that waits for the CoreWorker has its one task in the queue,  *)
(* and stays where it is until that is done: the screen cannot go.         *)
OneTask ==
    /\ \A i : Waits(i, "ntp") => ui.wait = "ntp"
    /\ \A i : Waits(i, "join") => ui.wait = "join"
    /\ \A task \in {"ntp", "join"} : \A i, j : Waits(i, task) /\ Waits(j, task) => i = j
    /\ Joining => core.queue # << >> /\ Head(core.queue) = "join"

OneWait ==
    /\ OneTask
    /\ ui.wait # "no" => mode = "settings"
    /\ core.step = "config" => mode \in {"time", "ringing"}
    /\ mode = "off" => /\ core.step = "idle" /\ core.queue = << >>
                      /\ ~net.sntp /\ ~net.up

(* What a handler has applied and not yet stored.                          *)
Applying == ui.wait \in {"ntp", "ntp done"}

RecordsAgree ==
    ~user.spoiled =>
        /\ ram = flash
        /\ flash.ssid = user.ssid /\ flash.ntp = user.ntp /\ flash.zone = user.zone
        /\ mode # "off" => zone = user.zone
        /\ mode = "settings" =>
              /\ ui.copy.ssid = user.ssid /\ ui.copy.zone = user.zone
              /\ ~Applying => ui.copy.ntp = user.ntp

RadioAgrees ==
    ~user.spoiled =>
        /\ mode # "off" /\ core.step # "config" /\ ~Applying => net.wanted = user.ntp
        /\ net.up /\ (ui.wait # "join" \/ Joining) => net.ssid = user.ssid

SyncIsWanted ==
    /\ Applying => net.wanted = ui.copy.ntp
    /\ core.step = "config" => ~net.sntp /\ ram.ntp = user.switch
    /\ mode # "off" /\ core.step # "config" => (net.wanted \/ net.sntp => user.switch)
    /\ net.sntp /\ ui.wait # "ntp" => net.wanted
    /\ flash.known # Synced /\ ram.known # Synced /\ ui.copy.known # Synced
    /\ user.time # Synced

(* Every film the schedule has been told of, or will be, is followed in     *)
(* its queue by the end of one.                                             *)
EndsFollow ==
    /\ light.playing => \E j : Waits(j, "ended")
    /\ \A i : Waits(i, "begun") => \E j : i < j /\ Waits(j, "ended")

Reclaims == {"reclaim", "begun", "ended"}
ReclaimWaits == \E i : \E task \in Reclaims : Waits(i, task)
PanelIsAsked == \E i : \E task \in PanelTasks : Waits(i, task)

LightReturns ==
    /\ mode = "off" \/ core.step = "config" => light.scheduled = 0 /\ ~light.playing
    /\ mode # "ringing" => EndsFollow
    /\ mode = "time" /\ core.step # "config" =>
          /\ ReclaimWaits \/ light.panel = light.scheduled
          /\ PanelIsAsked \/ light.panel = Answer(ram, FALSE)

-----------------------------------------------------------------------------
(* The defaults are a record: there is a highest percentage and a zone.     *)
LEMMA DefaultsTyped == Defaults \in Records /\ Top \in Levels /\ Defaults.known = Unset
<1>1. Top \in Levels  BY SettingsAssumption DEF Top
<1>2. (CHOOSE z \in Zones : TRUE) \in Zones  BY SettingsAssumption
<1>3. Unset \in Nat  BY DEF Unset
<1> QED  BY <1>1, <1>2, <1>3 DEF Defaults, Records

LEMMA PercentPositive == \A l \in Levels : l \in Nat /\ l # 0
BY SettingsAssumption

LEMMA InitTyped == Init => TypeOK
<1> SUFFICES ASSUME Init PROVE TypeOK  OBVIOUS
<1>1. NetTypeOK
  BY DEF Init, NetInit, NewNet, Silent, NetTypeOK, NetStates
<1>2. << >> \in Seq(CoreTasks) /\ << >> \in Seq(Nat)  OBVIOUS
<1>3. ui \in [view : Views \cup {"none"}, copy : Records, scanning : BOOLEAN,
             found : BOOLEAN, pending : Networks \cup {None}, night : BOOLEAN,
             wait : {"no", "ntp", "ntp done", "join", "join done"},
             leaving : BOOLEAN]
  BY DefaultsTyped DEF Init, NoScreen
<1>4. user \in [ssid : Networks \cup {None}, ntp : BOOLEAN, zone : Zones,
               time : Nat, switch : BOOLEAN, spoiled : BOOLEAN]
  BY DefaultsTyped DEF Init, Records, Unset
<1>5. budget \in [Acts -> Nat]  BY SettingsAssumption DEF Init
<1>6. zone \in Zones /\ clock \in Nat  BY DefaultsTyped DEF Init, Records, Unset
<1> QED  BY <1>1, <1>2, <1>3, <1>4, <1>5, <1>6, DefaultsTyped
         DEF Init, TypeOK, CoreSteps

-----------------------------------------------------------------------------
(* Sequences of tasks.                                                      *)

LEMMA AtEnd ==
    ASSUME NEW q \in Seq(CoreTasks), NEW t \in CoreTasks
    PROVE  /\ Append(q, t) \in Seq(CoreTasks)
           /\ \A i, task : At(Append(q, t), i, task) <=>
                  At(q, i, task) \/ (i = Len(q) + 1 /\ task = t)
           /\ Append(q, t) # << >>
           /\ q # << >> => Head(Append(q, t)) = Head(q)
<1> DEFINE new == Append(q, t)
<1>1. Len(q) \in Nat /\ DOMAIN q = 1 .. Len(q)  BY LenProperties
<1>2. /\ new \in Seq(CoreTasks) /\ Len(new) = Len(q) + 1 /\ new[Len(q) + 1] = t
      /\ \A k \in 1 .. Len(q) : new[k] = q[k]
  BY AppendProperties
<1> HIDE DEF new
<1>3. DOMAIN new = 1 .. Len(q) + 1  BY <1>2, LenProperties
<1>4. \A i, task : At(new, i, task) <=> At(q, i, task) \/ (i = Len(q) + 1 /\ task = t)
  BY <1>1, <1>2, <1>3 DEF At
<1>5. new # << >>  BY <1>1, <1>2, EmptySeq
<1>6. q # << >> => Head(new) = Head(q)
  BY <1>1, <1>2, <1>5, HeadTailProperties, EmptySeq
<1> QED  BY <1>2, <1>4, <1>5, <1>6 DEF new

LEMMA AtFront ==
    ASSUME NEW q \in Seq(CoreTasks), q # << >>
    PROVE  /\ Tail(q) \in Seq(CoreTasks) /\ Head(q) \in CoreTasks
           /\ At(q, 1, Head(q))
           /\ \A i, task : At(Tail(q), i, task) => i \in Nat \ {0} /\ At(q, i + 1, task)
           /\ \A i, task : At(q, i, task) /\ i # 1 =>
                  i \in Nat /\ i > 1 /\ At(Tail(q), i - 1, task)
<1> DEFINE rest == Tail(q)
<1>1. /\ Len(q) \in Nat \ {0} /\ DOMAIN q = 1 .. Len(q)
      /\ rest \in Seq(CoreTasks) /\ Len(rest) = Len(q) - 1 /\ Head(q) = q[1]
      /\ Head(q) \in CoreTasks /\ \A k \in 1 .. Len(rest) : rest[k] = q[k + 1]
  BY LenProperties, HeadTailProperties, EmptySeq
<1> HIDE DEF rest
<1>2. DOMAIN rest = 1 .. Len(q) - 1  BY <1>1, LenProperties
<1>3. \A i, task : At(rest, i, task) => i \in Nat \ {0} /\ At(q, i + 1, task)
  BY <1>1, <1>2 DEF At
<1>4. ASSUME NEW i, NEW task, At(q, i, task), i # 1
      PROVE  i \in Nat /\ i > 1 /\ At(rest, i - 1, task)
  <2>1. i \in 2 .. Len(q) /\ i - 1 \in 1 .. Len(q) - 1 /\ (i - 1) + 1 = i
    BY <1>1, <1>4 DEF At
  <2> QED  BY <1>1, <1>2, <1>4, <2>1 DEF At
<1> QED  BY <1>1, <1>3, <1>4 DEF At, rest

-----------------------------------------------------------------------------
(* Types: first of the radio.                                               *)
RadioTypes == [config : Networks \cup {None}, assoc : {"idle", "joining", "joined"},
               target : Networks \cup {None}, refused : BOOLEAN]
NetTypes == [ssid : Networks \cup {None}, wanted : BOOLEAN, sntp : BOOLEAN,
             up : BOOLEAN, started : BOOLEAN, state : NetStates, retries : Nat,
             have : BOOLEAN, ip : BOOLEAN, scanning : BOOLEAN, client : Nat]
Reports == {"start", "disconnected", "got_ip"}

LEMMA NetTyped ==
    NetTypeOK <=> /\ net \in NetTypes /\ radio \in RadioTypes
                  /\ events \in Seq(Reports) /\ taken \in Nat
BY DEF NetTypeOK, NetTypes, RadioTypes, Reports

LEMMA ConnectTyped == ASSUME radio \in RadioTypes, Connect PROVE radio' \in RadioTypes
<1>1. [radio EXCEPT !.assoc = "joining", !.target = radio.config] \in RadioTypes
  BY DEF RadioTypes
<1>2. [radio EXCEPT !.refused = TRUE] \in RadioTypes  BY DEF RadioTypes
<1> QED  BY <1>1, <1>2 DEF Connect

LEMMA AssocTyped ==
    ASSUME radio \in RadioTypes, NEW a \in {"idle", "joining", "joined"}
    PROVE  [radio EXCEPT !.assoc = a] \in RadioTypes
BY DEF RadioTypes

LEMMA ConfigTyped ==
    ASSUME radio \in RadioTypes, NEW n \in Networks \cup {None}
    PROVE  [radio EXCEPT !.config = n] \in RadioTypes
BY DEF RadioTypes

LEMMA ReportTyped ==
    ASSUME events \in Seq(Reports), NEW e \in Reports
    PROVE  Append(events, e) \in Seq(Reports)
BY AppendProperties

LEMMA SeenTyped ==
    ASSUME events \in Seq(Reports), NEW e, Seen(e)
    PROVE  events' \in Seq(Reports)
BY HeadTailProperties DEF Seen

LEMMA NetSteps ==
    ASSUME NetTypeOK, EventTask \/ Joins \/ JoinFails \/ Drops
    PROVE  NetTypeOK'
<1>1. net \in NetTypes /\ radio \in RadioTypes /\ events \in Seq(Reports) /\ taken \in Nat
  BY NetTyped
<1>2. SUFFICES /\ net' \in NetTypes /\ radio' \in RadioTypes
               /\ events' \in Seq(Reports) /\ taken' \in Nat
  BY DEF NetTypeOK, NetTypes, RadioTypes, Reports
<1>3. CASE EventStart
  <2>1. events' \in Seq(Reports)  BY <1>1, <1>3, SeenTyped DEF EventStart
  <2>2. radio' \in RadioTypes  BY <1>1, <1>3, ConnectTyped DEF EventStart
  <2> QED  BY <1>1, <1>3, <2>1, <2>2 DEF EventStart
<1>4. CASE EventLost
  <2>1. net.retries + 1 \in Nat  BY <1>1 DEF NetTypes
  <2>2. [net EXCEPT !.ip = FALSE, !.retries = net.retries + 1] \in NetTypes
    BY <1>1, <2>1 DEF NetTypes
  <2>3. events' \in Seq(Reports)  BY <1>1, <1>4, SeenTyped DEF EventLost
  <2> QED  BY <1>1, <1>4, <2>1, <2>2, <2>3 DEF EventLost
<1>5. CASE EventRetry
  <2>1. radio' \in RadioTypes  BY <1>1, <1>5, ConnectTyped DEF EventRetry
  <2> QED  BY <1>1, <1>5, <2>1 DEF EventRetry
<1>6. CASE EventGiveUp
  <2>1. [net EXCEPT !.state = "FAILED"] \in NetTypes  BY <1>1 DEF NetTypes, NetStates
  <2> QED  BY <1>1, <1>6, <2>1 DEF EventGiveUp
<1>7. CASE EventGotIp
  <2>1. [net EXCEPT !.retries = 0, !.ip = TRUE, !.state = "CONNECTED"] \in NetTypes
    BY <1>1 DEF NetTypes, NetStates
  <2>2. events' \in Seq(Reports)  BY <1>1, <1>7, SeenTyped DEF EventGotIp
  <2> QED  BY <1>1, <1>7, <2>1, <2>2 DEF EventGotIp
<1>8. CASE Joins
  <2>1. Append(events, "got_ip") \in Seq(Reports)  BY <1>1, ReportTyped DEF Reports
  <2>2. [radio EXCEPT !.assoc = "joined"] \in RadioTypes  BY <1>1, AssocTyped
  <2> QED  BY <1>1, <1>8, <2>1, <2>2 DEF Joins
<1>9. CASE JoinFails \/ Drops
  <2>1. Append(events, "disconnected") \in Seq(Reports)  BY <1>1, ReportTyped DEF Reports
  <2>2. [radio EXCEPT !.assoc = "idle"] \in RadioTypes  BY <1>1, AssocTyped
  <2> QED  BY <1>1, <1>9, <2>1, <2>2 DEF JoinFails, Drops
<1> QED  BY <1>3, <1>4, <1>5, <1>6, <1>7, <1>8, <1>9 DEF EventTask

LEMMA NetTasks ==
    ASSUME NetTypeOK, NEW ssid \in Networks \cup {None},
           \/ NetUp(ssid) \/ NetUpFails(ssid) \/ NetStarted \/ SetNtp \/ JoinDrop(ssid)
           \/ JoinReset \/ JoinApply \/ JoinConnecting \/ JoinConnect \/ NetReset
    PROVE  NetTypeOK'
<1>1. net \in NetTypes /\ radio \in RadioTypes /\ events \in Seq(Reports) /\ taken \in Nat
  BY NetTyped
<1>2. SUFFICES /\ net' \in NetTypes /\ radio' \in RadioTypes
               /\ events' \in Seq(Reports) /\ taken' \in Nat
  BY DEF NetTypeOK, NetTypes, RadioTypes, Reports
<1>3. \A s \in NetStates : [net EXCEPT !.ssid = ssid, !.state = s] \in NetTypes
  BY <1>1 DEF NetTypes
<1>4. CASE NetUp(ssid)
  <2>1. PICK s \in NetStates : s = IF ssid # None THEN "CONNECTING" ELSE "DISABLED"
    BY DEF NetStates
  <2>2. PICK h \in BOOLEAN : h = (ssid # None)  OBVIOUS
  <2>3. [net EXCEPT !.ssid = ssid, !.have = h, !.up = TRUE, !.state = s] \in NetTypes
    BY <1>1 DEF NetTypes
  <2>4. net' \in NetTypes  BY <1>4, <2>1, <2>2, <2>3 DEF NetUp
  <2>5. Append(events, "start") \in Seq(Reports)  BY <1>1, ReportTyped DEF Reports
  <2>6. [radio EXCEPT !.config = ssid] \in RadioTypes  BY <1>1, ConfigTyped
  <2> QED  BY <1>1, <1>4, <2>4, <2>5, <2>6 DEF NetUp
<1>5. CASE NetUpFails(ssid)
  <2>1. net' \in NetTypes  BY <1>3, <1>5 DEF NetUpFails, NetStates
  <2> QED  BY <1>1, <1>5, <2>1 DEF NetUpFails
<1>6. CASE NetStarted
  <2>1. [net EXCEPT !.sntp = net.wanted, !.started = TRUE] \in NetTypes
    BY <1>1 DEF NetTypes
  <2> QED  BY <1>1, <1>6, <2>1 DEF NetStarted
<1>7. CASE SetNtp
  <2>1. PICK b \in BOOLEAN : b = (net.wanted /\ (net.sntp \/ net.started))  OBVIOUS
  <2>2. [net EXCEPT !.sntp = b] \in NetTypes  BY <1>1 DEF NetTypes
  <2> QED  BY <1>1, <1>7, <2>1, <2>2 DEF SetNtp
<1>8. CASE JoinDrop(ssid)
  <2>1. [net EXCEPT !.ssid = ssid, !.have = TRUE] \in NetTypes  BY <1>1 DEF NetTypes
  <2>2. Append(events, "disconnected") \in Seq(Reports)  BY <1>1, ReportTyped DEF Reports
  <2>3. [radio EXCEPT !.assoc = "idle"] \in RadioTypes  BY <1>1, AssocTyped
  <2> QED  BY <1>1, <1>8, <2>1, <2>2, <2>3 DEF JoinDrop, Disconnect
<1>9. CASE JoinReset
  <2>1. [net EXCEPT !.retries = 0] \in NetTypes  BY <1>1 DEF NetTypes
  <2> QED  BY <1>1, <1>9, <2>1 DEF JoinReset
<1>10. CASE JoinApply
  <2>1. net.ssid \in Networks \cup {None}  BY <1>1 DEF NetTypes
  <2>2. [radio EXCEPT !.config = net.ssid] \in RadioTypes  BY <1>1, <2>1, ConfigTyped
  <2> QED  BY <1>1, <1>10, <2>2 DEF JoinApply
<1>11. CASE JoinConnecting
  <2>1. [net EXCEPT !.state = "CONNECTING"] \in NetTypes  BY <1>1 DEF NetTypes, NetStates
  <2> QED  BY <1>1, <1>11, <2>1 DEF JoinConnecting
<1>12. CASE JoinConnect  BY <1>1, <1>12, ConnectTyped DEF JoinConnect
<1>13. CASE NetReset
  <2>1. NewNet \in NetTypes  BY DEF NewNet, NetTypes, NetStates
  <2>2. Silent \in RadioTypes  BY DEF Silent, RadioTypes
  <2> QED  BY <1>13, <2>1, <2>2 DEF NetReset
<1> QED  BY <1>4, <1>5, <1>6, <1>7, <1>8, <1>9, <1>10, <1>11, <1>12, <1>13

UserTypes == [ssid : Networks \cup {None}, ntp : BOOLEAN, zone : Zones,
              time : Nat, switch : BOOLEAN, spoiled : BOOLEAN]
ScreenTypes == [view : Views \cup {"none"}, copy : Records, scanning : BOOLEAN,
                found : BOOLEAN, pending : Networks \cup {None}, night : BOOLEAN,
                wait : {"no", "ntp", "ntp done", "join", "join done"},
                leaving : BOOLEAN]
CoreTypes == [queue : Seq(CoreTasks), step : CoreSteps]

(* The budget is only ever spent.                                           *)
LEMMA BudgetTyped ==
    ASSUME budget \in [Acts -> Nat],
           (\E as \in SUBSET Acts : Spend(as)) \/ UNCHANGED budget
    PROVE  budget' \in [Acts -> Nat]
<1>1. ASSUME NEW as \in SUBSET Acts, Spend(as) PROVE budget' \in [Acts -> Nat]
  <2>1. ASSUME NEW a \in as PROVE budget[a] - 1 \in Nat
    <3>1. budget[a] \in Nat /\ budget[a] > 0  BY <1>1 DEF Spend
    <3> QED  BY <3>1
  <2> QED  BY <1>1, <2>1 DEF Spend
<1> QED  BY <1>1

(* A save leaves records in flash and in memory.                            *)
LEMMA KeepTyped ==
    ASSUME flash \in Records, ram \in Records, budget \in [Acts -> Nat],
           NEW c \in Records, NEW known \in UserTypes, Keep(c, known)
    PROVE  /\ flash' \in Records /\ ram' \in Records /\ budget' \in [Acts -> Nat]
           /\ user' \in UserTypes
<1>1. {"fault"} \in SUBSET Acts  BY DEF Acts
<1>2. budget' \in [Acts -> Nat]  BY <1>1, BudgetTyped DEF Keep, SaveFails
<1> QED  BY <1>2 DEF Keep, Saved, SaveFails, UserTypes

LEMMA RunTyped ==
    ASSUME core \in CoreTypes, core.queue # << >>
    PROVE  [core EXCEPT !.queue = Tail(@)] \in CoreTypes
BY AtFront DEF CoreTypes

LEMMA PostTyped ==
    ASSUME core \in CoreTypes, NEW t \in CoreTasks, Post(t)
    PROVE  core' \in CoreTypes
BY AtEnd DEF CoreTypes, Post

(* The schedule answers with a percentage that a slider can give.           *)
LEMMA AnswerTyped == ASSUME ram \in Records PROVE \A p : Answer(ram, p) \in Levels
BY DEF Answer, Scheduled, Records

LEMMA ApplyTyped ==
    ASSUME ram \in Records, NEW last, NEW p \in BOOLEAN, light.panel \in Levels,
           Apply(last, p)
    PROVE  /\ light' \in [panel : Levels, scheduled : Levels \cup {0}, playing : BOOLEAN]
           /\ light'.scheduled = Answer(ram, p) /\ light'.playing = p
           /\ light'.scheduled # 0
           /\ light'.panel = IF light'.scheduled = last THEN light.panel
                             ELSE light'.scheduled
<1>1. Answer(ram, p) \in Levels /\ Answer(ram, p) # 0
  BY AnswerTyped, PercentPositive
<1> QED  BY <1>1 DEF Apply

LEMMA NetworksTyped ==
    ASSUME NetTypeOK, core \in CoreTypes, budget \in [Acts -> Nat],
           NEW u \in ScreenTypes, NetworksShown(u), UNCHANGED <<radio, events, taken>>
    PROVE  /\ ui' \in ScreenTypes /\ core' \in CoreTypes /\ NetTypeOK'
           /\ core'.step = core.step
           /\ \/ UNCHANGED core
              \/ Post("scan")
           /\ ui'.copy = u.copy /\ ui'.wait = u.wait
           /\ net'.wanted = net.wanted /\ net'.sntp = net.sntp
           /\ net'.up = net.up /\ net'.ssid = net.ssid
<1>1. "scan" \in CoreTasks  BY DEF CoreTasks
<1>2. budget.visit \in Nat  BY DEF Acts
<1>3. "networks" \in Views  BY DEF Views
<1>4. core' \in CoreTypes /\ core'.step = core.step
  BY <1>1, PostTyped DEF NetworksShown, Post, CoreTypes
<1>5. UNCHANGED core \/ Post("scan")  BY DEF NetworksShown
<1>6. /\ [u EXCEPT !.view = "networks"] \in ScreenTypes
      /\ [u EXCEPT !.view = "networks"].copy = u.copy
      /\ [u EXCEPT !.view = "networks"].wait = u.wait
  BY <1>3 DEF ScreenTypes
<1>7. /\ [u EXCEPT !.view = "networks", !.scanning = TRUE] \in ScreenTypes
      /\ [u EXCEPT !.view = "networks", !.scanning = TRUE].copy = u.copy
      /\ [u EXCEPT !.view = "networks", !.scanning = TRUE].wait = u.wait
  BY <1>3 DEF ScreenTypes
<1>8. ui' \in ScreenTypes /\ ui'.copy = u.copy /\ ui'.wait = u.wait
  BY <1>6, <1>7 DEF NetworksShown
<1>9. net \in NetTypes /\ radio \in RadioTypes /\ events \in Seq(Reports) /\ taken \in Nat
  BY NetTyped
<1> DEFINE scan == [net EXCEPT !.scanning = TRUE, !.client = budget.visit]
<1>10. /\ scan \in NetTypes
       /\ scan.wanted = net.wanted /\ scan.sntp = net.sntp
       /\ scan.up = net.up /\ scan.ssid = net.ssid
  BY <1>2, <1>9 DEF NetTypes
<1>11. net' = net \/ net' = scan  BY DEF NetworksShown
<1> HIDE DEF scan
<1>12. /\ net' \in NetTypes
       /\ net'.wanted = net.wanted /\ net'.sntp = net.sntp
       /\ net'.up = net.up /\ net'.ssid = net.ssid
  BY <1>9, <1>10, <1>11
<1>13. NetTypeOK'
  BY <1>9, <1>12 DEF NetTypeOK, NetTypes, RadioTypes, Reports
<1> QED  BY <1>4, <1>5, <1>8, <1>12, <1>13

LightTypes == [panel : Levels, scheduled : Levels \cup {0}, playing : BOOLEAN]

Typed ==
    /\ NetTypeOK
    /\ flash \in Records /\ ram \in Records
    /\ ui \in ScreenTypes /\ core \in CoreTypes
    /\ posted \in Seq(Nat) /\ mode \in {"off", "time", "settings", "ringing"}
    /\ light \in LightTypes
    /\ dark \in BOOLEAN /\ clock \in Nat /\ zone \in Zones
    /\ user \in UserTypes
    /\ budget \in [Acts -> Nat]

LEMMA TypedIsTypeOK == TypeOK <=> Typed
BY DEF TypeOK, Typed, ScreenTypes, CoreTypes, LightTypes, UserTypes

(* What most steps leave alone.                                             *)
Boxes == <<flash, ram, posted, mode, clock, zone, dark>>

LEMMA BoxesTyped ==
    ASSUME Typed, UNCHANGED Boxes, NetTypeOK', ui' \in ScreenTypes, core' \in CoreTypes,
           light' \in LightTypes, user' \in UserTypes, budget' \in [Acts -> Nat]
    PROVE  Typed'
BY DEF Typed, Boxes

LEMMA NetRests == ASSUME NetTypeOK, UNCHANGED netVars PROVE NetTypeOK'
BY DEF NetTypeOK, netVars

LEMMA StepTyped ==
    ASSUME core \in CoreTypes, NEW s \in CoreSteps, Step(s)
    PROVE  core' \in CoreTypes
BY DEF CoreTypes, Step

LEMMA JoinOverTyped ==
    ASSUME core \in CoreTypes, core.queue # << >>, ui \in ScreenTypes, JoinOver
    PROVE  core' \in CoreTypes /\ ui' \in ScreenTypes
BY AtFront DEF CoreTypes, CoreSteps, ScreenTypes, JoinOver

LEMMA CoreTyped ==
    ASSUME Typed, OneWait, CoreWorker
    PROVE  Typed'
<1> USE DEF Typed
<1>0. CoreSteps = {"idle", "config", "radio", "sntp", "reset", "apply", "connecting",
                   "connect"}
  BY DEF CoreSteps
<1>1. CASE ConfigApplied
  <2>1. light' \in LightTypes
    BY <1>1, ApplyTyped DEF ConfigApplied, Tick, LightTypes
  <2>2. NetTypeOK' /\ clock' \in Nat
    BY <1>1 DEF ConfigApplied, NetTypeOK, Records, Restored
  <2>3. core' \in CoreTypes
    BY <1>0, <1>1 DEF ConfigApplied, CoreTypes
  <2> QED  BY <1>1, <2>1, <2>2, <2>3 DEF ConfigApplied, screenVars
<1>2. CASE RadioUp
  <2>1. ram.ssid \in Networks \cup {None}  BY DEF Records
  <2>2. NetTypeOK'  BY <1>2, <2>1, NetTasks DEF RadioUp
  <2>3. core' \in CoreTypes
    BY <1>0, <1>2 DEF RadioUp, CoreTypes
  <2>4. {"fault"} \in SUBSET Acts  BY DEF Acts
  <2>5. budget' \in [Acts -> Nat]  BY <1>2, <2>4, BudgetTyped DEF RadioUp
  <2> QED  BY <1>2, <2>2, <2>3, <2>5, BoxesTyped DEF RadioUp, screenVars, lightVars, Boxes
<1>3. CASE RadioStarted
  <2>1. NetTypeOK'
    BY <1>3, NetTasks DEF RadioStarted
  <2>2. core' \in CoreTypes
    BY <1>0, <1>3 DEF RadioStarted, CoreTypes
  <2> QED  BY <1>3, <2>1, <2>2, BoxesTyped DEF RadioStarted, screenVars, lightVars, Boxes
<1>4. CASE PanelTask
  <2>1. core' \in CoreTypes
    BY <1>4, RunTyped DEF PanelTask, AtHead, Ran
  <2>2. light' \in LightTypes
    BY <1>4, ApplyTyped DEF PanelTask, Tick, Reclaim, LightTypes
  <2> QED  BY <1>4, <2>1, <2>2, NetRests, BoxesTyped DEF PanelTask, screenVars, Boxes
<1>5. CASE NtpTask
  <2>1. core' \in CoreTypes
    BY <1>5, RunTyped DEF NtpTask, AtHead, Ran
  <2>2. NetTypeOK' /\ ui' \in ScreenTypes
    BY <1>5, NetTasks DEF NtpTask, ScreenTypes
  <2> QED  BY <1>5, <2>1, <2>2, BoxesTyped DEF NtpTask, lightVars, Boxes
<1>6. CASE JoinTask
  <2>1. ui.copy.ssid \in Networks \cup {None}  BY DEF ScreenTypes, Records
  <2>2. NetTypeOK'
    BY <1>6, <2>1, NetTasks DEF JoinTask
  <2>3. core' \in CoreTypes
    BY <1>0, <1>6, StepTyped DEF JoinTask
  <2> QED  BY <1>6, <2>2, <2>3, BoxesTyped DEF JoinTask, screenVars, lightVars, Boxes
<1>7. CASE JoinEnds
  <2>1. NetTypeOK'
    BY <1>7, NetTasks, NetRests, NetworkAssumption DEF JoinEnds
  <2>2. core.queue # << >>  BY <1>7 DEF JoinEnds, AtHead, OneWait, OneTask, Joining
  <2>3. core' \in CoreTypes /\ ui' \in ScreenTypes
    BY <1>7, <2>2, JoinOverTyped DEF JoinEnds
  <2>4. {"fault"} \in SUBSET Acts  BY DEF Acts
  <2>5. budget' \in [Acts -> Nat]  BY <1>7, <2>4, BudgetTyped DEF JoinEnds
  <2> QED  BY <1>7, <2>1, <2>3, <2>5, BoxesTyped DEF JoinEnds, lightVars, Boxes
<1>8. CASE ScanTask
  <2>1. core' \in CoreTypes
    BY <1>8, RunTyped DEF ScanTask, AtHead, Ran
  <2>2. NetTypeOK' /\ posted' \in Seq(Nat)
    <3>1. net.client \in Nat  BY DEF NetTypeOK
    <3>2. Append(posted, net.client) \in Seq(Nat)  BY <3>1, AppendProperties
    <3> QED  BY <1>8, <3>2 DEF ScanTask, NetTypeOK
  <2>3. ui' \in ScreenTypes
    BY <1>8 DEF ScanTask, ScreenTypes
  <2> QED  BY <1>8, <2>1, <2>2, <2>3 DEF ScanTask, lightVars
<1> QED  BY <1>1, <1>2, <1>3, <1>4, <1>5, <1>6, <1>7, <1>8 DEF CoreWorker

LEMMA PostAllTyped ==
    ASSUME core \in CoreTypes, NEW s \in CoreTasks, NEW t \in CoreTasks, PostAll(<<s, t>>)
    PROVE  /\ core' \in CoreTypes /\ core'.step = core.step
           /\ core'.queue = Append(Append(core.queue, s), t)
<1>1. core.queue \in Seq(CoreTasks)  BY DEF CoreTypes
<1>2. core.queue \o <<s, t>> = Append(Append(core.queue, s), t)  BY <1>1
<1>3. Append(Append(core.queue, s), t) \in Seq(CoreTasks)  BY <1>1, AtEnd
<1> QED  BY <1>2, <1>3 DEF CoreTypes, PostAll

LEMMA ManagerTyped ==
    ASSUME Typed, Manager
    PROVE  Typed'
<1> USE DEF Typed
<1>0. /\ {"visit"} \in SUBSET Acts /\ {"ring"} \in SUBSET Acts
      /\ {"reclaim", "begun", "ended"} \subseteq CoreTasks
      /\ {"menu", "none"} \subseteq Views \cup {"none"}
  BY DEF Acts, CoreTasks, PanelTasks, Views
<1>1. NetTypeOK'
  BY NetRests DEF Manager, OpenSettings, SettingsClosed, AlarmRings, RingEnds
<1>2. budget' \in [Acts -> Nat]
  BY <1>0, BudgetTyped DEF Manager, OpenSettings, SettingsClosed, AlarmRings, RingEnds
<1>3. ui' \in ScreenTypes
  <2>1. ASSUME NEW c \in Records, NEW v \in {"menu", "none"}
        PROVE  [NoScreen EXCEPT !.view = v, !.copy = c] \in ScreenTypes
    BY <1>0 DEF NoScreen, ScreenTypes
  <2>2. ASSUME NEW c \in Records PROVE [NoScreen EXCEPT !.copy = c] \in ScreenTypes
    BY DEF NoScreen, ScreenTypes
  <2>3. ui.copy \in Records  BY DEF ScreenTypes
  <2> QED  BY <2>1, <2>2, <2>3
           DEF Manager, OpenSettings, SettingsClosed, AlarmRings, RingEnds, Shown, Gone
<1>4. core' \in CoreTypes
  BY <1>0, PostTyped, PostAllTyped
  DEF Manager, OpenSettings, SettingsClosed, AlarmRings, RingEnds
<1>5. /\ UNCHANGED <<flash, ram, posted, lightVars, clock, zone, user>>
      /\ mode' \in {"off", "time", "settings", "ringing"}
  BY DEF Manager, OpenSettings, SettingsClosed, AlarmRings, RingEnds
<1> QED  BY <1>1, <1>2, <1>3, <1>4, <1>5 DEF lightVars

LEMMA NavigateTyped ==
    ASSUME Typed, NEW from, NEW to \in Views, NEW u \in ScreenTypes, Navigate(from, to, u)
    PROVE  Typed'
<1>1. ui' \in ScreenTypes  BY DEF Navigate, ScreenTypes
<1>2. NetTypeOK'  BY NetRests DEF Navigate, Typed
<1> QED  BY <1>1, <1>2, BoxesTyped DEF Navigate, Typed, Boxes, lightVars

(* One field of the copy is changed.                                        *)
LEMMA CopyTyped ==
    ASSUME ui \in ScreenTypes, NEW f \in {"day", "night", "film"}, NEW l \in Levels
    PROVE  /\ [ui EXCEPT !.copy[f] = l] \in ScreenTypes
           /\ [ui EXCEPT !.copy[f] = l].wait = ui.wait
           /\ [ui EXCEPT !.copy[f] = l].copy.ssid = ui.copy.ssid
           /\ [ui EXCEPT !.copy[f] = l].copy.ntp = ui.copy.ntp
           /\ [ui EXCEPT !.copy[f] = l].copy.zone = ui.copy.zone
           /\ [ui EXCEPT !.copy[f] = l].copy.known = ui.copy.known
<1>1. CASE f = "day"  BY <1>1 DEF ScreenTypes, Records
<1>2. CASE f = "night"  BY <1>2 DEF ScreenTypes, Records
<1>3. CASE f = "film"  BY <1>3 DEF ScreenTypes, Records
<1> QED  BY <1>1, <1>2, <1>3

LEMMA SpendTyped ==
    ASSUME Typed, \/ \E a \in Acts : Spend({a})
                  \/ \E a, b \in Acts : Spend({a, b})
                  \/ UNCHANGED budget
    PROVE  budget' \in [Acts -> Nat]
<1>1. \A a, b \in Acts : {a} \in SUBSET Acts /\ {a, b} \in SUBSET Acts  OBVIOUS
<1> QED  BY <1>1, BudgetTyped DEF Typed

LEMMA UserTyped ==
    ASSUME Typed, User
    PROVE  Typed'
<1> USE DEF Typed
<1>0. /\ Views = {"menu", "networks", "password", "brightness", "time"}
      /\ {"ntp", "join", "reclaim"} \subseteq CoreTasks
      /\ {"list", "slide", "toggle", "time", "zone", "join", "fault"} \subseteq Acts
      /\ ui.copy \in Records
  BY DEF Views, CoreTasks, PanelTasks, Acts, ScreenTypes
<1>1. CASE OpenNetworks
  <2>1. [ui EXCEPT !.found = FALSE] \in ScreenTypes  BY DEF ScreenTypes
  <2>2. ui' \in ScreenTypes /\ core' \in CoreTypes /\ NetTypeOK'
    BY <1>1, <2>1, NetworksTyped DEF OpenNetworks
  <2>3. budget' \in [Acts -> Nat]  BY <1>0, <1>1, SpendTyped DEF OpenNetworks
  <2> QED  BY <1>1, <2>2, <2>3, BoxesTyped DEF OpenNetworks, lightVars, Boxes
<1>2. CASE OpenBrightness
  <2>1. [ui EXCEPT !.night = dark] \in ScreenTypes  BY DEF ScreenTypes
  <2> QED  BY <1>0, <1>2, <2>1, NavigateTyped DEF OpenBrightness
<1>3. CASE OpenTime \/ BackToMenu
  BY <1>0, <1>3, NavigateTyped DEF OpenTime, BackToMenu
<1>4. CASE BackToNetworks
  <2>1. ui' \in ScreenTypes /\ core' \in CoreTypes /\ NetTypeOK'
    BY <1>4, NetworksTyped DEF BackToNetworks
  <2> QED  BY <1>4, <2>1, BoxesTyped DEF BackToNetworks, lightVars, Boxes
<1>5. CASE Leave
  <2>1. [ui EXCEPT !.leaving = TRUE] \in ScreenTypes  BY DEF ScreenTypes
  <2> QED  BY <1>0, <1>5, <2>1, NavigateTyped DEF Leave
<1>6. CASE OpenMedia
  <2>1. ui' \in ScreenTypes  BY <1>6 DEF OpenMedia, ScreenTypes
  <2> QED  BY <1>0, <1>6, <2>1, KeepTyped, NetRests DEF OpenMedia, lightVars
<1>7. CASE BrightnessDone
  <2>1. ui' \in ScreenTypes  BY <1>0, <1>7 DEF BrightnessDone, ScreenTypes
  <2> QED  BY <1>0, <1>7, <2>1, KeepTyped, NetRests DEF BrightnessDone, lightVars
<1>8. CASE FilmSlider
  <2>1. light' \in LightTypes  BY <1>8 DEF FilmSlider, Preview, LightTypes
  <2>2. budget' \in [Acts -> Nat]  BY <1>0, <1>8, SpendTyped DEF FilmSlider
  <2> QED  BY <1>8, <2>1, <2>2, NetRests, BoxesTyped DEF FilmSlider, screenVars, Boxes
<1>9. CASE Toggle
  <2> DEFINE on == ~ui.copy.ntp
  <2>1. on \in BOOLEAN  OBVIOUS
  <2> HIDE DEF on
  <2>2. ui' \in ScreenTypes
    <3>1. [ui.copy EXCEPT !.ntp = on] \in Records  BY <1>0, <2>1 DEF Records
    <3>2. \/ ui' = [ui EXCEPT !.copy.ntp = on, !.wait = "ntp done"]
          \/ ui' = [ui EXCEPT !.copy.ntp = on, !.wait = "ntp"]
      BY <1>9 DEF Toggle, on
    <3> QED  BY <3>1, <3>2 DEF ScreenTypes
  <2>3. core' \in CoreTypes  BY <1>0, <1>9, PostTyped DEF Toggle
  <2>4. NetTypeOK' /\ user' \in UserTypes
    <3>1. /\ net' = [net EXCEPT !.wanted = on] /\ UNCHANGED <<radio, events, taken>>
          /\ user' = [user EXCEPT !.switch = user.switch \/ on]
      BY <1>9 DEF Toggle, on
    <3>2. net' \in NetTypes  BY <2>1, <3>1, NetTyped DEF NetTypes
    <3>3. NetTypeOK'
      BY <3>1, <3>2, NetTyped DEF NetTypeOK, NetTypes, RadioTypes, Reports
    <3>4. (user.switch \/ on) \in BOOLEAN  OBVIOUS
    <3>5. user' \in UserTypes  BY <3>1, <3>4 DEF UserTypes
    <3> QED  BY <3>3, <3>5
  <2>5. budget' \in [Acts -> Nat]  BY <1>0, <1>9, SpendTyped DEF Toggle
  <2> QED  BY <1>9, <2>2, <2>3, <2>4, <2>5, BoxesTyped DEF Toggle, lightVars, Boxes
<1>10. CASE SetTime
  <2> DEFINE when == user.time + 2
  <2>1. when \in Nat  BY DEF UserTypes
  <2> HIDE DEF when
  <2>2. [ram EXCEPT !.known = when] \in Records  BY <2>1 DEF Records
  <2>3. flash' \in Records /\ ram' \in Records
    BY <1>10, <2>2 DEF SetTime, Saved, when
  <2>4. user' \in UserTypes
    BY <1>10, <2>1 DEF SetTime, UserTypes, when
  <2>5. budget' \in [Acts -> Nat]  BY <1>0, <1>10, SpendTyped DEF SetTime
  <2>6. core' \in CoreTypes /\ ui' \in ScreenTypes
    BY <1>0, <1>10, PostTyped DEF SetTime, ScreenTypes
  <2>7. clock' \in Nat  BY <1>10, <2>1 DEF SetTime, when
  <2> QED  BY <1>10, <2>3, <2>4, <2>5, <2>6, <2>7, NetRests DEF SetTime, lightVars
<1>11. CASE ChooseZone
  <2>1. PICK z \in Zones \ {ui.copy.zone} :
          /\ zone' = z
          /\ \/ /\ Saved([ui.copy EXCEPT !.zone = z]) /\ Spend({"zone"})
                /\ user' = [user EXCEPT !.zone = z]
             \/ /\ Spend({"zone", "fault"}) /\ ram' = ram
                /\ flash' \in {flash, [ui.copy EXCEPT !.zone = z]}
                /\ user' = [user EXCEPT !.spoiled = TRUE]
          /\ ui' = [ui EXCEPT !.copy.zone = z]
    BY <1>11 DEF ChooseZone
  <2>2. [ui.copy EXCEPT !.zone = z] \in Records  BY <1>0 DEF Records
  <2>3. flash' \in Records /\ ram' \in Records  BY <2>1, <2>2 DEF Saved
  <2>4. user' \in UserTypes  BY <2>1 DEF UserTypes
  <2>5. budget' \in [Acts -> Nat]  BY <1>0, <2>1, SpendTyped
  <2>6. ui' \in ScreenTypes  BY <2>1, <2>2 DEF ScreenTypes
  <2> QED  BY <1>11, <2>1, <2>3, <2>4, <2>5, <2>6, NetRests DEF ChooseZone, lightVars
<1>12. CASE AskPassword
  <2>1. ASSUME NEW n \in Networks PROVE [ui EXCEPT !.pending = n] \in ScreenTypes
    BY DEF ScreenTypes
  <2> QED  BY <1>0, <1>12, <2>1, NavigateTyped DEF AskPassword
<1>13. CASE Join
  <2>1. PICK n \in Networks :
          LET copy == [ui.copy EXCEPT !.ssid = n] IN
          /\ ui' = [ui EXCEPT !.copy = copy, !.wait = "join"]
          /\ \/ /\ Saved(copy) /\ Spend({"join"})
                /\ user' = [user EXCEPT !.ssid = n]
             \/ /\ Spend({"join", "fault"})
                /\ ram' = ram /\ flash' \in {flash, copy}
                /\ user' = [user EXCEPT !.spoiled = TRUE]
    BY <1>13 DEF Join
  <2>2. [ui.copy EXCEPT !.ssid = n] \in Records  BY <1>0 DEF Records
  <2>3. flash' \in Records /\ ram' \in Records  BY <2>1, <2>2 DEF Saved
  <2>4. user' \in UserTypes  BY <2>1 DEF UserTypes
  <2>5. budget' \in [Acts -> Nat]  BY <1>0, <2>1, SpendTyped
  <2>6. ui' \in ScreenTypes  BY <2>1, <2>2 DEF ScreenTypes
  <2>7. core' \in CoreTypes  BY <1>0, <1>13, PostTyped DEF Join
  <2> QED  BY <1>13, <2>3, <2>4, <2>5, <2>6, <2>7, NetRests DEF Join, lightVars
<1>14. ASSUME NEW f \in {"day", "night", "film"}, NEW l \in Levels, Slide(f, l)
       PROVE  Typed'
  <2>1. ui' \in ScreenTypes  BY <1>14, CopyTyped DEF Slide
  <2>2. light' \in LightTypes  BY <1>14 DEF Slide, Preview, LightTypes
  <2>3. budget' \in [Acts -> Nat]  BY <1>0, <1>14, SpendTyped DEF Slide
  <2> QED  BY <1>14, <2>1, <2>2, <2>3, NetRests, BoxesTyped DEF Slide, Boxes
<1> QED  BY <1>1, <1>2, <1>3, <1>4, <1>5, <1>6, <1>7, <1>8, <1>9, <1>10, <1>11,
            <1>12, <1>13, <1>14 DEF User

LEMMA UiWorkerTyped ==
    ASSUME Typed, UiWorker
    PROVE  Typed'
<1> USE DEF Typed
<1>1. CASE ScanDone
  <2>1. [ui EXCEPT !.scanning = FALSE] \in ScreenTypes  BY DEF ScreenTypes
  <2>2. ui' \in ScreenTypes /\ core' \in CoreTypes /\ NetTypeOK'
    <3>1. CASE NetworksShown([ui EXCEPT !.scanning = FALSE])
      BY <1>1, <2>1, <3>1, NetworksTyped DEF ScanDone
    <3>2. CASE UNCHANGED <<ui, net, core>>  BY <1>1, <3>2, NetRests DEF ScanDone, netVars
    <3> QED  BY <1>1, <3>1, <3>2 DEF ScanDone
  <2>3. posted' \in Seq(Nat)  BY <1>1, HeadTailProperties DEF ScanDone
  <2> QED  BY <1>1, <2>2, <2>3 DEF ScanDone, lightVars
<1>2. CASE Toggled
  <2>1. ui' \in ScreenTypes /\ ui.copy \in Records  BY <1>2 DEF Toggled, ScreenTypes
  <2>2. [user EXCEPT !.ntp = ui.copy.ntp, !.switch = ui.copy.ntp] \in UserTypes
    BY <2>1 DEF UserTypes, Records
  <2> QED  BY <1>2, <2>1, <2>2, KeepTyped, NetRests DEF Toggled, lightVars
<1>3. CASE Joined
  <2>1. [ui EXCEPT !.wait = "no"] \in ScreenTypes  BY DEF ScreenTypes
  <2>2. ui' \in ScreenTypes /\ core' \in CoreTypes /\ NetTypeOK'
    BY <1>3, <2>1, NetworksTyped DEF Joined
  <2> QED  BY <1>3, <2>2, BoxesTyped DEF Joined, lightVars, Boxes
<1> QED  BY <1>1, <1>2, <1>3 DEF UiWorker

LEMMA NextTyped == Typed /\ OneWait /\ [Next]_vars => Typed'
<1> SUFFICES ASSUME Typed, OneWait, [Next]_vars PROVE Typed'  OBVIOUS
<1> USE DEF Typed
<1>0. {"turn", "cut", "drop"} \subseteq Acts  BY DEF Acts
<1>1. CASE Boot
  <2>1. core' \in CoreTypes  BY <1>1, EmptySeq DEF Boot, CoreTypes, CoreSteps
  <2>2. user' \in UserTypes /\ zone' \in Zones  BY <1>1 DEF Boot, UserTypes, Records
  <2> QED  BY <1>1, <2>1, <2>2, NetRests DEF Boot, lightVars
<1>2. CASE PowerCut
  <2>1. core' \in CoreTypes /\ posted' \in Seq(Nat)
    BY <1>2, EmptySeq DEF PowerCut, CoreTypes, CoreSteps
  <2>2. NetTypeOK'  BY <1>2, NetTasks DEF PowerCut
  <2>3. budget' \in [Acts -> Nat]  BY <1>0, <1>2, SpendTyped DEF PowerCut
  <2>4. ui' \in ScreenTypes
    BY <1>2, DefaultsTyped DEF PowerCut, NoScreen, ScreenTypes
  <2>5. light' \in LightTypes /\ clock' \in Nat
    BY <1>2, DefaultsTyped DEF PowerCut, LightTypes, Unset
  <2> QED  BY <1>2, <2>1, <2>2, <2>3, <2>4, <2>5 DEF PowerCut
<1>3. CASE Minute
  <2>1. core' \in CoreTypes  BY <1>3, PostTyped DEF Minute, CoreTasks, PanelTasks
  <2>2. budget' \in [Acts -> Nat]  BY <1>0, <1>3, SpendTyped DEF Minute
  <2> QED  BY <1>3, <2>1, <2>2, NetRests DEF Minute, screenVars
<1>4. CASE SntpSyncs
  BY <1>4, NetRests DEF SntpSyncs, Synced, screenVars, lightVars
<1>5. CASE EventStep \/ DriverStep \/ LinkLost
  <2>1. NetTypeOK'  BY <1>5, NetSteps DEF EventStep, DriverStep, LinkLost
  <2>2. budget' \in [Acts -> Nat]
    BY <1>0, <1>5, SpendTyped DEF EventStep, DriverStep, LinkLost, settingsVars
  <2> QED  BY <1>5, <2>1, <2>2
           DEF EventStep, DriverStep, LinkLost, settingsVars, screenVars, lightVars
<1>6. CASE UNCHANGED vars
  BY <1>6, NetRests DEF vars, settingsVars
<1> QED  BY <1>1, <1>2, <1>3, <1>4, <1>5, <1>6, CoreTyped, ManagerTyped, UserTyped,
            UiWorkerTyped DEF Next

-----------------------------------------------------------------------------
(* One wait at a time, whatever is posted and run.                          *)
LEMMA OneTaskPosted ==
    ASSUME core \in CoreTypes, OneTask,
           \/ ui'.wait = ui.wait
           \/ ui.wait \notin {"ntp", "join"} /\ ui'.wait \notin {"ntp", "join"},
           \/ UNCHANGED core
           \/ \E t \in PanelTasks \cup {"scan"} : Post(t)
    PROVE  OneTask'
<1> USE DEF CoreTypes
<1>1. CASE UNCHANGED core  BY <1>1 DEF OneTask, Waits, Joining
<1>2. ASSUME NEW t \in PanelTasks \cup {"scan"}, Post(t) PROVE OneTask'
  <2>1. t \in CoreTasks /\ t \notin {"ntp", "join"}  BY DEF CoreTasks, PanelTasks
  <2>2. core'.queue = Append(core.queue, t) /\ core'.step = core.step  BY <1>2 DEF Post
  <2>3. /\ \A i, task : task # t => (Waits(i, task)' <=> Waits(i, task))
        /\ core.queue # << >> => core'.queue # << >> /\ Head(core'.queue) = Head(core.queue)
    BY <2>1, <2>2, AtEnd DEF Waits
  <2> QED  BY <2>1, <2>2, <2>3 DEF OneTask, Joining
<1> QED  BY <1>1, <1>2

LEMMA OneTaskBegins ==
    ASSUME core \in CoreTypes, OneTask, NEW t \in {"ntp", "join"}, Post(t),
           ui.wait = "no", ui'.wait = t
    PROVE  OneTask'
<1> USE DEF CoreTypes
<1>1. t \in CoreTasks  BY DEF CoreTasks
<1>2. core'.queue = Append(core.queue, t) /\ core'.step = core.step  BY DEF Post
<1>3. \A i, task : Waits(i, task)' <=>
          Waits(i, task) \/ (i = Len(core.queue) + 1 /\ task = t)
  BY <1>1, <1>2, AtEnd DEF Waits
<1>4. \A i : ~Waits(i, "ntp") /\ ~Waits(i, "join")  BY DEF OneTask
<1>5. ~Joining
  <2>1. core.queue # << >> => Waits(1, Head(core.queue))  BY AtFront DEF Waits
  <2> QED  BY <1>4, <2>1 DEF OneTask
<1> QED  BY <1>2, <1>3, <1>4, <1>5 DEF OneTask, Joining

(* The first task is gone, and its wait with it.                            *)
LEMMA OneTaskRan ==
    ASSUME core \in CoreTypes, OneTask, core.queue # << >>,
           core'.queue = Tail(core.queue), core'.step = "idle",
           IF Head(core.queue) \in {"ntp", "join"}
           THEN ui'.wait \notin {"ntp", "join"} ELSE ui'.wait = ui.wait
    PROVE  OneTask'
<1> USE DEF CoreTypes
<1> DEFINE first == Head(core.queue)
<1>1. /\ Waits(1, first)
      /\ \A i, task : Waits(i, task)' => i \in Nat \ {0} /\ Waits(i + 1, task)
  BY AtFront DEF Waits
<1>2. ~Joining'  BY DEF Joining
<1> HIDE DEF first
<1>3. \A task \in {"ntp", "join"} : \A i, j : Waits(i, task)' /\ Waits(j, task)' => i = j
  <2> SUFFICES ASSUME NEW task \in {"ntp", "join"}, NEW i, NEW j,
                      Waits(i, task)', Waits(j, task)'
               PROVE  i = j
    OBVIOUS
  <2>1. i \in Nat /\ j \in Nat /\ i + 1 = j + 1  BY <1>1 DEF OneTask
  <2> QED  BY <2>1
<1>4. ASSUME first \in {"ntp", "join"} PROVE \A i : ~Waits(i, "ntp")' /\ ~Waits(i, "join")'
  <2> SUFFICES ASSUME NEW i, NEW task \in {"ntp", "join"}, Waits(i, task)' PROVE FALSE
    OBVIOUS
  <2>1. ui.wait = first /\ ui.wait = task  BY <1>1, <1>4 DEF OneTask
  <2>2. i \in Nat \ {0} /\ i + 1 = 1  BY <1>1, <1>4, <2>1 DEF OneTask
  <2> QED  BY <2>2
<1>5. CASE first \in {"ntp", "join"}  BY <1>2, <1>3, <1>4, <1>5 DEF OneTask
<1>6. CASE first \notin {"ntp", "join"}
  <2>1. ui'.wait = ui.wait  BY <1>6 DEF first
  <2> QED  BY <1>1, <1>2, <1>3, <2>1 DEF OneTask
<1> QED  BY <1>5, <1>6

LEMMA OneTaskCleared ==
    ASSUME core'.queue = << >>, ~Joining'
    PROVE  OneTask'
BY DEF OneTask, Waits, At

(* The CoreWorker between two steps of one task.                            *)
LEMMA OneTaskGoesOn ==
    ASSUME core \in CoreTypes, OneTask, UNCHANGED ui, core'.queue = core.queue,
           Joining' => core.queue # << >> /\ Head(core.queue) = "join"
    PROVE  OneTask'
BY DEF OneTask, Waits

LEMMA InitOneWait == Init => OneWait
BY DEF Init, OneWait, OneTask, Waits, At, Joining, NoScreen, NetInit, NewNet

LEMMA NetWish ==
    ASSUME EventTask \/ Joins \/ JoinFails \/ Drops, NetTypeOK
    PROVE  /\ net'.wanted = net.wanted /\ net'.sntp = net.sntp
           /\ net'.up = net.up /\ net'.ssid = net.ssid
BY DEF EventTask, EventStart, EventLost, EventRetry, EventGiveUp, EventGotIp, Joins,
       JoinFails, Drops, NetTypeOK

LEMMA CoreOneWait ==
    ASSUME Typed, OneWait, CoreWorker
    PROVE  OneWait'
<1> USE DEF Typed
<1>0. /\ mode' = mode
      /\ mode # "off"
  <2>1. mode' = mode
    BY DEF CoreWorker, ConfigApplied, RadioUp, RadioStarted, PanelTask, NtpTask, JoinTask,
           JoinEnds, ScanTask, screenVars
  <2>2. core.step # "idle" \/ core.queue # << >>
    BY DEF CoreWorker, ConfigApplied, RadioUp, RadioStarted, PanelTask, NtpTask, JoinTask,
           JoinEnds, ScanTask, AtHead
  <2> QED  BY <2>1, <2>2 DEF OneWait
<1>1. CASE ConfigApplied \/ RadioUp \/ RadioStarted
  <2>1. UNCHANGED ui /\ core'.queue = core.queue /\ core'.step \in {"radio", "sntp", "idle"}
    BY <1>1 DEF ConfigApplied, RadioUp, RadioStarted, screenVars, CoreTypes
  <2>2. OneTask'  BY <2>1, OneTaskGoesOn DEF OneWait, Joining
  <2> QED  BY <1>0, <2>1, <2>2 DEF OneWait
<1>2. CASE PanelTask
  <2>1. /\ core.queue # << >> /\ core'.queue = Tail(core.queue) /\ core'.step = "idle"
        /\ UNCHANGED ui /\ Head(core.queue) \notin {"ntp", "join"}
    BY <1>2 DEF PanelTask, AtHead, Ran, screenVars, CoreTypes
  <2>2. OneTask'  BY <2>1, OneTaskRan DEF OneWait
  <2> QED  BY <1>0, <2>1, <2>2 DEF OneWait
<1>3. CASE NtpTask
  <2>1. /\ core.queue # << >> /\ core'.queue = Tail(core.queue) /\ core'.step = "idle"
        /\ ui'.wait = "ntp done" /\ Head(core.queue) = "ntp"
    BY <1>3 DEF NtpTask, AtHead, Ran, CoreTypes, ScreenTypes
  <2>2. OneTask'  BY <2>1, OneTaskRan DEF OneWait
  <2>3. Waits(1, "ntp")  BY <2>1, AtFront DEF Waits, CoreTypes
  <2>4. mode = "settings"  BY <2>3 DEF OneWait, OneTask
  <2> QED  BY <1>0, <2>1, <2>2, <2>4 DEF OneWait
<1>4. CASE JoinTask
  <2>1. /\ UNCHANGED ui /\ core'.queue = core.queue
        /\ core'.step \in {"reset", "apply", "connecting", "connect"}
    BY <1>4 DEF JoinTask, Step, screenVars, CoreTypes
  <2>2. core.queue # << >> /\ Head(core.queue) = "join"
    BY <1>4 DEF JoinTask, AtHead, OneWait, OneTask, Joining
  <2>3. OneTask'  BY <2>1, <2>2, OneTaskGoesOn DEF OneWait
  <2> QED  BY <1>0, <2>1, <2>3 DEF OneWait
<1>5. CASE JoinEnds
  <2>1. core.queue # << >> /\ Head(core.queue) = "join"
    BY <1>5 DEF JoinEnds, AtHead, OneWait, OneTask, Joining
  <2>2. core'.queue = Tail(core.queue) /\ core'.step = "idle" /\ ui'.wait = "join done"
    BY <1>5 DEF JoinEnds, JoinOver, ScreenTypes
  <2>3. OneTask'  BY <2>1, <2>2, OneTaskRan DEF OneWait
  <2>4. Waits(1, "join")  BY <2>1, AtFront DEF Waits, CoreTypes
  <2>5. mode = "settings"  BY <2>4 DEF OneWait, OneTask
  <2> QED  BY <1>0, <2>2, <2>3, <2>5 DEF OneWait
<1>6. CASE ScanTask
  <2>1. /\ core.queue # << >> /\ core'.queue = Tail(core.queue) /\ core'.step = "idle"
        /\ ui'.wait = ui.wait /\ Head(core.queue) = "scan"
    BY <1>6 DEF ScanTask, AtHead, Ran, CoreTypes, ScreenTypes
  <2>2. OneTask'  BY <2>1, OneTaskRan DEF OneWait
  <2> QED  BY <1>0, <2>1, <2>2 DEF OneWait
<1> QED  BY <1>1, <1>2, <1>3, <1>4, <1>5, <1>6 DEF CoreWorker

LEMMA ManagerOneWait ==
    ASSUME Typed, OneWait, Manager
    PROVE  OneWait'
<1> USE DEF Typed
<1>1. /\ ui.wait = "no" /\ ui'.wait = "no"
      /\ mode # "off" /\ mode' # "off"
      /\ core.step = "config" => mode' \in {"time", "ringing"}
  BY DEF Manager, OpenSettings, SettingsClosed, AlarmRings, RingEnds, Shown, Gone,
         NoScreen, OneWait
<1>2. {"reclaim", "begun", "ended"} \subseteq PanelTasks  BY DEF PanelTasks
<1>3. CASE UNCHANGED core \/ \E t \in PanelTasks \cup {"scan"} : Post(t)
  <2>1. core'.step = core.step  BY <1>3 DEF Post, CoreTypes
  <2> QED  BY <1>1, <1>3, <2>1, OneTaskPosted DEF OneWait
<1>4. CASE PostAll(<<"reclaim", "begun">>)
  <2>1. /\ core'.step = core.step
        /\ core'.queue = Append(Append(core.queue, "reclaim"), "begun")
    BY <1>2, <1>4, PostAllTyped DEF CoreTasks
  <2>2. /\ \A i : \A task \in {"ntp", "join"} : Waits(i, task)' <=> Waits(i, task)
        /\ core.queue # << >> => core'.queue # << >> /\ Head(core'.queue) = Head(core.queue)
    <3> DEFINE mid == Append(core.queue, "reclaim")
    <3>1. core.queue \in Seq(CoreTasks) /\ "reclaim" \in CoreTasks /\ "begun" \in CoreTasks
      BY <1>2 DEF CoreTypes, CoreTasks
    <3>2. /\ mid \in Seq(CoreTasks) /\ mid # << >>
          /\ \A i, task : At(mid, i, task) <=>
                At(core.queue, i, task) \/ (i = Len(core.queue) + 1 /\ task = "reclaim")
          /\ core.queue # << >> => Head(mid) = Head(core.queue)
      BY <3>1, AtEnd
    <3> HIDE DEF mid
    <3>3. /\ Append(mid, "begun") # << >> /\ Head(Append(mid, "begun")) = Head(mid)
          /\ \A i, task : At(Append(mid, "begun"), i, task) <=>
                At(mid, i, task) \/ (i = Len(mid) + 1 /\ task = "begun")
      BY <3>1, <3>2, AtEnd
    <3>4. core'.queue = Append(mid, "begun")  BY <2>1 DEF mid
    <3> QED  BY <3>2, <3>3, <3>4 DEF Waits
  <2> QED  BY <1>1, <2>1, <2>2 DEF OneWait, OneTask, Joining
<1> QED  BY <1>2, <1>3, <1>4
         DEF Manager, OpenSettings, SettingsClosed, AlarmRings, RingEnds

(* What the user does on the clock face or in a ring waits for nothing; in  *)
(* the settings no handler begins while another waits.                      *)
LEMMA UserOneWait ==
    ASSUME Typed, OneWait, User
    PROVE  OneWait'
<1> USE DEF Typed
<1>1. mode' = mode /\ mode \in {"settings", "ringing"} /\ ui.wait = "no"
  <2>1. ASSUME NEW from, Handler(from) PROVE mode = "settings" /\ ui.wait = "no"
    BY <2>1 DEF Handler
  <2>2. mode' = mode
    BY DEF User, OpenNetworks, OpenBrightness, OpenTime, BackToMenu, BackToNetworks, Leave,
           OpenMedia, BrightnessDone, FilmSlider, Toggle, SetTime, ChooseZone,
           AskPassword, Join, Slide, Navigate, screenVars
  <2>3. (mode = "settings" /\ ui.wait = "no") \/ mode = "ringing"
    BY <2>1 DEF User, OpenNetworks, OpenBrightness, OpenTime, BackToMenu, BackToNetworks,
           Leave, OpenMedia, BrightnessDone, FilmSlider, Toggle, SetTime, ChooseZone,
           AskPassword, Join, Slide, Navigate
  <2> QED  BY <2>2, <2>3 DEF OneWait
<1>2. core'.step = core.step
  <2>1. ASSUME NEW u, NetworksShown(u) PROVE core'.step = core.step
    BY <2>1 DEF NetworksShown, Post, CoreTypes
  <2> QED
    BY <2>1 DEF User, OpenNetworks, OpenBrightness, OpenTime, BackToMenu, BackToNetworks,
           Leave, OpenMedia, BrightnessDone, FilmSlider, Toggle, SetTime, ChooseZone,
           AskPassword, Join, Slide, Navigate, Post, CoreTypes
<1>3. OneTask'
  <2>1. CASE Toggle /\ UNCHANGED core
    <3>1. ui'.wait \in {"ntp", "ntp done"} /\ (ui'.wait = "ntp" => Post("ntp"))
      BY <2>1 DEF Toggle, ScreenTypes
    <3>2. ui'.wait = "ntp" => OneTask'
      BY <1>1, <3>1, OneTaskBegins DEF OneWait
    <3>3. ui'.wait = "ntp done" => OneTask'
      BY <1>1, <2>1, OneTaskPosted DEF OneWait
    <3> QED  BY <3>1, <3>2, <3>3
  <2>2. CASE Toggle /\ Post("ntp") /\ ui'.wait = "ntp"
    BY <1>1, <2>2, OneTaskBegins DEF OneWait
  <2>3. Toggle => (Toggle /\ UNCHANGED core) \/ (Toggle /\ Post("ntp") /\ ui'.wait = "ntp")
    BY DEF Toggle, ScreenTypes
  <2>4. CASE Join
    <3>1. ui'.wait = "join"  BY <2>4 DEF Join, ScreenTypes
    <3> QED  BY <1>1, <2>4, <3>1, OneTaskBegins DEF OneWait, Join
  <2>5. CASE OpenNetworks \/ BackToNetworks
    <3>1. [ui EXCEPT !.found = FALSE] \in ScreenTypes /\ [ui EXCEPT !.found = FALSE].wait = ui.wait
      BY DEF ScreenTypes
    <3>2. ui'.wait = ui.wait /\ (UNCHANGED core \/ Post("scan"))
      BY <2>5, <3>1, NetworksTyped DEF OpenNetworks, BackToNetworks
    <3> QED  BY <3>2, OneTaskPosted DEF OneWait
  <2>6. ASSUME NEW f \in {"day", "night", "film"}, NEW l \in Levels, Slide(f, l)
        PROVE  OneTask'
    BY <2>6, CopyTyped, OneTaskPosted DEF Slide, OneWait
  <2>7. CASE SetTime
    <3>1. Post("reclaim") /\ ui'.wait = ui.wait /\ "reclaim" \in PanelTasks
      BY <2>7 DEF SetTime, ScreenTypes, PanelTasks
    <3> QED  BY <3>1, OneTaskPosted DEF OneWait
  <2>8. CASE OpenBrightness \/ OpenTime \/ BackToMenu \/ Leave \/ AskPassword \/ OpenMedia
             \/ BrightnessDone \/ FilmSlider \/ ChooseZone
    <3>1. UNCHANGED core
      BY <2>8 DEF OpenBrightness, OpenTime, BackToMenu, Leave, AskPassword, Navigate,
                  OpenMedia, BrightnessDone, FilmSlider, ChooseZone
    <3>2. ui'.wait = ui.wait
      BY <2>8 DEF OpenBrightness, OpenTime, BackToMenu, Leave, AskPassword, Navigate,
                  OpenMedia, BrightnessDone, FilmSlider, ChooseZone, ScreenTypes, screenVars
    <3> QED  BY <3>1, <3>2, OneTaskPosted DEF OneWait
  <2> QED  BY <2>1, <2>2, <2>3, <2>4, <2>5, <2>6, <2>7, <2>8 DEF User
<1>4. ui'.wait # "no" => mode = "settings"
  <2>1. mode = "ringing" => FilmSlider
    BY DEF User, OpenNetworks, OpenBrightness, OpenTime, BackToMenu, BackToNetworks,
           Leave, OpenMedia, BrightnessDone, FilmSlider, Toggle, SetTime, ChooseZone,
           AskPassword, Join, Slide, Navigate, Handler
  <2>2. FilmSlider => ui'.wait = "no"  BY <1>1 DEF FilmSlider, screenVars
  <2> QED  BY <1>1, <2>1, <2>2
<1> QED  BY <1>1, <1>2, <1>3, <1>4 DEF OneWait

LEMMA UiWorkerOneWait ==
    ASSUME Typed, OneWait, UiWorker
    PROVE  OneWait'
<1> USE DEF Typed
<1>1. CASE ScanDone
  <2>1. [ui EXCEPT !.scanning = FALSE] \in ScreenTypes
        /\ [ui EXCEPT !.scanning = FALSE].wait = ui.wait
    BY DEF ScreenTypes
  <2>2. /\ ui'.wait = ui.wait /\ (UNCHANGED core \/ Post("scan"))
        /\ core'.step = core.step
        /\ UNCHANGED core \/ mode = "settings"
        /\ net'.sntp = net.sntp /\ net'.up = net.up
    BY <1>1, <2>1, NetworksTyped DEF ScanDone
  <2>3. OneTask'  BY <2>2, OneTaskPosted DEF OneWait
  <2> QED  BY <1>1, <2>2, <2>3 DEF OneWait, ScanDone
<1>2. CASE Toggled
  <2>1. ui.wait = "ntp done" /\ ui'.wait = "no" /\ UNCHANGED <<core, mode, net>>
    BY <1>2 DEF Toggled, ScreenTypes, netVars
  <2>2. OneTask'  BY <2>1, OneTaskPosted DEF OneWait
  <2> QED  BY <2>1, <2>2 DEF OneWait
<1>3. CASE Joined
  <2>1. [ui EXCEPT !.wait = "no"] \in ScreenTypes /\ [ui EXCEPT !.wait = "no"].wait = "no"
    BY DEF ScreenTypes
  <2>2. /\ ui.wait = "join done" /\ ui'.wait = "no" /\ (UNCHANGED core \/ Post("scan"))
        /\ core'.step = core.step /\ mode' = mode
    BY <1>3, <2>1, NetworksTyped DEF Joined
  <2>3. OneTask'  BY <2>2, OneTaskPosted DEF OneWait
  <2> QED  BY <2>2, <2>3 DEF OneWait
<1> QED  BY <1>1, <1>2, <1>3 DEF UiWorker

LEMMA NextOneWait == Typed /\ OneWait /\ [Next]_vars => OneWait'
<1> SUFFICES ASSUME Typed, OneWait, [Next]_vars PROVE OneWait'  OBVIOUS
<1> USE DEF Typed
<1>1. CASE Boot
  <2>1. OneTask'  BY <1>1, OneTaskCleared DEF Boot, Joining
  <2> QED  BY <1>1, <2>1 DEF Boot, OneWait
<1>2. CASE PowerCut
  <2>1. OneTask'  BY <1>2, OneTaskCleared DEF PowerCut, Joining
  <2> QED  BY <1>2, <2>1 DEF PowerCut, OneWait, NoScreen, NetReset, NewNet
<1>3. CASE Minute
  <2>1. Post("tick") /\ "tick" \in PanelTasks /\ UNCHANGED <<ui, mode, net>> /\ mode # "off"
    BY <1>3 DEF Minute, PanelTasks, screenVars, netVars
  <2>2. OneTask' /\ core'.step = core.step
    BY <2>1, OneTaskPosted DEF OneWait, Post, CoreTypes
  <2> QED  BY <2>1, <2>2 DEF OneWait
<1>4. CASE SntpSyncs \/ UNCHANGED vars
  <2>1. UNCHANGED <<ui, mode, net, core>>
    BY <1>4 DEF SntpSyncs, screenVars, netVars, vars, settingsVars
  <2> QED  BY <2>1, OneTaskPosted DEF OneWait
<1>5. CASE EventStep \/ DriverStep \/ LinkLost
  <2>1. UNCHANGED <<ui, mode, core>>
    BY <1>5 DEF EventStep, DriverStep, LinkLost, settingsVars, screenVars
  <2>2. net'.sntp = net.sntp /\ net'.up = net.up
    BY <1>5, NetWish DEF EventStep, DriverStep, LinkLost
  <2> QED  BY <2>1, <2>2, OneTaskPosted DEF OneWait
<1> QED  BY <1>1, <1>2, <1>3, <1>4, <1>5, CoreOneWait, ManagerOneWait, UserOneWait,
            UiWorkerOneWait DEF Next

-----------------------------------------------------------------------------
(* What is stored, what is in force and what the user chose.                *)
Agree == RecordsAgree /\ RadioAgrees /\ SyncIsWanted

Wishes == <<flash, ram, user, zone, mode, core.step, ui.wait, ui.copy.ssid, ui.copy.ntp,
            ui.copy.zone, ui.copy.known, net.wanted, net.sntp, net.up, net.ssid>>

LEMMA WishesRest == ASSUME Agree, UNCHANGED Wishes PROVE Agree'
BY DEF Agree, Wishes, RecordsAgree, RadioAgrees, SyncIsWanted, Applying, Joining

LEMMA InitAgree == Init => Agree
BY DefaultsTyped, SettingsAssumption
DEF Init, Agree, RecordsAgree, RadioAgrees, SyncIsWanted, Applying, Joining, NoScreen,
    NetInit, NewNet, Defaults, Unset, Synced

LEMMA CoreAgree ==
    ASSUME Typed, OneWait, Agree, CoreWorker
    PROVE  Agree'
<1> USE DEF Typed
<1>1. CASE ConfigApplied
  <2>1. /\ core.step = "config" /\ core'.step = "radio" /\ net'.wanted = ram.ntp
        /\ net'.sntp = net.sntp /\ net'.up = net.up /\ net'.ssid = net.ssid
        /\ UNCHANGED <<flash, ram, ui, mode, zone, user>>
    BY <1>1 DEF ConfigApplied, NetTypeOK, CoreTypes, screenVars
  <2>2. mode \in {"time", "ringing"} /\ ui.wait = "no"  BY <2>1 DEF OneWait
  <2> QED  BY <2>1, <2>2
           DEF Agree, RecordsAgree, RadioAgrees, SyncIsWanted, Applying, Joining
<1>2. CASE RadioUp
  <2>1. /\ core.step = "radio" /\ core'.step \in {"sntp", "idle"}
        /\ net'.wanted = net.wanted /\ net'.sntp = net.sntp /\ net'.ssid = ram.ssid
        /\ UNCHANGED <<flash, ram, ui, mode, zone, user>>
    BY <1>2 DEF RadioUp, NetUp, NetUpFails, NetTypeOK, CoreTypes, screenVars
  <2> QED  BY <2>1 DEF Agree, RecordsAgree, RadioAgrees, SyncIsWanted, Applying, Joining
<1>3. CASE RadioStarted
  <2>1. /\ core.step = "sntp" /\ core'.step = "idle"
        /\ net'.wanted = net.wanted /\ net'.sntp = net.wanted
        /\ net'.up = net.up /\ net'.ssid = net.ssid
        /\ UNCHANGED <<flash, ram, ui, mode, zone, user>>
    BY <1>3 DEF RadioStarted, NetStarted, NetTypeOK, CoreTypes, screenVars
  <2> QED  BY <2>1 DEF Agree, RecordsAgree, RadioAgrees, SyncIsWanted, Applying, Joining
<1>4. CASE PanelTask \/ ScanTask
  <2>1. UNCHANGED <<flash, ram, user, zone, mode>> /\ core'.step = core.step
    BY <1>4 DEF PanelTask, ScanTask, Ran, CoreTypes, screenVars
  <2>2. /\ ui'.wait = ui.wait /\ ui'.copy = ui.copy
        /\ net'.wanted = net.wanted /\ net'.sntp = net.sntp
        /\ net'.up = net.up /\ net'.ssid = net.ssid
    BY <1>4 DEF PanelTask, ScanTask, screenVars, netVars, ScreenTypes, NetTypeOK
  <2> QED  BY <2>1, <2>2, WishesRest DEF Wishes
<1>5. CASE NtpTask
  <2>1. /\ core.step = "idle" /\ core'.step = "idle" /\ core.queue # << >>
        /\ Head(core.queue) = "ntp" /\ ui'.wait = "ntp done" /\ ui'.copy = ui.copy
        /\ net'.wanted = net.wanted /\ (net'.sntp => net.wanted)
        /\ net'.up = net.up /\ net'.ssid = net.ssid
        /\ UNCHANGED <<flash, ram, mode, zone, user>>
    BY <1>5 DEF NtpTask, AtHead, Ran, SetNtp, NetTypeOK, CoreTypes, ScreenTypes
  <2>2. Waits(1, "ntp")  BY <2>1, AtFront DEF Waits, CoreTypes
  <2>3. ui.wait = "ntp" /\ mode = "settings"  BY <2>2 DEF OneWait, OneTask
  <2> QED  BY <2>1, <2>3
           DEF Agree, RecordsAgree, RadioAgrees, SyncIsWanted, Applying, Joining
<1>6. CASE JoinTask
  <2>1. /\ core.step \in {"idle", "reset", "apply", "connecting"}
        /\ core'.step \in {"reset", "apply", "connecting", "connect"}
        /\ net'.wanted = net.wanted /\ net'.sntp = net.sntp /\ net'.up = net.up
        /\ UNCHANGED <<flash, ram, ui, mode, zone, user>>
        /\ IF core.step = "idle" THEN net'.ssid = ui.copy.ssid ELSE net'.ssid = net.ssid
    <3>0. UNCHANGED <<flash, ram, ui, mode, zone, user>>
      BY <1>6 DEF JoinTask, screenVars
    <3>1. CASE AtHead("join") /\ JoinDrop(ui.copy.ssid) /\ Step("reset")
      BY <3>0, <3>1 DEF AtHead, JoinDrop, Step, NetTypeOK, CoreTypes
    <3>2. CASE core.step = "reset" /\ JoinReset /\ Step("apply")
      BY <3>0, <3>2 DEF JoinReset, Step, NetTypeOK, CoreTypes
    <3>3. CASE core.step = "apply" /\ JoinApply /\ Step("connecting")
      BY <3>0, <3>3 DEF JoinApply, Step, CoreTypes
    <3>4. CASE core.step = "connecting" /\ JoinConnecting /\ Step("connect")
      BY <3>0, <3>4 DEF JoinConnecting, Step, NetTypeOK, CoreTypes
    <3> QED  BY <1>6, <3>1, <3>2, <3>3, <3>4 DEF JoinTask
  <2>2. core.queue # << >> /\ Head(core.queue) = "join"
    BY <1>6 DEF JoinTask, AtHead, OneWait, OneTask, Joining
  <2>3. Waits(1, "join")  BY <2>2, AtFront DEF Waits, CoreTypes
  <2>4. ui.wait = "join" /\ mode = "settings"  BY <2>3 DEF OneWait, OneTask
  <2> QED  BY <2>1, <2>4
           DEF Agree, RecordsAgree, RadioAgrees, SyncIsWanted, Applying, Joining
<1>7. CASE JoinEnds
  <2>1. /\ core.step \in {"idle", "apply", "connect"} /\ core'.step = "idle"
        /\ (core.step = "idle" => ~net.up)
        /\ net'.wanted = net.wanted /\ net'.sntp = net.sntp /\ net'.up = net.up
        /\ net'.ssid = net.ssid
        /\ ui'.wait = "join done" /\ ui'.copy = ui.copy
        /\ UNCHANGED <<flash, ram, mode, zone, user>>
    BY <1>7 DEF JoinEnds, AtHead, JoinConnect, JoinOver, NetTypeOK, CoreTypes,
                ScreenTypes, netVars
  <2>2. core.queue # << >> /\ Head(core.queue) = "join"
    BY <1>7 DEF JoinEnds, AtHead, OneWait, OneTask, Joining
  <2>3. Waits(1, "join")  BY <2>2, AtFront DEF Waits, CoreTypes
  <2>4. ui.wait = "join" /\ mode = "settings"  BY <2>3 DEF OneWait, OneTask
  <2> QED  BY <2>1, <2>4
           DEF Agree, RecordsAgree, RadioAgrees, SyncIsWanted, Applying, Joining
<1> QED  BY <1>1, <1>2, <1>3, <1>4, <1>5, <1>6, <1>7 DEF CoreWorker

LEMMA ManagerAgree ==
    ASSUME Typed, OneWait, Agree, Manager
    PROVE  Agree'
<1> USE DEF Typed
<1>1. /\ UNCHANGED <<flash, ram, net, zone, user>>
      /\ ui.wait = "no" /\ ui'.wait = "no" /\ mode # "off" /\ mode' # "off"
      /\ ui'.copy \in {ui.copy, ram} /\ (mode' = "settings" => ui'.copy = ram)
      /\ mode' = "settings" => core.step # "config"
  BY DEF Manager, OpenSettings, SettingsClosed, AlarmRings, RingEnds, Shown, Gone,
         NoScreen, OneWait, netVars
<1>2. core'.step = core.step
  BY DEF Manager, OpenSettings, SettingsClosed, AlarmRings, RingEnds, Post, PostAll, CoreTypes
<1> QED  BY <1>1, <1>2
         DEF Agree, RecordsAgree, RadioAgrees, SyncIsWanted, Applying, Joining

(* A save of the whole record, from the copy, with what the user knows.     *)
LEMMA KeepAgrees ==
    ASSUME NEW c \in Records, NEW known \in UserTypes, Keep(c, known), user \in UserTypes
    PROVE  /\ user'.switch = known.switch /\ user'.time = known.time
           /\ flash' \in {flash, c} /\ ram' \in {ram, c}
           /\ ~user'.spoiled => flash' = c /\ ram' = c /\ user' = known
BY DEF Keep, Saved, SaveFails, UserTypes

LEMMA UserAgree ==
    ASSUME Typed, OneWait, Agree, User
    PROVE  Agree'
<1> USE DEF Typed
<1>0. ui.copy \in Records  BY DEF ScreenTypes
<1>1. CASE OpenNetworks \/ BackToNetworks
  <2>1. [ui EXCEPT !.found = FALSE] \in ScreenTypes
        /\ [ui EXCEPT !.found = FALSE].wait = ui.wait
        /\ [ui EXCEPT !.found = FALSE].copy = ui.copy
    BY DEF ScreenTypes
  <2>2. /\ ui'.wait = ui.wait /\ ui'.copy = ui.copy /\ core'.step = core.step
        /\ net'.wanted = net.wanted /\ net'.sntp = net.sntp
        /\ net'.up = net.up /\ net'.ssid = net.ssid
    BY <1>1, <2>1, NetworksTyped DEF OpenNetworks, BackToNetworks
  <2> QED  BY <1>1, <2>2, WishesRest DEF Wishes, OpenNetworks, BackToNetworks
<1>2. CASE OpenBrightness \/ OpenTime \/ BackToMenu \/ Leave \/ AskPassword
  <2>1. ui'.wait = ui.wait /\ ui'.copy = ui.copy
    BY <1>2 DEF OpenBrightness, OpenTime, BackToMenu, Leave, AskPassword, Navigate,
                ScreenTypes
  <2>2. UNCHANGED <<flash, ram, user, zone, mode, core, net>>
    BY <1>2 DEF OpenBrightness, OpenTime, BackToMenu, Leave, AskPassword, Navigate,
                netVars
  <2> QED  BY <2>1, <2>2, WishesRest DEF Wishes
<1>3. CASE FilmSlider
  BY <1>3, WishesRest DEF FilmSlider, Wishes, screenVars, netVars
<1>4. ASSUME NEW f \in {"day", "night", "film"}, NEW l \in Levels, Slide(f, l)
      PROVE  Agree'
  BY <1>4, CopyTyped, WishesRest DEF Slide, Wishes, netVars
<1>5. CASE OpenMedia \/ BrightnessDone
  <2>1. /\ mode = "settings" /\ ui.wait = "no" /\ Keep(ui.copy, user)
        /\ ui'.copy = ui.copy /\ ui'.wait = ui.wait
        /\ UNCHANGED <<net, core, mode, zone>>
    BY <1>5 DEF OpenMedia, BrightnessDone, Handler, ScreenTypes, netVars
  <2>2. /\ user'.switch = user.switch /\ user'.time = user.time
        /\ flash' \in {flash, ui.copy} /\ ram' \in {ram, ui.copy}
        /\ ~user'.spoiled => flash' = ui.copy /\ ram' = ui.copy /\ user' = user
    BY <1>0, <2>1, KeepAgrees
  <2>3. core.step # "config"  BY <2>1 DEF OneWait
  <2> QED  BY <2>1, <2>2, <2>3
           DEF Agree, RecordsAgree, RadioAgrees, SyncIsWanted, Applying, Joining
<1>6. CASE Toggle
  <2> DEFINE on == ~ui.copy.ntp
  <2>1. /\ mode = "settings" /\ ui.wait = "no" /\ UNCHANGED <<flash, ram, mode, zone>>
        /\ user' = [user EXCEPT !.switch = user.switch \/ on]
        /\ net' = [net EXCEPT !.wanted = on] /\ core'.step = core.step
        /\ \/ net.wanted = on /\ ui' = [ui EXCEPT !.copy.ntp = on, !.wait = "ntp done"]
           \/ net.wanted # on /\ ui' = [ui EXCEPT !.copy.ntp = on, !.wait = "ntp"]
    BY <1>6 DEF Toggle, Handler, Post, CoreTypes
  <2>2. on \in BOOLEAN  OBVIOUS
  <2> HIDE DEF on
  <2>3. /\ net'.wanted = on /\ net'.sntp = net.sntp
        /\ net'.up = net.up /\ net'.ssid = net.ssid
    BY <2>1 DEF NetTypeOK
  <2>4. /\ ui'.copy.ntp = on /\ ui'.copy.ssid = ui.copy.ssid /\ ui'.copy.zone = ui.copy.zone
        /\ ui'.copy.known = ui.copy.known
        /\ \/ net.wanted = on /\ ui'.wait = "ntp done"
           \/ ui'.wait = "ntp"
    <3> DEFINE new == [ui.copy EXCEPT !.ntp = on]
    <3>1. /\ new.ntp = on /\ new.ssid = ui.copy.ssid /\ new.zone = ui.copy.zone
          /\ new.known = ui.copy.known
      BY <1>0 DEF Records
    <3>2. ui'.copy = new  BY <2>1 DEF ScreenTypes
    <3>3. \/ net.wanted = on /\ ui'.wait = "ntp done"
          \/ ui'.wait = "ntp"
      BY <2>1 DEF ScreenTypes
    <3> HIDE DEF new
    <3> QED  BY <3>1, <3>2, <3>3
  <2>5. /\ user'.ssid = user.ssid /\ user'.ntp = user.ntp /\ user'.zone = user.zone
        /\ user'.time = user.time /\ user'.spoiled = user.spoiled
        /\ user'.switch = (user.switch \/ on)
    BY <2>1 DEF UserTypes
  <2>6. core.step # "config"  BY <2>1 DEF OneWait
  <2>7. RecordsAgree'
    BY <2>1, <2>4, <2>5, <2>6 DEF Agree, RecordsAgree, Applying
  <2>8. RadioAgrees'
    BY <2>1, <2>3, <2>4, <2>5, <2>6 DEF Agree, RadioAgrees, Applying
  <2>9. SyncIsWanted'
    BY <2>1, <2>2, <2>3, <2>4, <2>5, <2>6 DEF Agree, SyncIsWanted, Applying
  <2> QED  BY <2>7, <2>8, <2>9 DEF Agree
<1>7. CASE SetTime
  <2> DEFINE when == user.time + 2
  <2>1. when \in Nat /\ when # Synced  BY DEF UserTypes, Synced
  <2>2. /\ mode = "settings" /\ ui.wait = "no" /\ UNCHANGED <<net, mode, zone>>
        /\ ui'.wait = ui.wait /\ ui'.copy = ui.copy /\ core'.step = core.step
    BY <1>7 DEF SetTime, Handler, ScreenTypes, Post, CoreTypes, netVars
  <2>3. \/ /\ flash' = [ram EXCEPT !.known = when] /\ ram' = [ram EXCEPT !.known = when]
           /\ user' = [user EXCEPT !.time = when]
        \/ /\ ram' = ram /\ flash' \in {flash, [ram EXCEPT !.known = when]}
           /\ user' = [user EXCEPT !.time = when, !.spoiled = TRUE]
    BY <1>7 DEF SetTime, Saved
  <2> HIDE DEF when
  <2> DEFINE new == [ram EXCEPT !.known = when]
  <2>4. /\ user'.ssid = user.ssid /\ user'.ntp = user.ntp /\ user'.zone = user.zone
        /\ user'.time = when /\ user'.switch = user.switch
        /\ ~user'.spoiled => ~user.spoiled /\ flash' = new /\ ram' = new
    BY <2>3 DEF UserTypes
  <2>5. flash' \in {flash, new} /\ ram' \in {ram, new}
    BY <2>3
  <2>6. /\ new.ssid = ram.ssid /\ new.ntp = ram.ntp /\ new.zone = ram.zone
        /\ new.known = when
    BY DEF Records
  <2> HIDE DEF new
  <2>7. core.step # "config"  BY <2>2 DEF OneWait
  <2> QED  BY <2>1, <2>2, <2>4, <2>5, <2>6, <2>7
           DEF Agree, RecordsAgree, RadioAgrees, SyncIsWanted, Applying, Joining
<1>8. CASE ChooseZone
  <2>1. PICK z \in Zones \ {ui.copy.zone} :
          /\ zone' = z
          /\ \/ /\ Saved([ui.copy EXCEPT !.zone = z]) /\ Spend({"zone"})
                /\ user' = [user EXCEPT !.zone = z]
             \/ /\ Spend({"zone", "fault"}) /\ ram' = ram
                /\ flash' \in {flash, [ui.copy EXCEPT !.zone = z]}
                /\ user' = [user EXCEPT !.spoiled = TRUE]
          /\ ui' = [ui EXCEPT !.copy.zone = z]
    BY <1>8 DEF ChooseZone
  <2> DEFINE new == [ui.copy EXCEPT !.zone = z]
  <2>2. /\ new.ssid = ui.copy.ssid /\ new.ntp = ui.copy.ntp /\ new.zone = z
        /\ new.known = ui.copy.known
    BY <1>0 DEF Records
  <2>3. ui'.copy = new /\ ui'.wait = ui.wait
    BY <2>1 DEF ScreenTypes
  <2>4. /\ mode = "settings" /\ ui.wait = "no" /\ UNCHANGED <<net, mode, core>>
    BY <1>8 DEF ChooseZone, Handler, netVars
  <2>5. /\ flash' \in {flash, new} /\ ram' \in {ram, new}
        /\ user'.switch = user.switch /\ user'.time = user.time
        /\ ~user'.spoiled => /\ ~user.spoiled /\ flash' = new /\ ram' = new
                             /\ user'.ssid = user.ssid /\ user'.ntp = user.ntp
                             /\ user'.zone = z
    BY <2>1 DEF Saved, UserTypes
  <2>6. core.step # "config"  BY <2>4 DEF OneWait
  <2>7. zone' = z  BY <2>1
  <2> HIDE DEF new
  <2> QED  BY <2>2, <2>3, <2>4, <2>5, <2>6, <2>7
           DEF Agree, RecordsAgree, RadioAgrees, SyncIsWanted, Applying, Joining
<1>9. CASE Join
  <2>1. PICK n \in Networks :
          LET copy == [ui.copy EXCEPT !.ssid = n] IN
          /\ ui' = [ui EXCEPT !.copy = copy, !.wait = "join"]
          /\ \/ /\ Saved(copy) /\ Spend({"join"})
                /\ user' = [user EXCEPT !.ssid = n]
             \/ /\ Spend({"join", "fault"})
                /\ ram' = ram /\ flash' \in {flash, copy}
                /\ user' = [user EXCEPT !.spoiled = TRUE]
    BY <1>9 DEF Join
  <2> DEFINE new == [ui.copy EXCEPT !.ssid = n]
  <2>2. /\ new.ssid = n /\ new.ntp = ui.copy.ntp /\ new.zone = ui.copy.zone
        /\ new.known = ui.copy.known
    BY <1>0 DEF Records
  <2>3. ui'.copy = new /\ ui'.wait = "join"
    BY <2>1 DEF ScreenTypes
  <2>4. /\ mode = "settings" /\ ui.wait = "no" /\ UNCHANGED <<net, mode, zone>>
        /\ core'.step = core.step
    BY <1>9 DEF Join, Handler, netVars, Post, CoreTypes
  <2>5. /\ flash' \in {flash, new} /\ ram' \in {ram, new}
        /\ user'.switch = user.switch /\ user'.time = user.time
        /\ ~user'.spoiled => /\ ~user.spoiled /\ flash' = new /\ ram' = new
                             /\ user'.ssid = n /\ user'.ntp = user.ntp
                             /\ user'.zone = user.zone
    BY <2>1 DEF Saved, UserTypes
  <2>6. core.step # "config"  BY <2>4 DEF OneWait
  <2>7. ~Joining
    <3>1. core.queue # << >> => Waits(1, Head(core.queue))
      BY AtFront DEF Waits, CoreTypes
    <3> QED  BY <2>4, <3>1 DEF OneWait, OneTask
  <2> HIDE DEF new
  <2> QED  BY <2>2, <2>3, <2>4, <2>5, <2>6, <2>7
           DEF Agree, RecordsAgree, RadioAgrees, SyncIsWanted, Applying, Joining
<1> QED  BY <1>1, <1>2, <1>3, <1>4, <1>5, <1>6, <1>7, <1>8, <1>9 DEF User

LEMMA UiWorkerAgree ==
    ASSUME Typed, OneWait, Agree, UiWorker
    PROVE  Agree'
<1> USE DEF Typed
<1>1. CASE ScanDone
  <2>1. [ui EXCEPT !.scanning = FALSE] \in ScreenTypes
        /\ [ui EXCEPT !.scanning = FALSE].wait = ui.wait
        /\ [ui EXCEPT !.scanning = FALSE].copy = ui.copy
    BY DEF ScreenTypes
  <2>2. /\ ui'.wait = ui.wait /\ ui'.copy = ui.copy /\ core'.step = core.step
        /\ net'.wanted = net.wanted /\ net'.sntp = net.sntp
        /\ net'.up = net.up /\ net'.ssid = net.ssid
    BY <1>1, <2>1, NetworksTyped DEF ScanDone
  <2> QED  BY <1>1, <2>2, WishesRest DEF Wishes, ScanDone
<1>2. CASE Toggled
  <2> DEFINE known == [user EXCEPT !.ntp = ui.copy.ntp, !.switch = ui.copy.ntp]
  <2>1. /\ ui.wait = "ntp done" /\ ui'.wait = "no" /\ ui'.copy = ui.copy
        /\ Keep(ui.copy, known) /\ UNCHANGED <<net, core, mode, zone>>
    BY <1>2 DEF Toggled, ScreenTypes, netVars
  <2>2. /\ ui.copy \in Records /\ known \in UserTypes
        /\ known.switch = ui.copy.ntp /\ known.time = user.time /\ known.ntp = ui.copy.ntp
        /\ known.ssid = user.ssid /\ known.zone = user.zone /\ known.spoiled = user.spoiled
    BY DEF UserTypes, ScreenTypes, Records
  <2> HIDE DEF known
  <2>3. /\ user'.switch = known.switch /\ user'.time = known.time
        /\ flash' \in {flash, ui.copy} /\ ram' \in {ram, ui.copy}
        /\ ~user'.spoiled => flash' = ui.copy /\ ram' = ui.copy /\ user' = known
    BY <2>1, <2>2, KeepAgrees
  <2>4. mode = "settings" /\ core.step # "config"  BY <2>1 DEF OneWait
  <2> QED  BY <2>1, <2>2, <2>3, <2>4
           DEF Agree, RecordsAgree, RadioAgrees, SyncIsWanted, Applying, Joining
<1>3. CASE Joined
  <2>1. [ui EXCEPT !.wait = "no"] \in ScreenTypes /\ [ui EXCEPT !.wait = "no"].wait = "no"
        /\ [ui EXCEPT !.wait = "no"].copy = ui.copy
    BY DEF ScreenTypes
  <2>2. /\ ui.wait = "join done" /\ ui'.wait = "no" /\ ui'.copy = ui.copy
        /\ core'.step = core.step
        /\ net'.wanted = net.wanted /\ net'.sntp = net.sntp
        /\ net'.up = net.up /\ net'.ssid = net.ssid
        /\ UNCHANGED <<flash, ram, mode, zone, user>>
    BY <1>3, <2>1, NetworksTyped DEF Joined
  <2> QED  BY <2>2
           DEF Agree, RecordsAgree, RadioAgrees, SyncIsWanted, Applying, Joining
<1> QED  BY <1>1, <1>2, <1>3 DEF UiWorker

LEMMA NextAgree == Typed /\ OneWait /\ Agree /\ [Next]_vars => Agree'
<1> SUFFICES ASSUME Typed, OneWait, Agree, [Next]_vars PROVE Agree'  OBVIOUS
<1> USE DEF Typed
<1>1. CASE Boot
  <2>1. /\ user'.switch = flash.ntp /\ user'.ssid = user.ssid /\ user'.ntp = user.ntp
        /\ user'.zone = user.zone /\ user'.time = user.time /\ user'.spoiled = user.spoiled
    BY <1>1 DEF Boot, UserTypes
  <2>2. /\ mode = "off" /\ mode' = "time" /\ ram' = flash /\ zone' = flash.zone
        /\ UNCHANGED <<flash, net, ui>> /\ core'.step = "config"
    BY <1>1 DEF Boot, netVars
  <2>3. ui.wait = "no" /\ ~net.sntp /\ ~net.up  BY <2>2 DEF OneWait
  <2> QED  BY <2>1, <2>2, <2>3
           DEF Agree, RecordsAgree, RadioAgrees, SyncIsWanted, Applying, Joining
<1>2. CASE PowerCut
  <2>1. /\ UNCHANGED <<flash, ram, zone, user>> /\ mode' = "off" /\ core'.step = "idle"
        /\ ui'.wait = "no" /\ ui'.copy.known = Unset /\ ~net'.sntp /\ ~net'.up
    BY <1>2, DefaultsTyped DEF PowerCut, NoScreen, NetReset, NewNet
  <2>2. RecordsAgree' /\ RadioAgrees'
    BY <2>1 DEF Agree, RecordsAgree, RadioAgrees
  <2>3. Unset # Synced /\ ~Applying'  BY <2>1 DEF Unset, Synced, Applying
  <2>4. SyncIsWanted'  BY <2>1, <2>3 DEF Agree, SyncIsWanted
  <2> QED  BY <2>2, <2>4 DEF Agree
<1>3. CASE Minute
  <2>1. /\ UNCHANGED <<flash, ram, zone, user, ui, mode, net>> /\ core'.step = core.step
    BY <1>3 DEF Minute, screenVars, netVars, Post, CoreTypes
  <2> QED  BY <2>1, WishesRest DEF Wishes
<1>4. CASE SntpSyncs \/ UNCHANGED vars
  BY <1>4, WishesRest DEF SntpSyncs, screenVars, netVars, vars, settingsVars, Wishes
<1>5. CASE EventStep \/ DriverStep \/ LinkLost
  <2>1. UNCHANGED <<flash, ram, zone, user, ui, mode, core>>
    BY <1>5 DEF EventStep, DriverStep, LinkLost, settingsVars, screenVars
  <2>2. /\ net'.wanted = net.wanted /\ net'.sntp = net.sntp
        /\ net'.up = net.up /\ net'.ssid = net.ssid
    BY <1>5, NetWish DEF EventStep, DriverStep, LinkLost
  <2> QED  BY <2>1, <2>2, WishesRest DEF Wishes
<1> QED  BY <1>1, <1>2, <1>3, <1>4, <1>5, CoreAgree, ManagerAgree, UserAgree,
            UiWorkerAgree DEF Next

-----------------------------------------------------------------------------
(* The clock runs on, and has stored, what the user last chose, for any     *)
(* networks and zones, across restarts at any moment and whatever else is   *)
(* saved in between (nn20clock_storage.c and the screen that edits a copy). *)
LEMMA InitAll == Init => Typed /\ OneWait /\ Agree
BY InitTyped, TypedIsTypeOK, InitOneWait, InitAgree

LEMMA NextAll ==
    Typed /\ OneWait /\ Agree /\ [Next]_vars => Typed' /\ OneWait' /\ Agree'
BY NextTyped, NextOneWait, NextAgree

(* What runs is well typed: records hold networks, zones and percentages    *)
(* that can be chosen, queues hold tasks.                                   *)
THEOREM SettingsTypeCorrect == Spec => []TypeOK
<1>1. Typed => TypeOK  BY TypedIsTypeOK
<1> QED  BY InitAll, NextAll, <1>1, PTL DEF Spec

(* The clock runs on, and has stored, what the user last chose: whichever   *)
(* handlers and tasks interleave, whenever the power goes.                  *)
THEOREM ChoicesAreKept == Spec => []AsLeft
<1>1. Agree => AsLeft
  BY DEF Agree, RecordsAgree, RadioAgrees, AsLeft, Resting, Applying
<1> QED  BY InitAll, NextAll, <1>1, PTL DEF Spec

(* A clock that was taken off SNTP is not moved by it, by no order of the   *)
(* handlers, the CoreWorker's start and the event task.                     *)
LEMMA SyncStep ==
    ASSUME Typed, OneWait, Agree, Next, clock' = Synced, clock' # clock
    PROVE  user.switch
<1> USE DEF Typed
<1>1. CASE SntpSyncs
  <2>1. net.sntp  BY <1>1 DEF SntpSyncs
  <2>2. mode # "off"  BY <2>1 DEF OneWait
  <2> QED  BY <2>1, <2>2 DEF Agree, SyncIsWanted
<1>2. ~ConfigApplied
  BY DEF ConfigApplied, Restored, Agree, SyncIsWanted
<1>3. ~PowerCut  BY DEF PowerCut, Unset, Synced
<1>4. ~SetTime
  <2>1. user.time + 2 # Synced  BY DEF UserTypes, Synced
  <2> QED  BY <2>1 DEF SetTime
<1>5. ~Boot /\ ~Minute /\ ~EventStep /\ ~DriverStep /\ ~LinkLost
  BY DEF Boot, Minute, EventStep, DriverStep, LinkLost, settingsVars
<1>6. ~(CoreWorker /\ ~ConfigApplied)
  BY DEF CoreWorker, RadioUp, RadioStarted, PanelTask, NtpTask, JoinTask, JoinEnds, ScanTask
<1>7. ~Manager
  BY DEF Manager, OpenSettings, SettingsClosed, AlarmRings, RingEnds
<1>8. ~(User /\ ~SetTime)
  BY DEF User, OpenNetworks, OpenBrightness, OpenTime, BackToMenu, BackToNetworks, Leave,
         OpenMedia, BrightnessDone, FilmSlider, Toggle, ChooseZone, AskPassword, Join,
         Slide, Navigate
<1>9. ~UiWorker  BY DEF UiWorker, ScanDone, Toggled, Joined
<1> QED  BY <1>1, <1>2, <1>3, <1>4, <1>5, <1>6, <1>7, <1>8, <1>9 DEF Next

(* A clock that was taken off SNTP is not moved by it, by no order of the   *)
(* handlers, the CoreWorker's start and the event task.                     *)
THEOREM SyncLeavesItAlone == Spec => OffSyncStays
<1>1. Typed /\ OneWait /\ Agree /\ [Next]_vars =>
        [clock' = Synced /\ clock' # clock => user.switch]_vars
  BY SyncStep
<1> QED  BY InitAll, NextAll, <1>1, PTL DEF Spec, OffSyncStays

-----------------------------------------------------------------------------
(* The panel.  What a post and a run do to the tasks that wait.             *)
LEMMA LightPosts ==
    ASSUME Typed, NEW t \in CoreTasks, Post(t)
    PROVE  /\ core'.step = core.step
           /\ EndsFollow /\ t # "begun" /\ light'.playing = light.playing => EndsFollow'
           /\ t = "ended" => EndsFollow'
           /\ ReclaimWaits \/ t \in Reclaims => ReclaimWaits'
           /\ PanelIsAsked \/ t \in PanelTasks => PanelIsAsked'
<1> USE DEF Typed, CoreTypes
<1>1. core'.queue = Append(core.queue, t) /\ core'.step = core.step  BY DEF Post
<1>2. \A i, task : Waits(i, task)' <=>
          Waits(i, task) \/ (i = Len(core.queue) + 1 /\ task = t)
  BY <1>1, AtEnd DEF Waits
<1>3. Len(core.queue) \in Nat /\ \A i, task : Waits(i, task) => i \in 1 .. Len(core.queue)
  BY LenProperties DEF Waits, At
<1> PICK last : last = Len(core.queue) + 1  OBVIOUS
<1>4. Waits(last, t)'  BY <1>2
<1>5. \A i, task : Waits(i, task) => i < last  BY <1>3
<1>6. \A i, task : Waits(i, task)' /\ task # t => i < last  BY <1>2, <1>5
<1>7. EndsFollow /\ t # "begun" /\ light'.playing = light.playing => EndsFollow'
  BY <1>2 DEF EndsFollow
<1>8. t = "ended" => EndsFollow'
  <2>1. ASSUME t = "ended" PROVE \E j : Waits(j, "ended")'  BY <1>4, <2>1
  <2>2. ASSUME t = "ended", NEW i, Waits(i, "begun")'
        PROVE  \E j : i < j /\ Waits(j, "ended")'
    <3>1. i < last  BY <1>6, <2>2
    <3> QED  BY <1>4, <2>2, <3>1
  <2> QED  BY <2>1, <2>2 DEF EndsFollow
<1> QED  BY <1>1, <1>2, <1>4, <1>7, <1>8 DEF ReclaimWaits, PanelIsAsked

LEMMA LightRuns ==
    ASSUME Typed, core.queue # << >>, core'.queue = Tail(core.queue), EndsFollow,
           light'.playing = IF Head(core.queue) = "begun" THEN TRUE
                            ELSE IF Head(core.queue) = "ended" THEN FALSE
                            ELSE light.playing
    PROVE  /\ EndsFollow'
           /\ ReclaimWaits /\ Head(core.queue) \notin Reclaims => ReclaimWaits'
           /\ PanelIsAsked /\ Head(core.queue) \notin PanelTasks => PanelIsAsked'
<1> USE DEF Typed, CoreTypes
<1> DEFINE first == Head(core.queue)
<1>1. /\ Waits(1, first)
      /\ \A i, task : Waits(i, task)' => i \in Nat \ {0} /\ Waits(i + 1, task)
      /\ \A i, task : Waits(i, task) /\ i # 1 =>
             i \in Nat /\ i > 1 /\ Waits(i - 1, task)'
  BY AtFront DEF Waits
<1>2. \A task : Waits(1, task) => task = first
  BY <1>1 DEF Waits, At
<1> HIDE DEF first
<1>3. \A i, task : Waits(i, task) /\ task # first => Waits(i - 1, task)'
  BY <1>1, <1>2
<1>4. \A i : Waits(i, "begun")' => \E j : i < j /\ Waits(j, "ended")'
  <2> SUFFICES ASSUME NEW i, Waits(i, "begun")'
               PROVE  \E j : i < j /\ Waits(j, "ended")'
    OBVIOUS
  <2>1. i \in Nat \ {0} /\ Waits(i + 1, "begun")  BY <1>1
  <2>2. PICK j : i + 1 < j /\ Waits(j, "ended")  BY <2>1 DEF EndsFollow
  <2>3. j \in Nat
    BY <2>2, LenProperties DEF Waits, At
  <2>4. j # 1  BY <2>1, <2>2, <2>3
  <2>5. Waits(j - 1, "ended")' /\ i < j - 1  BY <1>1, <2>1, <2>2, <2>3, <2>4
  <2> QED  BY <2>5
<1>5. light'.playing => \E j : Waits(j, "ended")'
  <2>1. CASE first = "begun"
    <3>1. PICK j : 1 < j /\ Waits(j, "ended")  BY <1>1, <2>1 DEF EndsFollow
    <3>2. Waits(j - 1, "ended")'  BY <1>3, <2>1, <3>1
    <3> QED  BY <3>2
  <2>2. CASE first # "begun" /\ first # "ended"
    <3>1. light'.playing => \E j : Waits(j, "ended")  BY <2>2 DEF EndsFollow, first
    <3> QED  BY <1>3, <2>2, <3>1
  <2>3. CASE first = "ended"  BY <2>3 DEF first
  <2> QED  BY <2>1, <2>2, <2>3
<1>6. ReclaimWaits /\ first \notin Reclaims => ReclaimWaits'
  BY <1>3 DEF ReclaimWaits
<1>7. PanelIsAsked /\ first \notin PanelTasks => PanelIsAsked'
  BY <1>3 DEF PanelIsAsked
<1> QED  BY <1>4, <1>5, <1>6, <1>7 DEF EndsFollow, first

(* A step that has nothing to do with the panel, apart from what it posts.  *)
LEMMA LightRests ==
    ASSUME Typed, LightReturns, UNCHANGED <<light, mode>>,
           mode = "time" => UNCHANGED <<ram, dark>>,
           UNCHANGED core \/ \E t \in CoreTasks \ {"begun"} : Post(t)
    PROVE  LightReturns'
<1>1. CASE UNCHANGED core
  BY <1>1 DEF LightReturns, EndsFollow, ReclaimWaits, PanelIsAsked, Waits, Answer, Scheduled
<1>2. ASSUME NEW t \in CoreTasks \ {"begun"}, Post(t) PROVE LightReturns'
  <2>1. mode = "time" => Answer(ram, FALSE)' = Answer(ram, FALSE)  BY DEF Answer, Scheduled
  <2>2. /\ core'.step = core.step
        /\ EndsFollow => EndsFollow'
        /\ ReclaimWaits => ReclaimWaits'
        /\ PanelIsAsked => PanelIsAsked'
    BY <1>2, LightPosts
  <2> QED  BY <2>1, <2>2 DEF LightReturns
<1> QED  BY <1>1, <1>2

LEMMA InitLight == Init => LightReturns
BY DEF Init, LightReturns, EndsFollow, Waits, At

(* The CoreWorker: a step of its start, then what it runs from its queue.   *)
LEMMA PanelTaskLight ==
    ASSUME Typed, OneWait, LightReturns, PanelTask
    PROVE  LightReturns'
<1> USE DEF Typed
<1> PICK head : head = Head(core.queue)  OBVIOUS
<1>1. /\ core.step = "idle" /\ core.queue # << >> /\ head \in PanelTasks
      /\ core'.queue = Tail(core.queue) /\ core'.step = "idle"
      /\ UNCHANGED <<ram, mode, dark>>
  BY DEF PanelTask, AtHead, Ran, CoreTypes, PanelTasks, screenVars
<1>2. \E last, playing :
        /\ Apply(last, playing) /\ playing \in BOOLEAN
        /\ head = "tick" => last = light.scheduled /\ playing = light.playing
        /\ head # "tick" => last = 0
        /\ playing = IF head = "begun" THEN TRUE
                     ELSE IF head = "ended" THEN FALSE ELSE light.playing
  <2>1. light.playing \in BOOLEAN  BY DEF LightTypes
  <2> QED  BY <2>1 DEF PanelTask, AtHead, Tick, Reclaim
<1>3. PICK last, playing :
        /\ Apply(last, playing) /\ playing \in BOOLEAN
        /\ head = "tick" => last = light.scheduled /\ playing = light.playing
        /\ head # "tick" => last = 0
        /\ playing = IF head = "begun" THEN TRUE
                     ELSE IF head = "ended" THEN FALSE ELSE light.playing
  BY <1>2
<1>4. light.panel \in Levels  BY DEF LightTypes
<1>5. /\ light'.scheduled = Answer(ram, playing) /\ light'.playing = playing
      /\ light'.scheduled # 0
      /\ light'.panel = IF light'.scheduled = last THEN light.panel
                        ELSE light'.scheduled
  BY <1>3, <1>4, ApplyTyped
<1>6. EndsFollow =>
        /\ EndsFollow'
        /\ ReclaimWaits /\ head \notin Reclaims => ReclaimWaits'
        /\ PanelIsAsked /\ head \notin PanelTasks => PanelIsAsked'
  BY <1>1, <1>3, <1>5, LightRuns
<1>7. mode # "off"  BY <1>1 DEF OneWait
<1>8. mode # "ringing" => EndsFollow'  BY <1>6 DEF LightReturns
<1>9. ASSUME mode = "time"
      PROVE  /\ ReclaimWaits' \/ light'.panel = light'.scheduled
             /\ PanelIsAsked' \/ light'.panel = Answer(ram, FALSE)
  <2>1. EndsFollow /\ EndsFollow'  BY <1>6, <1>9 DEF LightReturns
  <2>2. ASSUME ~PanelIsAsked' PROVE ~playing
    BY <1>5, <2>1, <2>2 DEF EndsFollow, PanelIsAsked, PanelTasks
  <2>3. ReclaimWaits' => PanelIsAsked'
    BY DEF ReclaimWaits, PanelIsAsked, Reclaims, PanelTasks
  <2>4. head # "tick" => light'.panel = light'.scheduled  BY <1>3, <1>5
  <2>5. head = "tick" => ReclaimWaits' \/ light'.panel = light'.scheduled
    <3>1. ReclaimWaits \/ light.panel = light.scheduled
      BY <1>1, <1>9 DEF LightReturns
    <3>2. head = "tick" => head \notin Reclaims  BY DEF Reclaims
    <3> QED  BY <1>3, <1>5, <1>6, <2>1, <3>1, <3>2
  <2>6. ~PanelIsAsked' => light'.scheduled = Answer(ram, FALSE)
    BY <1>5, <2>2 DEF Answer
  <2> QED  BY <2>3, <2>4, <2>5, <2>6
<1>10. Answer(ram, FALSE)' = Answer(ram, FALSE)  BY <1>1 DEF Answer, Scheduled
<1> QED  BY <1>1, <1>7, <1>8, <1>9, <1>10 DEF LightReturns

(* A run of a task that has nothing to do with the panel.                   *)
LEMMA OtherTaskLight ==
    ASSUME Typed, OneWait, LightReturns, core.queue # << >>, core.step # "config",
           Head(core.queue) \notin PanelTasks, core'.queue = Tail(core.queue),
           core'.step # "config", UNCHANGED <<light, dark, mode, ram>>
    PROVE  LightReturns'
<1> USE DEF Typed
<1>1. Head(core.queue) \notin Reclaims  BY DEF Reclaims, PanelTasks
<1>2. mode # "off"  BY DEF OneWait
<1>3. light'.playing = IF Head(core.queue) = "begun" THEN TRUE
                       ELSE IF Head(core.queue) = "ended" THEN FALSE
                       ELSE light.playing
  BY DEF PanelTasks
<1>4. EndsFollow => /\ EndsFollow' /\ (ReclaimWaits => ReclaimWaits')
                    /\ (PanelIsAsked => PanelIsAsked')
  BY <1>1, <1>3, LightRuns
<1>5. Answer(ram, FALSE)' = Answer(ram, FALSE)  BY DEF Answer, Scheduled
<1> QED  BY <1>2, <1>4, <1>5 DEF LightReturns

LEMMA CoreLight ==
    ASSUME Typed, OneWait, LightReturns, CoreWorker
    PROVE  LightReturns'
<1> USE DEF Typed
<1>1. CASE ConfigApplied
  <2>1. /\ core.step = "config" /\ mode # "off" /\ UNCHANGED <<ram, mode, dark>>
        /\ core'.queue = core.queue /\ core'.step = "radio"
        /\ Apply(light.scheduled, light.playing)
    BY <1>1 DEF ConfigApplied, Tick, OneWait, CoreTypes, screenVars
  <2>2. light.scheduled = 0 /\ ~light.playing  BY <2>1 DEF LightReturns
  <2>3. light.panel \in Levels /\ light.playing \in BOOLEAN  BY DEF LightTypes
  <2>4. /\ light'.scheduled = Answer(ram, light.playing) /\ light'.playing = light.playing
        /\ light'.panel = light'.scheduled
    BY <2>1, <2>2, <2>3, ApplyTyped
  <2>5. Answer(ram, FALSE)' = Answer(ram, light.playing)
    BY <2>1, <2>2 DEF Answer, Scheduled
  <2>6. EndsFollow => EndsFollow'  BY <2>1, <2>4 DEF EndsFollow, Waits
  <2> QED  BY <2>1, <2>4, <2>5, <2>6 DEF LightReturns
<1>2. CASE RadioUp \/ RadioStarted \/ JoinTask
  <2>1. /\ UNCHANGED <<light, dark, ram, mode>> /\ core'.queue = core.queue
        /\ core.step # "config" /\ core'.step # "config"
    BY <1>2 DEF RadioUp, RadioStarted, JoinTask, AtHead, Step, CoreTypes, screenVars, lightVars
  <2> QED  BY <2>1
           DEF LightReturns, EndsFollow, ReclaimWaits, PanelIsAsked, Waits, Answer, Scheduled
<1>3. CASE PanelTask  BY <1>3, PanelTaskLight
<1>4. CASE NtpTask \/ ScanTask
  <2>1. /\ UNCHANGED <<light, dark, ram, mode>> /\ core.queue # << >>
        /\ core'.queue = Tail(core.queue) /\ core.step = "idle" /\ core'.step = "idle"
        /\ Head(core.queue) \in {"ntp", "scan"}
    BY <1>4 DEF NtpTask, ScanTask, AtHead, Ran, CoreTypes, screenVars, lightVars
  <2> QED  BY <2>1, OtherTaskLight DEF PanelTasks
<1>5. CASE JoinEnds
  <2>1. /\ UNCHANGED <<light, dark, ram, mode>> /\ core.queue # << >>
        /\ core'.queue = Tail(core.queue) /\ core.step # "config" /\ core'.step = "idle"
        /\ Head(core.queue) = "join"
    BY <1>5 DEF JoinEnds, JoinOver, AtHead, Joining, OneWait, OneTask, CoreTypes,
                screenVars, lightVars
  <2> QED  BY <2>1, OtherTaskLight DEF PanelTasks
<1> QED  BY <1>1, <1>2, <1>3, <1>4, <1>5 DEF CoreWorker

(* The manager: a screen that the panel was lent to goes, and a reclaim is  *)
(* in the queue; a film ends, and so is its end.                            *)
LEMMA ManagerLight ==
    ASSUME Typed, OneWait, LightReturns, Manager
    PROVE  LightReturns'
<1> USE DEF Typed
<1>1. /\ "reclaim" \in CoreTasks /\ "begun" \in CoreTasks /\ "ended" \in CoreTasks
      /\ "reclaim" \in Reclaims /\ "ended" \in Reclaims
      /\ "reclaim" \in PanelTasks /\ "ended" \in PanelTasks
  BY DEF CoreTasks, PanelTasks, Reclaims
<1>2. UNCHANGED <<light, dark, ram>>
  BY DEF Manager, OpenSettings, SettingsClosed, AlarmRings, RingEnds, lightVars
<1>3. CASE OpenSettings
  <2>1. /\ mode = "time" /\ mode' = "settings" /\ core' = core /\ core.step # "config"
    BY <1>3 DEF OpenSettings
  <2> QED  BY <1>2, <2>1 DEF LightReturns, EndsFollow, Waits
<1>4. CASE SettingsClosed
  <2>1. mode = "settings" /\ mode' = "time" /\ Post("reclaim")
    BY <1>4 DEF SettingsClosed
  <2>2. core.step # "config"  BY <2>1 DEF OneWait
  <2>3. EndsFollow  BY <2>1 DEF LightReturns
  <2>4. EndsFollow' /\ ReclaimWaits' /\ PanelIsAsked' /\ core'.step = core.step
    BY <1>1, <1>2, <2>1, <2>3, LightPosts
  <2> QED  BY <2>1, <2>2, <2>4 DEF LightReturns
<1>5. CASE AlarmRings
  <2>1. mode \in {"time", "settings"} /\ mode' = "ringing"
    BY <1>5 DEF AlarmRings
  <2>2. core'.step = core.step
    BY <1>5, PostAllTyped DEF AlarmRings, Post, PostAll, CoreTypes
  <2> QED  BY <1>2, <2>1, <2>2 DEF LightReturns
<1>6. CASE RingEnds
  <2>1. mode = "ringing" /\ mode' = "time" /\ Post("ended")
    BY <1>6 DEF RingEnds
  <2>2. EndsFollow' /\ ReclaimWaits' /\ PanelIsAsked' /\ core'.step = core.step
    BY <1>1, <2>1, LightPosts
  <2> QED  BY <1>2, <2>1, <2>2 DEF LightReturns
<1> QED  BY <1>3, <1>4, <1>5, <1>6 DEF Manager

(* The user moves the panel only where it is lent to a slider or a film;    *)
(* nothing is saved on the clock face.                                      *)
LEMMA UserLight ==
    ASSUME Typed, OneWait, LightReturns, User
    PROVE  LightReturns'
<1> USE DEF Typed
<1>1. mode \in {"settings", "ringing"} /\ mode' = mode
  BY DEF User, OpenNetworks, OpenBrightness, OpenTime, BackToMenu, BackToNetworks, Leave,
         OpenMedia, BrightnessDone, FilmSlider, Toggle, SetTime, ChooseZone, AskPassword,
         Join, Slide, Navigate, Handler, screenVars
<1>2. {"scan", "ntp", "join", "reclaim"} \subseteq CoreTasks \ {"begun"}
  BY DEF CoreTasks, PanelTasks
<1>3. UNCHANGED core \/ \E t \in CoreTasks \ {"begun"} : Post(t)
  BY <1>2
  DEF User, OpenNetworks, OpenBrightness, OpenTime, BackToMenu, BackToNetworks, Leave,
      OpenMedia, BrightnessDone, FilmSlider, Toggle, SetTime, ChooseZone, AskPassword,
      Join, Slide, Navigate, NetworksShown
<1>4. light'.playing = light.playing
  BY DEF User, OpenNetworks, OpenBrightness, OpenTime, BackToMenu, BackToNetworks, Leave,
         OpenMedia, BrightnessDone, FilmSlider, Toggle, SetTime, ChooseZone, AskPassword,
         Join, Slide, Navigate, Preview, LightTypes, lightVars
<1>5. light'.scheduled = light.scheduled
  BY DEF User, OpenNetworks, OpenBrightness, OpenTime, BackToMenu, BackToNetworks, Leave,
         OpenMedia, BrightnessDone, FilmSlider, Toggle, SetTime, ChooseZone, AskPassword,
         Join, Slide, Navigate, Preview, LightTypes, lightVars
<1>6. EndsFollow => EndsFollow'
  <2>1. CASE UNCHANGED core  BY <1>4, <2>1 DEF EndsFollow, Waits
  <2>2. CASE \E t \in CoreTasks \ {"begun"} : Post(t)  BY <1>4, <2>2, LightPosts
  <2> QED  BY <1>3, <2>1, <2>2
<1>7. core'.step = core.step
  BY <1>3, LightPosts
<1> QED  BY <1>1, <1>4, <1>5, <1>6, <1>7 DEF LightReturns

(* ... nor do the handlers that had to wait touch it.                       *)
LEMMA UiWorkerLight ==
    ASSUME Typed, OneWait, LightReturns, UiWorker
    PROVE  LightReturns'
<1> USE DEF Typed
<1>1. UNCHANGED <<light, dark, mode>>
  BY DEF UiWorker, ScanDone, Toggled, Joined, lightVars
<1>2. mode = "time" => UNCHANGED ram
  <2>1. Toggled => mode = "settings"  BY DEF Toggled, OneWait
  <2> QED  BY <2>1 DEF UiWorker, ScanDone, Joined
<1>3. "scan" \in CoreTasks \ {"begun"}  BY DEF CoreTasks
<1>4. UNCHANGED core \/ \E t \in CoreTasks \ {"begun"} : Post(t)
  BY <1>3 DEF UiWorker, ScanDone, Toggled, Joined, NetworksShown
<1> QED  BY <1>1, <1>2, <1>4, LightRests

LEMMA NextLight == Typed /\ OneWait /\ LightReturns /\ [Next]_vars => LightReturns'
<1> SUFFICES ASSUME Typed, OneWait, LightReturns, [Next]_vars PROVE LightReturns'  OBVIOUS
<1> USE DEF Typed
<1>1. CASE Boot
  <2>1. /\ mode = "off" /\ UNCHANGED light /\ core'.queue = << >> /\ core'.step = "config"
    BY <1>1 DEF Boot, lightVars
  <2>2. EndsFollow'
    BY <2>1 DEF LightReturns, EndsFollow, Waits, At
  <2> QED  BY <2>1, <2>2 DEF LightReturns
<1>2. CASE PowerCut
  <2>1. /\ mode' = "off" /\ core'.queue = << >> /\ light'.scheduled = 0 /\ ~light'.playing
    BY <1>2 DEF PowerCut
  <2> QED  BY <2>1 DEF LightReturns, EndsFollow, Waits, At
<1>3. CASE Minute
  <2>1. /\ mode # "off" /\ UNCHANGED <<light, mode, ram>> /\ Post("tick")
    BY <1>3 DEF Minute, screenVars
  <2>2. "tick" \in CoreTasks /\ "tick" \in PanelTasks  BY DEF CoreTasks, PanelTasks
  <2>3. /\ core'.step = core.step /\ PanelIsAsked'
        /\ EndsFollow => EndsFollow'
        /\ ReclaimWaits => ReclaimWaits'
    BY <2>1, <2>2, LightPosts
  <2> QED  BY <2>1, <2>3 DEF LightReturns
<1>4. CASE SntpSyncs \/ EventStep \/ DriverStep \/ LinkLost \/ UNCHANGED vars
  <2>1. UNCHANGED <<light, dark, mode, ram, core>>
    BY <1>4 DEF SntpSyncs, EventStep, DriverStep, LinkLost, vars, settingsVars, lightVars,
                screenVars
  <2> QED  BY <2>1, LightRests
<1> QED  BY <1>1, <1>2, <1>3, <1>4, CoreLight, ManagerLight, UserLight, UiWorkerLight
         DEF Next

(* What a slider or a film did to the panel is gone with its screen: on the *)
(* clock face, once the CoreWorker is through with what waits, the panel    *)
(* shows what the stored schedule asks for at this hour                     *)
(* (apply_scheduled_brightness and on_state_change).                        *)
THEOREM PanelComesBack == Spec => []PanelFollowsSchedule
<1>1. Typed /\ LightReturns => PanelFollowsSchedule
  <2> SUFFICES ASSUME Typed, LightReturns, mode = "time", core.step # "config",
                      \A i \in DOMAIN core.queue : core.queue[i] \notin PanelTasks
               PROVE  light.panel = Answer(ram, FALSE)
    BY DEF PanelFollowsSchedule
  <2>1. ~PanelIsAsked  BY DEF PanelIsAsked, Waits, At
  <2> QED  BY <2>1 DEF LightReturns
<1> QED  BY InitAll, InitLight, NextAll, NextLight, <1>1, PTL DEF Spec
=============================================================================
