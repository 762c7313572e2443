---------------------------- MODULE WifiStation ----------------------------
(***************************************************************************)
(* The WiFi station (wifi_connect.c) and the access point for the LAN      *)
(* MCU's update (fota_ap.c), which share one driver.                       *)
(*                                                                         *)
(* The monitor starts and stops the station; a task of each start sets the *)
(* driver up and waits in an event group for the outcome, the event loop   *)
(* connects, retries and gives up, and a second task takes new             *)
(* credentials.  Beside them the uplink task opens and closes the access   *)
(* point.  None of them asks what the others are doing with the driver,    *)
(* except that a lost station is not connected again while the access      *)
(* point is open.  The portal of CONFIG mode, for which the station is     *)
(* torn down, is the subject of ModeSwitch.                                *)
(***************************************************************************)
EXTENDS Naturals, Sequences

CONSTANTS
  WIFI_ESP_MAXIMUM_RETRY,
  MaxStarts,      \* bound: starts of the station
  MaxConfigs,     \* bound: new credentials
  MaxAps,         \* bound: openings of the access point
  MaxDrops        \* bound: the network goes away

ASSUME RetryAssumption  == WIFI_ESP_MAXIMUM_RETRY \in Nat
ASSUME BoundsAssumption ==
  {MaxStarts, MaxConfigs, MaxAps, MaxDrops} \subseteq Nat

Starts == 1..MaxStarts

VARIABLES
  wifi_connect_task_close,
  g_wifi_netif,             \* it exists
  s_wifi_event_group, bits, \* the group exists; the bits set in it
  s_retry_num, s_wifi_connected, s_reconnect_request,
  init,                     \* wifi_connect_init_task of each start
  conf,                     \* wifi_config_task of each start
  g_wifi_config_queue,      \* credentials in it
  ctl,                      \* the task that stops the station
  events,                   \* what event_handler is to see
  mode, started, sta,       \* driver; mode "NULL": not initialized
  net, drops,               \* the network is there
  fota, seen,               \* uplink task in fota_ap.c; current_mode
  s_fota_ap_running, s_was_apsta,
  starts, configs, aps,
  caught,                   \* history: a stop took the event group from its
                            \*   users
  mixed,                    \* history: a change of the connection and the
                            \*   access point overlapped
  dormant,                  \* history: the access point met a driver that
                            \*   was initialized but stopped
  stale,                    \* history: the task reported a connection that
                            \*   was gone
  missed,                   \* history: a loss was ignored when the access
                            \*   point had been closed
  fault                     \* NULL was used, or an ESP_ERROR_CHECK failed

appVars   == <<wifi_connect_task_close, g_wifi_netif>>
groupVars == <<s_wifi_event_group, bits>>
flagVars  == <<s_retry_num, s_wifi_connected, s_reconnect_request>>
confVars  == <<conf, g_wifi_config_queue>>
drvVars   == <<mode, started, sta, events>>
netVars   == <<net, drops>>
fotaVars  == <<fota, seen, s_fota_ap_running, s_was_apsta>>
countVars == <<starts, configs, aps>>
history   == <<caught, mixed, dormant, stale, missed>>
vars == <<appVars, groupVars, flagVars, init, confVars, ctl, drvVars, netVars,
          fotaVars, countVars, history, fault>>

Modes == {"NULL", "STA", "AP", "APSTA"}

(* The values every variable may take.                                     *)
TypeOK ==
  /\ {wifi_connect_task_close, g_wifi_netif, s_wifi_event_group,
      s_wifi_connected, s_reconnect_request, started,
      net, s_fota_ap_running, s_was_apsta, caught, mixed, dormant, stale,
      missed, fault} \subseteq BOOLEAN
  /\ bits \subseteq {"CONNECTED", "FAIL"}
  /\ s_retry_num \in 0..WIFI_ESP_MAXIMUM_RETRY
  /\ init \in [Starts -> {"none", "netif", "driver", "config", "waiting",
                          "mark", "spawn", "done"}]
  /\ conf \in [Starts -> {"none", "loop", "flag", "disconnect", "done"}]
  /\ g_wifi_config_queue \in 0..MaxConfigs
  /\ ctl \in {"idle", "stop", "delete"}
  /\ events \in Seq({"STA_START", "STA_DISCONNECTED", "STA_GOT_IP"})
  /\ {mode, seen} \subseteq Modes /\ sta \in {"idle", "connecting", "up"}
  /\ drops \in 0..MaxDrops
  /\ fota \in {"idle", "enable", "wait", "clear"}
  /\ starts \in 0..MaxStarts /\ configs \in 0..MaxConfigs
  /\ aps \in 0..MaxAps

Init ==
  /\ wifi_connect_task_close = FALSE /\ g_wifi_netif = FALSE
  /\ s_wifi_event_group = FALSE /\ bits = {}
  /\ s_retry_num = 0 /\ s_wifi_connected = FALSE
  /\ s_reconnect_request = FALSE
  /\ init = [i \in Starts |-> "none"] /\ conf = [i \in Starts |-> "none"]
  /\ g_wifi_config_queue = 0
  /\ ctl = "idle" /\ events = <<>>
  /\ mode = "NULL" /\ started = FALSE /\ sta = "idle"
  /\ net = TRUE /\ drops = 0
  /\ fota = "idle" /\ seen = "NULL"
  /\ s_fota_ap_running = FALSE /\ s_was_apsta = FALSE
  /\ starts = 0 /\ configs = 0 /\ aps = 0
  /\ caught = FALSE /\ mixed = FALSE /\ dormant = FALSE /\ stale = FALSE
  /\ missed = FALSE /\ fault = FALSE

-----------------------------------------------------------------------------
(* The driver, which is the library's.  It keeps its mode over a stop, and *)
(* a second initialization changes nothing.                                *)

HasSta(m) == m \in {"STA", "APSTA"}
StaUp == started /\ HasSta(mode)
ApUp  == started /\ mode \in {"AP", "APSTA"}

(* event_handler is registered with the network interface.                 *)
Post(e) == IF g_wifi_netif THEN Append(events, e) ELSE events

(* The mode becomes m and the driver is on or off; then, with conn, a      *)
(* station that is idle is told to connect.  A station that connects when  *)
(* it is shut down may report that or not.                                 *)
Drive(m, on, conn) ==
  LET up == on /\ HasSta(m)
  IN  /\ mode' = m /\ started' = on
      /\ sta' = IF ~up THEN "idle"
                ELSE IF conn /\ sta = "idle" THEN "connecting" ELSE sta
      /\ \/ /\ up = StaUp \/ (~up /\ sta # "up")
            /\ events' = events
         \/ /\ up /\ ~StaUp
            /\ events' = Post("STA_START")
         \/ /\ ~up /\ sta # "idle"
            /\ events' = Post("STA_DISCONNECTED")

esp_wifi_connect ==
  sta' = IF StaUp /\ sta = "idle" THEN "connecting" ELSE sta

Associate ==
  /\ sta = "connecting" /\ net
  /\ sta' = "up" /\ events' = Post("STA_GOT_IP")
  /\ UNCHANGED <<appVars, groupVars, flagVars, init, confVars, ctl,
                 mode, started, netVars, fotaVars, countVars,
                 history, fault>>

LoseStation ==
  /\ sta # "idle" /\ ~net
  /\ sta' = "idle" /\ events' = Post("STA_DISCONNECTED")
  /\ UNCHANGED <<appVars, groupVars, flagVars, init, confVars, ctl,
                 mode, started, netVars, fotaVars, countVars,
                 history, fault>>

Network ==
  /\ \/ net /\ drops < MaxDrops /\ net' = FALSE /\ drops' = drops + 1
     \/ ~net /\ net' = TRUE /\ UNCHANGED drops
  /\ UNCHANGED <<appVars, groupVars, flagVars, init, confVars, ctl,
                 drvVars, fotaVars, countVars, history, fault>>

-----------------------------------------------------------------------------
(* event_handler                                                           *)

StationStarted ==
  /\ Head(events) = "STA_START"
  /\ esp_wifi_connect
  /\ UNCHANGED <<bits, flagVars, missed, fault>>

(* Mutant: the flag stays.                                                 *)
MutantDown == s_wifi_connected

Down == FALSE

(* New credentials are used, or the old ones are tried again; in the end   *)
(* the task that waits is told.  Under the access point none of this       *)
(* happens: a connect would take the radio from the LAN MCU.               *)
StationDisconnected ==
  /\ Head(events) = "STA_DISCONNECTED"
  /\ s_wifi_connected' = Down
  /\ s_reconnect_request' = FALSE
  /\ missed' = (missed \/ (s_fota_ap_running /\ fota = "clear"))
  /\ \/ /\ s_fota_ap_running
        /\ s_retry_num' = IF s_reconnect_request THEN 0 ELSE s_retry_num
        /\ UNCHANGED <<bits, sta, fault>>
     \/ /\ ~s_fota_ap_running /\ s_reconnect_request
        /\ s_retry_num' = 0
        /\ fault' = ~HasSta(mode)
        /\ esp_wifi_connect
        /\ UNCHANGED bits
     \/ /\ ~s_fota_ap_running /\ ~s_reconnect_request
        /\ s_retry_num < WIFI_ESP_MAXIMUM_RETRY
        /\ s_retry_num' = s_retry_num + 1
        /\ esp_wifi_connect
        /\ UNCHANGED <<bits, fault>>
     \/ /\ ~s_fota_ap_running /\ ~s_reconnect_request
        /\ s_retry_num >= WIFI_ESP_MAXIMUM_RETRY
        /\ fault' = ~s_wifi_event_group
        /\ bits' = bits \cup {"FAIL"}
        /\ UNCHANGED <<s_retry_num, sta>>

StationGotIp ==
  /\ Head(events) = "STA_GOT_IP"
  /\ s_retry_num' = 0 /\ s_wifi_connected' = TRUE
  /\ fault' = ~s_wifi_event_group
  /\ bits' = bits \cup {"CONNECTED"}
  /\ UNCHANGED <<s_reconnect_request, sta, missed>>

event_handler ==
  /\ events # <<>> /\ events' = Tail(events)
  /\ StationStarted \/ StationDisconnected \/ StationGotIp
  /\ UNCHANGED <<appVars, s_wifi_event_group, init, confVars, ctl,
                 mode, started, netVars, fotaVars, countVars,
                 caught, mixed, dormant, stale>>

-----------------------------------------------------------------------------
(* wifi_connect_init_task of start i: wifi_init_sta, and the second task.  *)

InitGoto(i, p) == init' = [init EXCEPT ![i] = p]

(* Mutant: the event group that a stop deleted is not made again.          *)
MutantGroup == s_wifi_event_group \/ ~g_wifi_netif

Group == TRUE

(* A stack that is there is used again.                                    *)
InitNetif(i) ==
  /\ init[i] = "netif"
  /\ InitGoto(i, IF g_wifi_netif THEN "config" ELSE "driver")
  /\ s_wifi_event_group' = Group /\ g_wifi_netif' = TRUE
  /\ UNCHANGED <<wifi_connect_task_close, bits, flagVars, drvVars, confVars,
                 stale, fault>>

(* The driver, its mode, its start, and a wait for the outcome, unless     *)
(* enterprise settings or the mutex fail.                                  *)
InitDriver(i) ==
  /\ init[i] \in {"driver", "config"}
  /\ \/ /\ init[i] = "config" /\ mode = "NULL"
        /\ fault' = TRUE
        /\ UNCHANGED <<init, drvVars>>
     \/ /\ init[i] = "driver" \/ mode # "NULL"
        /\ Drive("STA", TRUE, FALSE)
        /\ fault' = ~s_wifi_event_group
        /\ InitGoto(i, "waiting")
     \/ /\ init[i] = "driver" \/ mode # "NULL"
        /\ Drive("STA", started, FALSE)
        /\ InitGoto(i, "spawn")
        /\ UNCHANGED fault
  /\ UNCHANGED <<appVars, groupVars, flagVars, stale, confVars>>

InitWoken(i) ==
  /\ init[i] = "waiting" /\ bits # {}
  /\ InitGoto(i, IF "CONNECTED" \in bits THEN "mark" ELSE "spawn")
  /\ UNCHANGED <<appVars, groupVars, flagVars, drvVars, confVars,
                 stale, fault>>

(* The second task, for which memory may be missing.                       *)
Spawn(i) ==
  \/ ~wifi_connect_task_close /\ conf' = [conf EXCEPT ![i] = "loop"]
  \/ UNCHANGED conf

(* What the event said may be over.                                        *)
InitMark(i) ==
  /\ init[i] = "mark"
  /\ s_wifi_connected' = TRUE
  /\ stale' = (stale \/ ~s_wifi_connected)
  /\ InitGoto(i, "done") /\ Spawn(i)
  /\ UNCHANGED <<appVars, groupVars, s_retry_num, s_reconnect_request,
                 drvVars, fault, g_wifi_config_queue>>

InitSpawn(i) ==
  /\ init[i] = "spawn"
  /\ InitGoto(i, "done") /\ Spawn(i)
  /\ UNCHANGED <<appVars, groupVars, flagVars, drvVars, stale, fault,
                 g_wifi_config_queue>>

wifi_connect_init_task(i) ==
  /\ \/ InitNetif(i) \/ InitDriver(i)
     \/ InitWoken(i) \/ InitMark(i) \/ InitSpawn(i)
  /\ UNCHANGED <<ctl, netVars, fotaVars, countVars, caught, mixed,
                 dormant, missed>>

-----------------------------------------------------------------------------
(* wifi_config_task.  Credentials of a wrong length, or for which the      *)
(* mutex is missing, are dropped.                                          *)

ConfReceive(i) ==
  /\ conf[i] = "loop" /\ g_wifi_config_queue > 0
  /\ g_wifi_config_queue' = g_wifi_config_queue - 1
  /\ \E p \in {"loop", "flag"} : conf' = [conf EXCEPT ![i] = p]
  /\ UNCHANGED <<s_reconnect_request, sta, events>>

ConfFlag(i) ==
  /\ conf[i] = "flag"
  /\ s_reconnect_request' = TRUE
  /\ conf' = [conf EXCEPT ![i] = "disconnect"]
  /\ UNCHANGED <<g_wifi_config_queue, sta, events>>

(* Without a connection the next attempt is to take the credentials.       *)
ConfDisconnect(i) ==
  /\ conf[i] = "disconnect"
  /\ conf' = [conf EXCEPT ![i] = "loop"]
  /\ IF s_wifi_connected /\ sta = "up"
       THEN sta' = "idle" /\ events' = Post("STA_DISCONNECTED")
       ELSE UNCHANGED <<sta, events>>
  /\ UNCHANGED <<g_wifi_config_queue, s_reconnect_request>>

ConfExit(i) ==
  /\ conf[i] = "loop" /\ wifi_connect_task_close
  /\ conf' = [conf EXCEPT ![i] = "done"]
  /\ UNCHANGED <<g_wifi_config_queue, s_reconnect_request, sta, events>>

wifi_config_task(i) ==
  /\ ConfReceive(i) \/ ConfFlag(i) \/ ConfDisconnect(i) \/ ConfExit(i)
  /\ UNCHANGED <<appVars, groupVars, s_retry_num, s_wifi_connected, init,
                 ctl, mode, started, netVars, fotaVars,
                 countVars, history, fault>>

(* The configuration handler saves new credentials and sends them.         *)
SendConfig ==
  /\ configs < MaxConfigs /\ configs' = configs + 1
  /\ g_wifi_config_queue' = g_wifi_config_queue + 1
  /\ UNCHANGED <<appVars, groupVars, flagVars, init, conf, ctl,
                 drvVars, netVars, fotaVars, starts, aps,
                 history, fault>>

-----------------------------------------------------------------------------
(* Start and stop.                                                         *)

(* A starting task has not come to its wait.                               *)
UnderWay ==
  \E i \in Starts : init[i] \in {"netif", "driver", "config"}

FotaBusy == fota # "idle" \/ s_fota_ap_running

(* The task may not be created.                                            *)
wifi_connect_task_start ==
  /\ ctl = "idle" /\ starts < MaxStarts
  /\ starts = 0 \/ wifi_connect_task_close
  /\ starts' = starts + 1
  /\ wifi_connect_task_close' = FALSE
  /\ \E p \in {"netif", "done"} : InitGoto(starts', p)
  /\ mixed' = (mixed \/ FotaBusy)
  /\ UNCHANGED <<g_wifi_netif, groupVars, flagVars, confVars, ctl,
                 drvVars, netVars, fotaVars, configs, aps,
                 caught, dormant, stale, missed, fault>>

(* wifi_connect_task_stop: without a network interface there is nothing to *)
(* stop ...                                                                *)
StopFlag ==
  /\ ctl = "idle" /\ ~wifi_connect_task_close
  /\ wifi_connect_task_close' = TRUE
  /\ ctl' = IF g_wifi_netif THEN "stop" ELSE "idle"
  /\ mixed' = (mixed \/ FotaBusy) /\ caught' = (caught \/ UnderWay)
  /\ UNCHANGED <<g_wifi_netif, groupVars, flagVars, init, confVars,
                 drvVars, netVars, fotaVars, countVars, dormant,
                 stale, missed, fault>>

(* ... the driver ...                                                      *)
StopDriver ==
  /\ ctl = "stop"
  /\ IF mode = "NULL"
       THEN fault' = TRUE /\ UNCHANGED <<ctl, drvVars>>
       ELSE Drive(mode, FALSE, FALSE) /\ ctl' = "delete" /\ UNCHANGED fault
  /\ UNCHANGED <<appVars, groupVars, flagVars, init, confVars,
                 netVars, fotaVars, countVars, history>>

(* ... and the event group, whose waiters return without a bit.            *)
StopDelete ==
  /\ ctl = "delete"
  /\ ctl' = "idle"
  /\ s_wifi_event_group' = FALSE /\ bits' = {}
  /\ init' = [i \in Starts |-> IF init[i] = "waiting" THEN "spawn"
                                                     ELSE init[i]]
  /\ caught' = (caught \/ events # <<>> \/ UnderWay)
  /\ UNCHANGED <<appVars, flagVars, confVars, drvVars, netVars, fotaVars,
                 countVars, mixed, dormant, stale, missed, fault>>

-----------------------------------------------------------------------------
(* fota_ap_start reads the mode ...                                        *)
FotaMode ==
  /\ fota = "idle" /\ ~s_fota_ap_running /\ aps < MaxAps
  /\ aps' = aps + 1
  /\ seen' = mode /\ fota' = "enable"
  /\ mixed' = (mixed \/ ctl # "idle" \/ UnderWay)
  /\ dormant' = (dormant \/ (mode # "NULL" /\ ~started))
  /\ UNCHANGED <<appVars, groupVars, flagVars, init, confVars, ctl,
                 drvVars, netVars, s_fota_ap_running,
                 s_was_apsta, starts, configs, caught, stale, missed,
                 fault>>

(* The access point is added to the station, or is the only one.           *)
ModeWithAp ==
  CASE seen = "STA"  -> "APSTA"
    [] seen = "NULL" -> "AP"
    [] OTHER         -> mode

(* Mutant: the driver is not started.                                      *)
MutantDriverOn == started

DriverOn == started \/ seen = "NULL"

(* ... sets it, after an initialization for which there may be no memory;  *)
(* a mode that has changed meanwhile fails a check ...                     *)
FotaEnable ==
  /\ fota = "enable" /\ seen' = "NULL"
  /\ \/ /\ Drive(ModeWithAp, DriverOn, FALSE)
        /\ fault' = \/ seen # "NULL" /\ mode = "NULL"
                    \/ mode' \notin {"AP", "APSTA"}
        /\ s_was_apsta' = (seen \in {"STA", "APSTA"})
        /\ fota' = "wait"
     \/ /\ seen = "NULL" /\ mode = "NULL"
        /\ fota' = "idle"
        /\ UNCHANGED <<drvVars, s_was_apsta, fault>>
  /\ UNCHANGED <<appVars, groupVars, flagVars, init, confVars, ctl, netVars,
                 s_fota_ap_running, countVars, history>>

(* ... waits up to 2 s for it and, whatever came of that, is running.      *)
FotaUp ==
  /\ fota = "wait" /\ fota' = "idle"
  /\ s_fota_ap_running' = TRUE
  /\ UNCHANGED <<appVars, groupVars, flagVars, init, confVars, ctl,
                 drvVars, netVars, seen, s_was_apsta, countVars,
                 history, fault>>

(* Mutant: the station is left alone.                                      *)
MutantKick == FALSE

Kick == TRUE

(* fota_ap_stop: back to the station, which is told to connect, or the     *)
(* driver is shut down; the flag comes last.                               *)
FotaStop ==
  /\ fota = "idle" /\ s_fota_ap_running
  /\ fota' = "clear"
  /\ \/ s_was_apsta /\ mode # "NULL" /\ Drive("STA", started, Kick)
     \/ s_was_apsta /\ mode = "NULL" /\ UNCHANGED drvVars
     \/ ~s_was_apsta /\ Drive("NULL", FALSE, FALSE)
  /\ UNCHANGED <<appVars, groupVars, flagVars, init, confVars, ctl,
                 netVars, seen, s_fota_ap_running, s_was_apsta,
                 countVars, history, fault>>

FotaClear ==
  /\ fota = "clear" /\ fota' = "idle"
  /\ s_fota_ap_running' = FALSE /\ s_was_apsta' = FALSE
  /\ UNCHANGED <<appVars, groupVars, flagVars, init, confVars, ctl,
                 drvVars, netVars, seen, countVars, history,
                 fault>>

-----------------------------------------------------------------------------
Stopping == StopDriver \/ StopDelete
Opening  == FotaEnable \/ FotaUp \/ FotaClear

Next ==
  \/ /\ ~fault
     /\ \/ Associate \/ LoseStation \/ Network \/ event_handler
        \/ \E i \in Starts : wifi_connect_init_task(i) \/ wifi_config_task(i)
        \/ SendConfig \/ wifi_connect_task_start \/ StopFlag
        \/ Stopping \/ FotaMode \/ Opening \/ FotaStop
  \/ fault /\ UNCHANGED vars

Spec == Init /\ [][Next]_vars

(* The tasks, the event loop and the driver run.                           *)
FairSpec ==
  /\ Spec
  /\ WF_vars(~fault /\ (Associate \/ LoseStation))
  /\ WF_vars(~fault /\ event_handler)
  /\ \A i \in Starts : /\ WF_vars(~fault /\ wifi_connect_init_task(i))
                       /\ WF_vars(~fault /\ wifi_config_task(i))
  /\ WF_vars(~fault /\ Stopping)
  /\ WF_vars(~fault /\ Opening)

-----------------------------------------------------------------------------
(* Properties.                                                             *)

(* A missing event group is used, and a check of the driver's answer       *)
(* fails, only if a stop came while a task was on its way to the group or  *)
(* events were, or if the connection changed beside the access point.      *)
FaultNeedsCause == fault => caught \/ mixed

(* wifi_get_connection_status tells the truth once the events are handled, *)
(* unless the starting task overwrote a loss with the connection before.   *)
StatusIsTrue ==
  /\ events = <<>> /\ ~stale
  /\ \A i \in Starts : init[i] # "mark"
  => s_wifi_connected = (sta = "up")

(* An access point that is reported as running is on the air, unless the   *)
(* connection changed beside it, or it found a driver that a stop of the   *)
(* station had left behind.                                                *)
RunningApServes ==
  s_fota_ap_running /\ fota = "idle" /\ ~mixed /\ ~dormant => ApUp

(* A station that is not connected has been told to connect, or will be by *)
(* an event that is waiting, except while the access point is open or      *)
(* after the last retry: losses that were ignored for the sake of the      *)
(* access point are made up for when it is closed, unless one came just    *)
(* before the flag was cleared.                                            *)
IdleHasCause ==
  /\ StaUp /\ sta = "idle" /\ events = <<>>
  /\ ~s_fota_ap_running /\ fota = "idle" /\ ~missed
  => s_retry_num >= WIFI_ESP_MAXIMUM_RETRY

(* "WiFi not connected, will connect on next attempt": new credentials are *)
(* taken up.                                                               *)
CredentialsTakenUp ==
  s_reconnect_request ~>
    (~s_reconnect_request \/ ~StaUp \/ wifi_connect_task_close \/ fault)

(* "WiFi was not running (LTE / Ethernet case) - bring it up as AP".       *)
ApComesUp == s_fota_ap_running /\ fota = "idle" /\ ~mixed => ApUp
=============================================================================
