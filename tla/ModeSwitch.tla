----------------------------- MODULE ModeSwitch -----------------------------
(***************************************************************************)
(* The main event loop (DA2_esp.c) with the tasks it competes with: the    *)
(* internet monitor, the config task when it changes the server type, and  *)
(* whoever starts an update of this MCU.                                   *)
(*                                                                         *)
(* The button and the UART command reach the main task through its one     *)
(* notification value, which a later notification overwrites.  CONFIG mode *)
(* is left by a restart of the MCU.  A start or stop of the web server is  *)
(* one step, as if httpd_start and httpd_stop were atomic.                 *)
(***************************************************************************)
EXTENDS InternetMonitor

CONSTANTS
  CONFIG_INTERNET_WIFI,
  Buttons            \* the buttons that may be pressed

ASSUME PrimaryAssumption == g_internet_type # CONFIG_INTERNET_LTE
ASSUME ButtonsAssumption == Buttons \subseteq {"button", "gpio3"}

VARIABLES
  main,            \* control point of app_main
  notif,           \* its notification value
  by_uart,         \* the notification it handles
  requested_mode,  \* -1, 0 = CONFIG or 1 = NORMAL
  uart,            \* the mode callback in the UART task: "idle" or "notify"
  current_mode,
  ap,              \* the access point of CONFIG mode is up
  battery_source_enabled,
  cfg, new_type,   \* the config task in an SV command
  mon_at_stop,     \* history: where the monitor was when it was stopped
  portal_lost,     \* history: the portal did not start, or was stopped
  sv_race          \* history: the monitor started a server within an SV

mainVars == <<main, notif, by_uart, requested_mode, uart, current_mode, ap,
              battery_source_enabled, mon_at_stop, portal_lost>>
cfgVars == <<cfg, new_type, sv_race>>
batVars == <<battery_source_enabled, cfgVars>>
histVars == <<mon_at_stop, portal_lost>>
allVars == <<vars, mainVars, cfgVars>>

Points == {"wait", "monitor", "server", "web", "ap", "portal", "active",
           "restart"}

(* The values every variable may take.                                     *)
ModeTypeOK ==
  /\ TypeOK
  /\ main \in Points
  /\ notif \in {"none", "button", "uart", "gpio3"}
  /\ by_uart \in BOOLEAN
  /\ requested_mode \in {-1, 0, 1}
  /\ uart \in {"idle", "notify"}
  /\ current_mode \in {"NORMAL", "CONFIG"}
  /\ ap \in BOOLEAN
  /\ battery_source_enabled \in BOOLEAN
  /\ cfg \in {"idle", "set", "start"}
  /\ new_type \in Servers
  /\ mon_at_stop \in MonitorPoints
  /\ portal_lost \in BOOLEAN
  /\ sv_race \in BOOLEAN

ModeInit ==
  /\ Init
  /\ main = "wait" /\ notif = "none" /\ by_uart = FALSE
  /\ requested_mode = -1 /\ uart = "idle"
  /\ current_mode = "NORMAL" /\ ap = FALSE
  /\ battery_source_enabled = TRUE
  /\ cfg = "idle" /\ new_type = g_server_type
  /\ mon_at_stop = mon /\ portal_lost = FALSE
  /\ sv_race = FALSE

-----------------------------------------------------------------------------
(* Notifications.  The debounced GPIO0 and GPIO3 buttons.                  *)
debounce_callback(b) ==
  /\ notif' = b
  /\ UNCHANGED <<main, by_uart, requested_mode, uart, current_mode, ap,
                 histVars, batVars, vars>>

uart_mode_switch_callback ==
  \/ /\ uart = "idle"
     /\ requested_mode' \in {0, 1}
     /\ uart' = "notify"
     /\ UNCHANGED <<main, notif, by_uart, current_mode, ap, histVars,
                    batVars, vars>>
  \/ /\ uart = "notify"
     /\ notif' = "uart"
     /\ uart' = "idle"
     /\ UNCHANGED <<main, by_uart, requested_mode, current_mode, ap,
                    histVars, batVars, vars>>

(* The main task takes its notification value and chooses what to do.      *)
(* switch_to_config_mode and switch_to_normal_mode return at once when the *)
(* mode is already that one; after a UART request requested_mode is reset. *)
(* GPIO3 toggles the battery source and the rails that follow it.          *)
xTaskNotifyWait ==
  LET ToConfig == \/ notif = "button" /\ current_mode = "NORMAL"
                  \/ notif = "uart" /\ requested_mode = 0
                                    /\ current_mode = "NORMAL"
      ToNormal == \/ notif = "button" /\ current_mode = "CONFIG"
                  \/ notif = "uart" /\ requested_mode = 1
                                    /\ current_mode = "CONFIG"
  IN  /\ main = "wait" /\ notif # "none"
      /\ notif' = "none"
      /\ main' = IF ToConfig THEN "monitor"
                 ELSE IF ToNormal THEN "restart" ELSE "wait"
      /\ by_uart' = (notif = "uart" /\ main' # "wait")
      /\ requested_mode' = IF notif = "uart" /\ main' = "wait"
                             THEN -1 ELSE requested_mode
      /\ battery_source_enabled' = (battery_source_enabled # (notif = "gpio3"))
      /\ UNCHANGED <<uart, current_mode, ap, histVars, cfgVars, vars>>

-----------------------------------------------------------------------------
(* switch_to_config_mode                                                   *)

StopMonitor ==
  /\ main = "monitor"
  /\ main' = "server"
  /\ \/ internet_monitor_task_stop
     \/ ~s_monitor_running /\ UNCHANGED vars
  /\ mon_at_stop' = mon
  /\ UNCHANGED <<notif, by_uart, requested_mode, uart, current_mode, ap,
                 portal_lost, batVars>>

server_connect_stop ==
  /\ main = "server"
  /\ main' = "web"
  /\ servers' = servers \ {g_server_type}
  /\ UNCHANGED <<notif, by_uart, requested_mode, uart, current_mode, ap,
                 histVars, batVars, monVars, netVars, web, g_server_type>>

(* Mutant: the STA server is left running.                                 *)
Mutant_web_config_handler_stop ==
  /\ main = "web"
  /\ main' = "ap"
  /\ UNCHANGED <<notif, by_uart, requested_mode, uart, current_mode, ap,
                 histVars, batVars, vars>>

(* web_config_handler_stop, and 500 ms.                                    *)
web_config_handler_stop ==
  /\ main = "web"
  /\ main' = "ap"
  /\ web' = "off"
  /\ UNCHANGED <<notif, by_uart, requested_mode, uart, current_mode, ap,
                 histVars, batVars, monVars, netVars, servers,
                 g_server_type>>

(* The WiFi station is torn down.  The driver may find no memory left when *)
(* something else still runs; then there is no access point.               *)
wifi_ap_start ==
  /\ main = "ap"
  /\ main' = "portal"
  /\ stop_connection(CONFIG_INTERNET_WIFI)
  /\ \/ ap' = TRUE
     \/ conns' \cup servers # {} /\ ap' = FALSE
  /\ UNCHANGED <<notif, by_uart, requested_mode, uart, current_mode,
                 histVars, batVars, mon, s_monitor_running, s_on_fallback,
                 s_services_started, fail_count, recover_count, netVars,
                 srvVars>>

(* web_config_handler_start(WEB_MODE_AP) does nothing when a server runs,  *)
(* and may fail, which is ignored; captive_dns_start.                      *)
StartPortal ==
  /\ main = "portal"
  /\ main' = "active"
  /\ web' \in (IF web = "off" THEN {"AP", "off"} ELSE {web})
  /\ portal_lost' = (portal_lost \/ web' = "off")
  /\ UNCHANGED <<notif, by_uart, requested_mode, uart, current_mode, ap,
                 mon_at_stop, batVars, monVars, netVars, servers,
                 g_server_type>>

ConfigActive ==
  /\ main = "active"
  /\ main' = "wait"
  /\ current_mode' = "CONFIG"
  /\ requested_mode' = IF by_uart THEN -1 ELSE requested_mode
  /\ by_uart' = FALSE
  /\ UNCHANGED <<notif, uart, ap, histVars, batVars, vars>>

(* The MCU boots again; the server type is in NVS.                         *)
Boot ==
  /\ mon' = "gate" /\ s_monitor_running' = TRUE
  /\ s_on_fallback' = FALSE /\ s_services_started' = FALSE
  /\ fail_count' = 0 /\ recover_count' = 0
  /\ conns' = {g_internet_type} \cap Startable
  /\ sntp_started' = {} /\ sntp_cb' = {} /\ g_lte_sntp_synced' = FALSE
  /\ web' = "off" /\ servers' = {}
  /\ main' = "wait" /\ notif' = "none" /\ by_uart' = FALSE
  /\ requested_mode' = -1 /\ uart' = "idle"
  /\ current_mode' = "NORMAL" /\ ap' = FALSE
  /\ battery_source_enabled' = TRUE
  /\ cfg' = "idle" /\ new_type' = g_server_type
  /\ mon_at_stop' = "gate" /\ portal_lost' = FALSE
  /\ sv_race' = FALSE
  /\ UNCHANGED <<link, reach, g_server_type>>

(* switch_to_normal_mode.                                                  *)
esp_restart == main = "restart" /\ Boot

Main ==
  \/ xTaskNotifyWait \/ StopMonitor \/ server_connect_stop
  \/ web_config_handler_stop \/ wifi_ap_start \/ StartPortal \/ ConfigActive
  \/ esp_restart

-----------------------------------------------------------------------------
(* Mutant: the new type is set before the old server is stopped.           *)
MutantSvStop(type) ==
  /\ cfg = "idle"
  /\ type # g_server_type
  /\ cfg' = "set" /\ new_type' = type
  /\ servers' = servers \ {type}
  /\ UNCHANGED <<sv_race, mainVars, monVars, netVars, web, g_server_type>>

(* The config task: SV with a type other than the present one.             *)
SvStop(type) ==
  /\ cfg = "idle"
  /\ type # g_server_type
  /\ cfg' = "set" /\ new_type' = type
  /\ servers' = servers \ {g_server_type}
  /\ UNCHANGED <<sv_race, mainVars, monVars, netVars, web, g_server_type>>

(* The new type is set and saved; 500 ms.                                  *)
SvSet ==
  /\ cfg = "set"
  /\ cfg' = "start"
  /\ g_server_type' = new_type
  /\ UNCHANGED <<new_type, sv_race, mainVars, monVars, netVars, web, servers>>

SvStart ==
  /\ cfg = "start"
  /\ cfg' = "idle"
  /\ servers' = servers \cup {g_server_type}
  /\ UNCHANGED <<new_type, sv_race, mainVars, monVars, netVars, web,
                 g_server_type>>

SetServer == (\E t \in Servers : SvStop(t)) \/ SvSet \/ SvStart

(* fota_handler_task_start, for an FW command in the config task or for a  *)
(* handshake in the uplink task: in either mode it stops the web server to *)
(* free its memory.                                                        *)
fota_handler_task_start ==
  /\ web' = "off"
  /\ portal_lost' = (portal_lost \/ web = "AP")
  /\ UNCHANGED <<main, notif, by_uart, requested_mode, uart, current_mode, ap,
                 mon_at_stop, batVars, monVars, netVars, servers,
                 g_server_type>>

(* An update ends in a restart, whether it succeeds or not, and so does an *)
(* IN command: no mode or step of another task holds it back.              *)
RestartByOther == Boot

(* The monitor and the network, as in InternetMonitor.  SNTP is left out:  *)
(* the monitor looks at it only when LTE is the primary connection.        *)
MonitorStep ==
  /\ Monitor
  /\ sv_race' = (sv_race \/ (cfg = "set" /\ mon = "server"))
  /\ UNCHANGED <<mainVars, cfg, new_type>>

NetworkStep ==
  /\ \E c \in Types : NetworkChange(c)
  /\ UNCHANGED <<mainVars, cfgVars>>

ModeNext ==
  \/ \E b \in Buttons : debounce_callback(b)
  \/ uart_mode_switch_callback
  \/ Main \/ SetServer \/ fota_handler_task_start \/ RestartByOther
  \/ MonitorStep \/ NetworkStep

ModeSpec == ModeInit /\ [][ModeNext]_allVars

-----------------------------------------------------------------------------
(* Properties.                                                             *)

(* In CONFIG mode the web server is the portal of the access point, unless *)
(* the monitor was just about to start the STA server when it was stopped, *)
(* the portal could not start or an update of this MCU has stopped it.     *)
PortalUnlessRace ==
  current_mode = "CONFIG" /\ mon_at_stop # "web" /\ ~portal_lost => web = "AP"

(* The monitor starts no WiFi station under the access point, unless it    *)
(* was stopped in a probe or between the two halves of a fail-over.        *)
NoStationUnlessRace ==
  ap /\ mon_at_stop \notin {"probe", "stopped"}
    => CONFIG_INTERNET_WIFI \notin conns

(* The SV command stops one server and starts another, half a second       *)
(* apart; the monitor starts the server of its own startup gate.  At most  *)
(* one server runs, unless the monitor started the old one in between.     *)
OneServerUnlessRace == Cardinality(servers) > 1 => sv_race

(* "it must be torn down before we can start the AP portal": CONFIG mode   *)
(* serves the portal of the access point.                                  *)
PortalIsAp == current_mode = "CONFIG" => web = "AP"

(* "IMPORTANT: Stop all running server handlers and the active internet    *)
(* connection BEFORE starting WiFi AP."                                    *)
StoppedBeforeAp ==
  [][main = "ap" /\ main' = "portal" => conns' = {} /\ servers = {}]_allVars
=============================================================================
