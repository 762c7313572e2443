-------------------------- MODULE ModeSwitchProofs --------------------------
(***************************************************************************)
(* Proofs for InternetMonitor and for ModeSwitch, which is built on it,    *)
(* for every set of connection types, every primary and fallback among     *)
(* them, every server, every threshold and every set of buttons; and, in   *)
(* the last part, for LteLink, the connection that the monitor starts and  *)
(* stops, for any number of starts, new settings and losses of the link.   *)
(***************************************************************************)
EXTENDS ModeSwitch, LteLink, FiniteSetTheorems, TLAPS

-----------------------------------------------------------------------------
(* The monitor by itself.                                                  *)

(* A counter is at its threshold only inside the switch it starts.         *)
Counters ==
  /\ mon # "stopped" => fail_count < INTERNET_MONITOR_FAIL_THRESHOLD
  /\ mon \notin {"restore", "decide"}
       => recover_count < INTERNET_MONITOR_RECOVER_THRESHOLD

(* What is started at each point of the task.                              *)
Started ==
  g_internet_type # g_internet_fallback_type =>
    conns = Startable \cap
      (IF mon = "stopped" THEN {}
       ELSE IF mon \in {"restore", "decide"}
         THEN {g_internet_type, g_internet_fallback_type}
       ELSE IF s_on_fallback THEN {g_internet_fallback_type}
       ELSE {g_internet_type})

(* The switch to the fallback is made on the primary connection, the       *)
(* attempt to leave it on the fallback.                                    *)
Sides ==
  /\ mon = "stopped" => ~s_on_fallback
  /\ mon \in {"restore", "decide"} => s_on_fallback

(* The monitor's inductive invariant.                                      *)
MonitorInv == TypeOK /\ Counters /\ Started /\ Sides

-----------------------------------------------------------------------------
(* The counters start in their ranges.                                     *)
LEMMA ZeroInRange ==
  /\ 0 \in 0..INTERNET_MONITOR_FAIL_THRESHOLD
  /\ 0 \in 0..INTERNET_MONITOR_RECOVER_THRESHOLD
  BY ThresholdAssumption

(* app_main establishes the invariant.                                     *)
LEMMA MonitorInitInv == Init => MonitorInv
<1> SUFFICES ASSUME Init PROVE MonitorInv
  OBVIOUS
<1>1. TypeOK
  BY TypesAssumption, ZeroInRange, Zenon DEF Init, TypeOK, MonitorPoints
<1>2. Counters
  BY ThresholdAssumption DEF Init, Counters
<1>3. Started
  BY DEF Init, Started
<1>4. Sides
  BY DEF Init, Sides
<1> QED BY <1>1, <1>2, <1>3, <1>4 DEF MonitorInv

(* The steps that move the task without touching a counter or connection.  *)
LEMMA QuietSteps ==
  ASSUME MonitorInv,
         \/ Gate \/ StartWeb \/ start_server_by_type \/ AfterGate \/ Delay
         \/ RestoreDelay
  PROVE  MonitorInv'
<1> USE DEF MonitorInv, monVars, netVars, sntpVars, srvVars
<1>1. TypeOK'
  BY DEF TypeOK, MonitorPoints, Gate, StartWeb, start_server_by_type,
         AfterGate, Delay, RestoreDelay
<1>2. Counters'
  BY DEF Counters, Gate, StartWeb, start_server_by_type, AfterGate, Delay,
         RestoreDelay
<1>3. Started'
  BY DEF Started, Gate, StartWeb, start_server_by_type, AfterGate, Delay,
         RestoreDelay
<1>4. Sides'
  BY DEF Sides, Gate, StartWeb, start_server_by_type, AfterGate, Delay,
         RestoreDelay
<1> QED BY <1>1, <1>2, <1>3, <1>4

(* A probe counts, and at the threshold stops the primary connection or    *)
(* starts it next to the fallback.                                         *)
LEMMA ProbeStep == MonitorInv /\ Probe => MonitorInv'
<1> SUFFICES ASSUME MonitorInv, Probe PROVE MonitorInv'
  OBVIOUS
<1> USE DEF MonitorInv
<1>1. PICK ok \in BOOLEAN :
        \/ ~s_on_fallback /\ ProbePrimary(ok) /\ UNCHANGED recover_count
        \/ s_on_fallback /\ ProbeFallback(ok) /\ UNCHANGED fail_count
  BY DEF Probe
<1>2. /\ mon = "probe"
      /\ UNCHANGED <<s_monitor_running, s_on_fallback, s_services_started,
                     link, reach, sntp_started, sntp_cb, g_lte_sntp_synced,
                     web, servers, g_server_type>>
  BY DEF Probe, netVars, sntpVars, srvVars
<1>3. /\ fail_count \in Nat /\ recover_count \in Nat
      /\ fail_count < INTERNET_MONITOR_FAIL_THRESHOLD
      /\ recover_count < INTERNET_MONITOR_RECOVER_THRESHOLD
  BY <1>2, ThresholdAssumption DEF TypeOK, Counters
<1>4. CASE ~s_on_fallback /\ ProbePrimary(ok) /\ UNCHANGED recover_count
  <2>1. TypeOK'
    BY <1>2, <1>3, <1>4, ThresholdAssumption
    DEF TypeOK, MonitorPoints, ProbePrimary, stop_connection
  <2>2. Counters'
    BY <1>2, <1>3, <1>4, ThresholdAssumption DEF Counters, ProbePrimary
  <2>3. Started'
    BY <1>2, <1>4 DEF Started, ProbePrimary, stop_connection
  <2>4. Sides'
    BY <1>2, <1>4 DEF Sides, ProbePrimary
  <2> QED BY <2>1, <2>2, <2>3, <2>4
<1>5. CASE s_on_fallback /\ ProbeFallback(ok) /\ UNCHANGED fail_count
  <2>1. TypeOK'
    BY <1>2, <1>3, <1>5, ThresholdAssumption, TypesAssumption
    DEF TypeOK, MonitorPoints, ProbeFallback, start_connection
  <2>2. Counters'
    BY <1>2, <1>3, <1>5, ThresholdAssumption DEF Counters, ProbeFallback
  <2>3. Started'
    BY <1>2, <1>5 DEF Started, ProbeFallback, start_connection
  <2>4. Sides'
    BY <1>2, <1>5 DEF Sides, ProbeFallback
  <2> QED BY <2>1, <2>2, <2>3, <2>4
<1> QED BY <1>1, <1>4, <1>5

(* The second half of the fail-over.                                       *)
LEMMA StartFallbackStep == MonitorInv /\ StartFallback => MonitorInv'
<1> SUFFICES ASSUME MonitorInv, StartFallback PROVE MonitorInv'
  OBVIOUS
<1> USE DEF MonitorInv, StartFallback, netVars, sntpVars, srvVars
<1>1. TypeOK'
  BY TypesAssumption, ThresholdAssumption
  DEF TypeOK, MonitorPoints, start_connection
<1>2. Counters'
  BY ThresholdAssumption DEF Counters
<1>3. Started'
  BY DEF Started, start_connection
<1>4. Sides'
  BY DEF Sides
<1> QED BY <1>1, <1>2, <1>3, <1>4

(* One of the two connections is stopped.                                  *)
LEMMA DecideStep == MonitorInv /\ Decide => MonitorInv'
<1> SUFFICES ASSUME MonitorInv, Decide PROVE MonitorInv'
  OBVIOUS
<1> USE DEF MonitorInv
<1>1. /\ mon = "decide" /\ mon' = "sleep"
      /\ fail_count' = 0 /\ recover_count' = 0
      /\ UNCHANGED <<s_monitor_running, s_services_started, link, reach,
                     sntp_started, sntp_cb, g_lte_sntp_synced, web, servers,
                     g_server_type>>
      /\ \/ conns' = conns \ {g_internet_fallback_type} /\ s_on_fallback' = FALSE
         \/ conns' = conns \ {g_internet_type} /\ s_on_fallback' = s_on_fallback
  BY DEF Decide, stop_connection, netVars, sntpVars, srvVars
<1>2. TypeOK'
  BY <1>1, ZeroInRange DEF TypeOK, MonitorPoints
<1>3. Counters'
  BY <1>1, ThresholdAssumption DEF Counters
<1>4. Started'
  BY <1>1 DEF Started, Sides
<1>5. Sides'
  BY <1>1 DEF Sides
<1> QED BY <1>2, <1>3, <1>4, <1>5

(* internet_monitor_task_stop, the network and SNTP.                       *)
LEMMA OtherSteps ==
  ASSUME MonitorInv,
         \/ internet_monitor_task_stop \/ sync_notification
         \/ \E c \in Types : NetworkChange(c) \/ init_sntp(c)
  PROVE  MonitorInv'
<1> USE DEF MonitorInv, monVars, netVars, sntpVars, srvVars
<1>1. CASE internet_monitor_task_stop
  BY <1>1 DEF internet_monitor_task_stop, TypeOK, Counters, Started, Sides
<1>2. CASE sync_notification
  BY <1>2 DEF sync_notification, TypeOK, Counters, Started, Sides
<1>3. ASSUME NEW c \in Types, NetworkChange(c)
      PROVE  MonitorInv'
  <2>1. TypeOK'
    BY <1>3 DEF NetworkChange, TypeOK
  <2> QED BY <1>3, <2>1 DEF NetworkChange, Counters, Started, Sides
<1>4. ASSUME NEW c \in Types, init_sntp(c)
      PROVE  MonitorInv'
  BY <1>4 DEF init_sntp, TypeOK, Counters, Started, Sides
<1> QED BY <1>1, <1>2, <1>3, <1>4

(* Every step keeps the invariant.                                         *)
LEMMA MonitorNextInv == MonitorInv /\ [Next]_vars => MonitorInv'
<1> SUFFICES ASSUME MonitorInv, [Next]_vars PROVE MonitorInv'
  OBVIOUS
<1>1. CASE UNCHANGED vars
  BY <1>1 DEF vars, monVars, netVars, sntpVars, srvVars, MonitorInv, TypeOK,
              Counters, Started, Sides
<1>2. CASE Next
  BY <1>2, QuietSteps, ProbeStep, StartFallbackStep, DecideStep, OtherSteps
  DEF Next, Monitor
<1> QED BY <1>1, <1>2

-----------------------------------------------------------------------------
(* Type correctness; the two counters never pass their thresholds.         *)
THEOREM MonitorTypeCorrect == Spec => []TypeOK
<1>1. MonitorInv => TypeOK
  BY DEF MonitorInv
<1> QED BY <1>1, MonitorInitInv, MonitorNextInv, PTL DEF Spec

(* Between two switches exactly the connection the monitor believes in is  *)
(* started, whatever the network does and whenever the monitor is stopped. *)
THEOREM OneConnectionAlways == Spec => []OneConnection
<1>1. MonitorInv => OneConnection
  BY DEF MonitorInv, Started, OneConnection
<1> QED BY <1>1, MonitorInitInv, MonitorNextInv, PTL DEF Spec

-----------------------------------------------------------------------------
(* The main task and the configuration task around it.                     *)

(* The types of what ModeSwitch adds to the monitor.                       *)
ModeOK ==
  /\ main \in Points
  /\ notif \in {"none", "button", "uart", "gpio3"}
  /\ by_uart \in BOOLEAN
  /\ requested_mode \in {-1, 0, 1}
  /\ uart \in {"idle", "notify"}
  /\ current_mode \in {"NORMAL", "CONFIG"}
  /\ ap \in BOOLEAN
  /\ battery_source_enabled \in BOOLEAN
  /\ cfg \in {"idle", "set", "start"}
  /\ new_type \in Servers
  /\ mon_at_stop \in MonitorPoints
  /\ portal_lost \in BOOLEAN
  /\ sv_race \in BOOLEAN

(* The main task has stopped the monitor, and the MCU has not restarted.   *)
MonitorStopped ==
  main \in {"server", "web", "ap", "portal", "active"} \/ current_mode = "CONFIG"

(* A switch to CONFIG mode starts in NORMAL mode.  The monitor it stopped  *)
(* begins no probe and passes no gate any more.                            *)
Stopped ==
  /\ current_mode = "CONFIG" => main \in {"wait", "restart"}
  /\ ap => main \in {"portal", "active"} \/ current_mode = "CONFIG"
  /\ MonitorStopped =>
       /\ ~s_monitor_running
       /\ mon_at_stop # "web" => mon # "web"
       /\ mon_at_stop \notin {"probe", "stopped"}
            => mon \notin {"probe", "stopped"}

(* The web server at the points of the switch, unless the monitor had      *)
(* passed its gate and not yet started the STA server; the portal may not  *)
(* have started, and an update may have stopped it.                        *)
Portal ==
  mon_at_stop # "web" =>
    /\ main \in {"ap", "portal"} => web = "off"
    /\ (main = "active" \/ current_mode = "CONFIG") /\ ~portal_lost =>
         web = "AP"

(* The servers that run at the points of an SV command.                    *)
ServerOfType ==
  ~sv_race => IF cfg = "set" THEN servers = {} ELSE servers \subseteq {g_server_type}

(* The inductive invariant.                                                *)
Inv ==
  /\ TypeOK /\ ModeOK /\ Counters /\ Stopped /\ Portal /\ NoStationUnlessRace
  /\ ServerOfType

-----------------------------------------------------------------------------
(* The parts of the type invariant.                                        *)
LEMMA TypeParts == ModeTypeOK <=> TypeOK /\ ModeOK
  BY DEF ModeTypeOK, ModeOK

(* app_main establishes the invariant.                                     *)
LEMMA InitInv == ModeInit => Inv
<1> SUFFICES ASSUME ModeInit PROVE Inv
  OBVIOUS
<1> USE DEF ModeInit, Init
<1>1. TypeOK
  <2>1. /\ 0 \in 0..INTERNET_MONITOR_FAIL_THRESHOLD
        /\ 0 \in 0..INTERNET_MONITOR_RECOVER_THRESHOLD
    BY ThresholdAssumption
  <2> QED BY <2>1, TypesAssumption, Zenon DEF TypeOK, MonitorPoints
<1>2. ModeOK
  BY DEF ModeOK, Points, MonitorPoints
<1>3. Counters
  BY ThresholdAssumption DEF Counters
<1>4. Stopped /\ Portal /\ NoStationUnlessRace /\ ServerOfType
  BY DEF Stopped, MonitorStopped, Portal, NoStationUnlessRace, ServerOfType
<1> QED BY <1>1, <1>2, <1>3, <1>4 DEF Inv

(* Every step keeps the types of the monitor's variables.                  *)
LEMMA TypeStep ==
  ASSUME TypeOK, ModeOK, Counters, [ModeNext]_allVars PROVE TypeOK'
<1> USE DEF TypeOK, MonitorPoints, mainVars, cfgVars, batVars, histVars,
            vars, monVars, netVars, sntpVars, srvVars
<1>1. ASSUME NEW b \in Buttons, debounce_callback(b) PROVE TypeOK'
  BY <1>1 DEF debounce_callback
<1>2. CASE uart_mode_switch_callback
  BY <1>2 DEF uart_mode_switch_callback
<1>3. CASE xTaskNotifyWait
  BY <1>3 DEF xTaskNotifyWait
<1>4. CASE StopMonitor
  BY <1>4 DEF StopMonitor, internet_monitor_task_stop
<1>5. CASE server_connect_stop
  BY <1>5 DEF server_connect_stop
<1>6. CASE web_config_handler_stop
  BY <1>6 DEF web_config_handler_stop
<1>7. CASE wifi_ap_start
  BY <1>7 DEF wifi_ap_start, stop_connection
<1>8. CASE StartPortal
  BY <1>8 DEF StartPortal
<1>9. CASE ConfigActive
  BY <1>9 DEF ConfigActive
<1>10. CASE Boot
  <2>1. /\ fail_count' \in 0..INTERNET_MONITOR_FAIL_THRESHOLD
        /\ recover_count' \in 0..INTERNET_MONITOR_RECOVER_THRESHOLD
    BY <1>10, ThresholdAssumption DEF Boot
  <2>2. /\ link' \in [Types -> BOOLEAN] /\ reach' \in [Types -> BOOLEAN]
        /\ g_server_type' \in Servers
    BY <1>10 DEF Boot
  <2> QED BY <1>10, <2>1, <2>2, TypesAssumption, Zenon DEF Boot
<1>11. ASSUME NEW t \in Servers, SvStop(t) PROVE TypeOK'
  BY <1>11 DEF SvStop
<1>12. CASE SvSet
  BY <1>12 DEF SvSet, ModeOK
<1>13. CASE SvStart
  BY <1>13 DEF SvStart
<1>14. CASE MonitorStep /\ Gate
  BY <1>14 DEF MonitorStep, Gate
<1>15. CASE MonitorStep /\ StartWeb
  BY <1>15 DEF MonitorStep, StartWeb
<1>16. CASE MonitorStep /\ start_server_by_type
  BY <1>16 DEF MonitorStep, start_server_by_type
<1>17. CASE MonitorStep /\ AfterGate
  BY <1>17 DEF MonitorStep, AfterGate
<1>18. CASE MonitorStep /\ Delay
  BY <1>18 DEF MonitorStep, Delay
<1>19. CASE MonitorStep /\ Probe
  BY <1>19, TypesAssumption, ThresholdAssumption
  DEF MonitorStep, Probe, ProbePrimary, ProbeFallback, start_connection,
      stop_connection, Counters
<1>20. CASE MonitorStep /\ StartFallback
  BY <1>20, TypesAssumption, ThresholdAssumption
  DEF MonitorStep, StartFallback, start_connection
<1>21. CASE MonitorStep /\ RestoreDelay
  BY <1>21 DEF MonitorStep, RestoreDelay
<1>22. CASE MonitorStep /\ Decide
  <2>1. /\ mon' = "sleep" /\ fail_count' = 0 /\ recover_count' = 0
        /\ conns' \subseteq conns /\ s_on_fallback' \in BOOLEAN
        /\ UNCHANGED <<s_monitor_running, s_services_started, link, reach,
                       sntp_started, sntp_cb, g_lte_sntp_synced, web, servers,
                       g_server_type>>
    BY <1>22 DEF Decide, stop_connection
  <2> QED BY <2>1, ThresholdAssumption
<1>23. CASE NetworkStep
  <2>1. link' \in [Types -> BOOLEAN] /\ reach' \in [Types -> BOOLEAN]
    BY <1>23 DEF NetworkStep, NetworkChange
  <2>2. UNCHANGED <<mainVars, cfgVars, sntpVars, monVars, srvVars>>
    BY <1>23 DEF NetworkStep, NetworkChange
  <2> QED BY <2>1, <2>2
<1>24. CASE UNCHANGED allVars
  BY <1>24 DEF allVars
<1>25. CASE fota_handler_task_start
  BY <1>25 DEF fota_handler_task_start
<1>26. CASE MonitorStep
  BY <1>26, <1>14, <1>15, <1>16, <1>17, <1>18, <1>19, <1>20, <1>21, <1>22
  DEF MonitorStep, Monitor
<1> QED
  BY <1>1, <1>2, <1>3, <1>4, <1>5, <1>6, <1>7, <1>8, <1>9, <1>10, <1>11,
     <1>12, <1>13, <1>23, <1>24, <1>25, <1>26
  DEF ModeNext, Main, SetServer, esp_restart, RestartByOther

(* Every step keeps the types of the main and the config task.             *)
LEMMA ModeStep ==
  ASSUME TypeOK, ModeOK, [ModeNext]_allVars PROVE ModeOK'
<1> USE DEF ModeOK, Points, MonitorPoints, mainVars, cfgVars, batVars,
            histVars, vars, monVars, netVars, sntpVars, srvVars
<1>1. ASSUME NEW b \in Buttons, debounce_callback(b) PROVE ModeOK'
  BY <1>1, ButtonsAssumption DEF debounce_callback
<1>2. CASE uart_mode_switch_callback
  BY <1>2 DEF uart_mode_switch_callback
<1>3. CASE xTaskNotifyWait
  BY <1>3 DEF xTaskNotifyWait
<1>4. CASE StopMonitor
  BY <1>4 DEF StopMonitor, TypeOK
<1>5. CASE server_connect_stop
  BY <1>5 DEF server_connect_stop
<1>6. CASE web_config_handler_stop
  BY <1>6 DEF web_config_handler_stop
<1>7. CASE wifi_ap_start
  <2>1. ap' \in BOOLEAN
    BY <1>7, Zenon DEF wifi_ap_start
  <2> QED BY <1>7, <2>1 DEF wifi_ap_start
<1>8. CASE StartPortal
  BY <1>8 DEF StartPortal
<1>9. CASE ConfigActive
  <2>1. /\ main' \in Points /\ current_mode' = "CONFIG" /\ by_uart' = FALSE
        /\ requested_mode' \in {-1, 0, 1}
    BY <1>9 DEF ConfigActive
  <2>2. UNCHANGED <<notif, uart, ap, mon_at_stop, portal_lost,
                    battery_source_enabled, cfg, new_type, sv_race>>
    BY <1>9 DEF ConfigActive
  <2> HIDE DEF Points, MonitorPoints
  <2> QED BY <2>1, <2>2, Zenon
<1>10. CASE Boot
  BY <1>10 DEF Boot, TypeOK
<1>11. ASSUME NEW t \in Servers, SvStop(t) PROVE ModeOK'
  BY <1>11 DEF SvStop
<1>12. CASE SvSet
  BY <1>12 DEF SvSet
<1>13. CASE SvStart
  BY <1>13 DEF SvStart
<1>14. CASE MonitorStep /\ Gate
  BY <1>14 DEF MonitorStep, Gate
<1>15. CASE MonitorStep /\ StartWeb
  BY <1>15 DEF MonitorStep, StartWeb
<1>16. CASE MonitorStep /\ start_server_by_type
  BY <1>16 DEF MonitorStep, start_server_by_type
<1>17. CASE MonitorStep /\ AfterGate
  BY <1>17 DEF MonitorStep, AfterGate
<1>18. CASE MonitorStep /\ Delay
  BY <1>18 DEF MonitorStep, Delay
<1>19. CASE MonitorStep /\ Probe
  BY <1>19 DEF MonitorStep, Probe
<1>20. CASE MonitorStep /\ StartFallback
  BY <1>20 DEF MonitorStep, StartFallback
<1>21. CASE MonitorStep /\ RestoreDelay
  BY <1>21 DEF MonitorStep, RestoreDelay
<1>22. CASE MonitorStep /\ Decide
  BY <1>22 DEF MonitorStep, Decide
<1>23. CASE NetworkStep
  BY <1>23 DEF NetworkStep
<1>24. CASE UNCHANGED allVars
  BY <1>24 DEF allVars
<1>25. CASE fota_handler_task_start
  BY <1>25 DEF fota_handler_task_start
<1>26. CASE MonitorStep
  BY <1>26, <1>14, <1>15, <1>16, <1>17, <1>18, <1>19, <1>20, <1>21, <1>22
  DEF MonitorStep, Monitor
<1> QED
  BY <1>1, <1>2, <1>3, <1>4, <1>5, <1>6, <1>7, <1>8, <1>9, <1>10, <1>11,
     <1>12, <1>13, <1>23, <1>24, <1>25, <1>26
  DEF ModeNext, Main, SetServer, esp_restart, RestartByOther

(* Every step keeps the counters under their thresholds.                   *)
LEMMA CountersStep ==
  ASSUME TypeOK, Counters, [ModeNext]_allVars PROVE Counters'
<1> USE DEF Counters, mainVars, cfgVars, batVars, histVars, vars, monVars,
            netVars, sntpVars, srvVars
<1>1. ASSUME NEW b \in Buttons, debounce_callback(b) PROVE Counters'
  BY <1>1 DEF debounce_callback
<1>2. CASE uart_mode_switch_callback
  BY <1>2 DEF uart_mode_switch_callback
<1>3. CASE xTaskNotifyWait
  BY <1>3 DEF xTaskNotifyWait
<1>4. CASE StopMonitor
  BY <1>4 DEF StopMonitor, internet_monitor_task_stop
<1>5. CASE server_connect_stop
  BY <1>5 DEF server_connect_stop
<1>6. CASE web_config_handler_stop
  BY <1>6 DEF web_config_handler_stop
<1>7. CASE wifi_ap_start
  BY <1>7 DEF wifi_ap_start, stop_connection
<1>8. CASE StartPortal
  BY <1>8 DEF StartPortal
<1>9. CASE ConfigActive
  BY <1>9 DEF ConfigActive
<1>10. CASE Boot
  BY <1>10, ThresholdAssumption DEF Boot
<1>11. ASSUME NEW t \in Servers, SvStop(t) PROVE Counters'
  BY <1>11 DEF SvStop
<1>12. CASE SvSet
  BY <1>12 DEF SvSet
<1>13. CASE SvStart
  BY <1>13 DEF SvStart
<1>14. CASE MonitorStep /\ Gate
  BY <1>14 DEF MonitorStep, Gate
<1>15. CASE MonitorStep /\ StartWeb
  BY <1>15 DEF MonitorStep, StartWeb
<1>16. CASE MonitorStep /\ start_server_by_type
  BY <1>16 DEF MonitorStep, start_server_by_type
<1>17. CASE MonitorStep /\ AfterGate
  BY <1>17 DEF MonitorStep, AfterGate
<1>18. CASE MonitorStep /\ Delay
  BY <1>18 DEF MonitorStep, Delay
<1>19. CASE MonitorStep /\ Probe
  BY <1>19, ThresholdAssumption
  DEF MonitorStep, Probe, ProbePrimary, ProbeFallback, start_connection,
      stop_connection, TypeOK
<1>20. CASE MonitorStep /\ StartFallback
  BY <1>20, ThresholdAssumption
  DEF MonitorStep, StartFallback, start_connection
<1>21. CASE MonitorStep /\ RestoreDelay
  BY <1>21 DEF MonitorStep, RestoreDelay
<1>22. CASE MonitorStep /\ Decide
  BY <1>22, ThresholdAssumption DEF MonitorStep, Decide, stop_connection
<1>23. CASE NetworkStep
  BY <1>23 DEF NetworkStep, NetworkChange
<1>24. CASE UNCHANGED allVars
  BY <1>24 DEF allVars
<1>25. CASE fota_handler_task_start
  BY <1>25 DEF fota_handler_task_start
<1>26. CASE MonitorStep
  BY <1>26, <1>14, <1>15, <1>16, <1>17, <1>18, <1>19, <1>20, <1>21, <1>22
  DEF MonitorStep, Monitor
<1> QED
  BY <1>1, <1>2, <1>3, <1>4, <1>5, <1>6, <1>7, <1>8, <1>9, <1>10, <1>11,
     <1>12, <1>13, <1>23, <1>24, <1>25, <1>26
  DEF ModeNext, Main, SetServer, esp_restart, RestartByOther

(* Every step keeps a stopped monitor from another probe or gate, until    *)
(* the MCU restarts.                                                       *)
LEMMA StoppedStep ==
  ASSUME Stopped, [ModeNext]_allVars PROVE Stopped'
<1> USE DEF Stopped, MonitorStopped, mainVars, cfgVars, batVars, histVars,
            vars, monVars, netVars, sntpVars, srvVars
<1>1. ASSUME NEW b \in Buttons, debounce_callback(b) PROVE Stopped'
  BY <1>1 DEF debounce_callback
<1>2. CASE uart_mode_switch_callback
  BY <1>2 DEF uart_mode_switch_callback
<1>3. CASE xTaskNotifyWait
  BY <1>3 DEF xTaskNotifyWait
<1>4. CASE StopMonitor
  BY <1>4 DEF StopMonitor, internet_monitor_task_stop
<1>5. CASE server_connect_stop
  BY <1>5 DEF server_connect_stop
<1>6. CASE web_config_handler_stop
  BY <1>6 DEF web_config_handler_stop
<1>7. CASE wifi_ap_start
  BY <1>7 DEF wifi_ap_start, stop_connection
<1>8. CASE StartPortal
  BY <1>8 DEF StartPortal
<1>9. CASE ConfigActive
  BY <1>9 DEF ConfigActive
<1>10. CASE Boot
  BY <1>10 DEF Boot
<1>11. ASSUME NEW t \in Servers, SvStop(t) PROVE Stopped'
  BY <1>11 DEF SvStop
<1>12. CASE SvSet
  BY <1>12 DEF SvSet
<1>13. CASE SvStart
  BY <1>13 DEF SvStart
<1>14. CASE MonitorStep /\ Gate
  BY <1>14 DEF MonitorStep, Gate
<1>15. CASE MonitorStep /\ StartWeb
  BY <1>15 DEF MonitorStep, StartWeb
<1>16. CASE MonitorStep /\ start_server_by_type
  BY <1>16 DEF MonitorStep, start_server_by_type
<1>17. CASE MonitorStep /\ AfterGate
  BY <1>17 DEF MonitorStep, AfterGate
<1>18. CASE MonitorStep /\ Delay
  BY <1>18 DEF MonitorStep, Delay
<1>19. CASE MonitorStep /\ Probe
  BY <1>19
  DEF MonitorStep, Probe, ProbePrimary, ProbeFallback, start_connection,
      stop_connection
<1>20. CASE MonitorStep /\ StartFallback
  BY <1>20 DEF MonitorStep, StartFallback, start_connection
<1>21. CASE MonitorStep /\ RestoreDelay
  BY <1>21 DEF MonitorStep, RestoreDelay
<1>22. CASE MonitorStep /\ Decide
  BY <1>22 DEF MonitorStep, Decide, stop_connection
<1>23. CASE NetworkStep
  BY <1>23 DEF NetworkStep, NetworkChange
<1>24. CASE UNCHANGED allVars
  BY <1>24 DEF allVars
<1>25. CASE fota_handler_task_start
  BY <1>25 DEF fota_handler_task_start
<1>26. CASE MonitorStep
  BY <1>26, <1>14, <1>15, <1>16, <1>17, <1>18, <1>19, <1>20, <1>21, <1>22
  DEF MonitorStep, Monitor
<1> QED
  BY <1>1, <1>2, <1>3, <1>4, <1>5, <1>6, <1>7, <1>8, <1>9, <1>10, <1>11,
     <1>12, <1>13, <1>23, <1>24, <1>25, <1>26
  DEF ModeNext, Main, SetServer, esp_restart, RestartByOther

(* Every step keeps the STA server down through the switch.                *)
LEMMA PortalStep ==
  ASSUME Stopped, Portal, [ModeNext]_allVars PROVE Portal'
<1> USE DEF Stopped, Portal, MonitorStopped, mainVars, cfgVars, batVars,
            histVars, vars, monVars, netVars, sntpVars, srvVars
<1>1. ASSUME NEW b \in Buttons, debounce_callback(b) PROVE Portal'
  BY <1>1 DEF debounce_callback
<1>2. CASE uart_mode_switch_callback
  BY <1>2 DEF uart_mode_switch_callback
<1>3. CASE xTaskNotifyWait
  BY <1>3 DEF xTaskNotifyWait
<1>4. CASE StopMonitor
  BY <1>4 DEF StopMonitor, internet_monitor_task_stop
<1>5. CASE server_connect_stop
  BY <1>5 DEF server_connect_stop
<1>6. CASE web_config_handler_stop
  BY <1>6 DEF web_config_handler_stop
<1>7. CASE wifi_ap_start
  BY <1>7 DEF wifi_ap_start, stop_connection
<1>8. CASE StartPortal
  <2>1. ~portal_lost' => web' # "off"
    BY <1>8, Zenon DEF StartPortal
  <2>2. /\ main = "portal" /\ main' = "active"
        /\ web' \in (IF web = "off" THEN {"AP", "off"} ELSE {web})
        /\ UNCHANGED <<mon_at_stop, current_mode>>
    BY <1>8 DEF StartPortal
  <2> QED BY <2>1, <2>2
<1>9. CASE ConfigActive
  BY <1>9 DEF ConfigActive
<1>10. CASE Boot
  BY <1>10 DEF Boot
<1>11. ASSUME NEW t \in Servers, SvStop(t) PROVE Portal'
  BY <1>11 DEF SvStop
<1>12. CASE SvSet
  BY <1>12 DEF SvSet
<1>13. CASE SvStart
  BY <1>13 DEF SvStart
<1>14. CASE MonitorStep /\ Gate
  BY <1>14 DEF MonitorStep, Gate
<1>15. CASE MonitorStep /\ StartWeb
  BY <1>15 DEF MonitorStep, StartWeb
<1>16. CASE MonitorStep /\ start_server_by_type
  BY <1>16 DEF MonitorStep, start_server_by_type
<1>17. CASE MonitorStep /\ AfterGate
  BY <1>17 DEF MonitorStep, AfterGate
<1>18. CASE MonitorStep /\ Delay
  BY <1>18 DEF MonitorStep, Delay
<1>19. CASE MonitorStep /\ Probe
  BY <1>19
  DEF MonitorStep, Probe, ProbePrimary, ProbeFallback, start_connection,
      stop_connection
<1>20. CASE MonitorStep /\ StartFallback
  BY <1>20 DEF MonitorStep, StartFallback, start_connection
<1>21. CASE MonitorStep /\ RestoreDelay
  BY <1>21 DEF MonitorStep, RestoreDelay
<1>22. CASE MonitorStep /\ Decide
  BY <1>22 DEF MonitorStep, Decide, stop_connection
<1>23. CASE NetworkStep
  BY <1>23 DEF NetworkStep, NetworkChange
<1>24. CASE UNCHANGED allVars
  BY <1>24 DEF allVars
<1>25. CASE fota_handler_task_start
  <2>1. ~portal_lost' => ~portal_lost /\ web # "AP"
    BY <1>25, Zenon DEF fota_handler_task_start
  <2>2. web' = "off" /\ UNCHANGED <<main, current_mode, mon_at_stop>>
    BY <1>25 DEF fota_handler_task_start
  <2> QED BY <2>1, <2>2
<1>26. CASE MonitorStep
  BY <1>26, <1>14, <1>15, <1>16, <1>17, <1>18, <1>19, <1>20, <1>21, <1>22
  DEF MonitorStep, Monitor
<1> QED
  BY <1>1, <1>2, <1>3, <1>4, <1>5, <1>6, <1>7, <1>8, <1>9, <1>10, <1>11,
     <1>12, <1>13, <1>23, <1>24, <1>25, <1>26
  DEF ModeNext, Main, SetServer, esp_restart, RestartByOther

(* Every step keeps the station down under the access point.               *)
LEMMA StationStep ==
  ASSUME Stopped, NoStationUnlessRace, [ModeNext]_allVars PROVE NoStationUnlessRace'
<1> USE DEF Stopped, MonitorStopped, NoStationUnlessRace, mainVars, cfgVars,
            batVars, histVars, vars, monVars, netVars, sntpVars, srvVars
<1>1. ASSUME NEW b \in Buttons, debounce_callback(b) PROVE NoStationUnlessRace'
  BY <1>1 DEF debounce_callback
<1>2. CASE uart_mode_switch_callback
  BY <1>2 DEF uart_mode_switch_callback
<1>3. CASE xTaskNotifyWait
  BY <1>3 DEF xTaskNotifyWait
<1>4. CASE StopMonitor
  BY <1>4 DEF StopMonitor, internet_monitor_task_stop
<1>5. CASE server_connect_stop
  BY <1>5 DEF server_connect_stop
<1>6. CASE web_config_handler_stop
  BY <1>6 DEF web_config_handler_stop
<1>7. CASE wifi_ap_start
  BY <1>7 DEF wifi_ap_start, stop_connection
<1>8. CASE StartPortal
  BY <1>8 DEF StartPortal
<1>9. CASE ConfigActive
  BY <1>9 DEF ConfigActive
<1>10. CASE Boot
  BY <1>10 DEF Boot
<1>11. ASSUME NEW t \in Servers, SvStop(t) PROVE NoStationUnlessRace'
  BY <1>11 DEF SvStop
<1>12. CASE SvSet
  BY <1>12 DEF SvSet
<1>13. CASE SvStart
  BY <1>13 DEF SvStart
<1>14. CASE MonitorStep /\ Gate
  BY <1>14 DEF MonitorStep, Gate
<1>15. CASE MonitorStep /\ StartWeb
  BY <1>15 DEF MonitorStep, StartWeb
<1>16. CASE MonitorStep /\ start_server_by_type
  BY <1>16 DEF MonitorStep, start_server_by_type
<1>17. CASE MonitorStep /\ AfterGate
  BY <1>17 DEF MonitorStep, AfterGate
<1>18. CASE MonitorStep /\ Delay
  BY <1>18 DEF MonitorStep, Delay
<1>19. CASE MonitorStep /\ Probe
  BY <1>19
  DEF MonitorStep, Probe, ProbePrimary, ProbeFallback, start_connection,
      stop_connection
<1>20. CASE MonitorStep /\ StartFallback
  BY <1>20 DEF MonitorStep, StartFallback, start_connection
<1>21. CASE MonitorStep /\ RestoreDelay
  BY <1>21 DEF MonitorStep, RestoreDelay
<1>22. CASE MonitorStep /\ Decide
  BY <1>22 DEF MonitorStep, Decide, stop_connection
<1>23. CASE NetworkStep
  BY <1>23 DEF NetworkStep, NetworkChange
<1>24. CASE UNCHANGED allVars
  BY <1>24 DEF allVars
<1>25. CASE fota_handler_task_start
  BY <1>25 DEF fota_handler_task_start
<1>26. CASE MonitorStep
  BY <1>26, <1>14, <1>15, <1>16, <1>17, <1>18, <1>19, <1>20, <1>21, <1>22
  DEF MonitorStep, Monitor
<1> QED
  BY <1>1, <1>2, <1>3, <1>4, <1>5, <1>6, <1>7, <1>8, <1>9, <1>10, <1>11,
     <1>12, <1>13, <1>23, <1>24, <1>25, <1>26
  DEF ModeNext, Main, SetServer, esp_restart, RestartByOther

(* Every step keeps the server of the present type alone.                  *)
LEMMA ServerStep ==
  ASSUME ModeOK, ServerOfType, [ModeNext]_allVars PROVE ServerOfType'
<1> USE DEF ServerOfType, mainVars, cfgVars, batVars, histVars, vars,
            monVars, netVars, sntpVars, srvVars
<1>1. ASSUME NEW b \in Buttons, debounce_callback(b) PROVE ServerOfType'
  BY <1>1 DEF debounce_callback
<1>2. CASE uart_mode_switch_callback
  BY <1>2 DEF uart_mode_switch_callback
<1>3. CASE xTaskNotifyWait
  BY <1>3 DEF xTaskNotifyWait
<1>4. CASE StopMonitor
  BY <1>4 DEF StopMonitor, internet_monitor_task_stop
<1>5. CASE server_connect_stop
  BY <1>5 DEF server_connect_stop
<1>6. CASE web_config_handler_stop
  BY <1>6 DEF web_config_handler_stop
<1>7. CASE wifi_ap_start
  BY <1>7 DEF wifi_ap_start, stop_connection
<1>8. CASE StartPortal
  BY <1>8 DEF StartPortal
<1>9. CASE ConfigActive
  BY <1>9 DEF ConfigActive
<1>10. CASE Boot
  BY <1>10 DEF Boot
<1>11. ASSUME NEW t \in Servers, SvStop(t) PROVE ServerOfType'
  BY <1>11 DEF SvStop
<1>12. CASE SvSet
  BY <1>12 DEF SvSet
<1>13. CASE SvStart
  BY <1>13 DEF SvStart
<1>14. CASE MonitorStep /\ Gate
  BY <1>14 DEF MonitorStep, Gate
<1>15. CASE MonitorStep /\ StartWeb
  BY <1>15 DEF MonitorStep, StartWeb
<1>16. CASE MonitorStep /\ start_server_by_type
  BY <1>16 DEF MonitorStep, start_server_by_type
<1>17. CASE MonitorStep /\ AfterGate
  BY <1>17 DEF MonitorStep, AfterGate
<1>18. CASE MonitorStep /\ Delay
  BY <1>18 DEF MonitorStep, Delay
<1>19. CASE MonitorStep /\ Probe
  BY <1>19
  DEF MonitorStep, Probe, ProbePrimary, ProbeFallback, start_connection,
      stop_connection
<1>20. CASE MonitorStep /\ StartFallback
  BY <1>20 DEF MonitorStep, StartFallback, start_connection
<1>21. CASE MonitorStep /\ RestoreDelay
  BY <1>21 DEF MonitorStep, RestoreDelay
<1>22. CASE MonitorStep /\ Decide
  BY <1>22 DEF MonitorStep, Decide, stop_connection
<1>23. CASE NetworkStep
  BY <1>23 DEF NetworkStep, NetworkChange
<1>24. CASE UNCHANGED allVars
  BY <1>24 DEF allVars
<1>25. CASE fota_handler_task_start
  BY <1>25 DEF fota_handler_task_start
<1>26. CASE MonitorStep
  BY <1>26, <1>14, <1>15, <1>16, <1>17, <1>18, <1>19, <1>20, <1>21, <1>22
  DEF MonitorStep, Monitor
<1> QED
  BY <1>1, <1>2, <1>3, <1>4, <1>5, <1>6, <1>7, <1>8, <1>9, <1>10, <1>11,
     <1>12, <1>13, <1>23, <1>24, <1>25, <1>26
  DEF ModeNext, Main, SetServer, esp_restart, RestartByOther

-----------------------------------------------------------------------------
(* The invariant holds of every reachable state.                           *)
LEMMA Invariance == ModeSpec => []Inv
<1>1. Inv /\ [ModeNext]_allVars => Inv'
  BY TypeStep, ModeStep, CountersStep, StoppedStep, PortalStep, StationStep,
     ServerStep
  DEF Inv
<1> QED BY <1>1, InitInv, PTL DEF ModeSpec

(* Every variable keeps its type.                                          *)
THEOREM ModeTypeCorrect == ModeSpec => []ModeTypeOK
<1>1. Inv => ModeTypeOK
  BY TypeParts DEF Inv
<1> QED BY <1>1, Invariance, PTL

(* CONFIG mode serves the portal of the access point, unless the monitor   *)
(* was past its gate and about to start the STA server when                *)
(* switch_to_config_mode stopped it, the portal could not start, or an     *)
(* update of this MCU has stopped it.                                      *)
THEOREM PortalInConfigMode == ModeSpec => []PortalUnlessRace
<1>1. Inv => PortalUnlessRace
  BY DEF Inv, Portal, PortalUnlessRace
<1> QED BY <1>1, Invariance, PTL

(* Under the access point no WiFi station is started, unless the monitor   *)
(* was stopped in a probe or between the halves of a fail-over.            *)
THEOREM NoStationUnderAp == ModeSpec => []NoStationUnlessRace
  BY Invariance, PTL DEF Inv

(* At most one server runs, unless the monitor started the old one between *)
(* the stop and the start of an SV command.                                *)
THEOREM OneServer == ModeSpec => []OneServerUnlessRace
<1>1. Inv => OneServerUnlessRace
  <2> SUFFICES ASSUME ServerOfType, ~sv_race
               PROVE  ~(Cardinality(servers) > 1)
    BY DEF Inv, OneServerUnlessRace
  <2>1. servers = {} \/ servers = {g_server_type}
    BY DEF ServerOfType
  <2>2. Cardinality(servers) = 0 \/ Cardinality(servers) = 1
    BY <2>1, FS_EmptySet, FS_Singleton
  <2> QED BY <2>2
<1> QED BY <1>1, Invariance, PTL

-----------------------------------------------------------------------------
(* The LTE connection by itself.                                           *)

(* Where a caller of the handler goes on after a teardown, and after a     *)
(* connect.                                                                *)
AfterTeardown(p) == IF p = "task" THEN back ELSE "cleared"
AfterConnect(p)  == IF p = "task" THEN "loop" ELSE "poll"

(* LteTypeOK by kind.                                                      *)
LteFlags ==
  /\ task_running \in BOOLEAN /\ initialized \in BOOLEAN
  /\ is_internet_connected \in BOOLEAN /\ ctx \in BOOLEAN
  /\ ppp \in BOOLEAN /\ ctx_initialized \in BOOLEAN
  /\ auto_reconnect \in BOOLEAN /\ late \in BOOLEAN /\ cut \in BOOLEAN
  /\ fault \in BOOLEAN

LtePoints ==
  /\ DOMAIN pc = Callers
  /\ pc["task"] \in TaskPoints \cup CallPoints
  /\ pc["ctl"] \in CtlPoints \cup (CallPoints \ {"connect", "locked", "self"})
  /\ pc["bg"] \in BgPoints \cup {"connect", "locked", "self"}
  /\ back \in {"init", "loop"}
  /\ state \in States /\ mutex \in Callers \cup {None}
  /\ event \in Events
  /\ ~ctx => mutex = None /\ ~ctx_initialized /\ event = None

LteCounts ==
  /\ starts \in 0..MaxStarts /\ reinits \in 0..MaxReinits
  /\ drops \in 0..MaxDrops

(* Only one of lte_task and the task that stops it is inside the handler,  *)
(* as long as every stop has waited for lte_task.                          *)
OneAtATime ==
  ~late =>
    /\ pc["ctl"] \notin {"idle", "wait"} => pc["task"] = "off"
    /\ pc["ctl"] = "idle" => task_running \/ pc["task"] = "off"
    /\ pc["ctl"] # "idle" => ~task_running

(* Then nobody is inside the handler, past a test of the context, without  *)
(* one.                                                                    *)
ContextHeld ==
  ~late =>
    /\ \A p \in {"task", "ctl"} :
         pc[p] \in {"discSet", "disc2", "discSet2", "deinit2", "free"} => ctx
    /\ pc["task"] \in {"modem", "mark", "locked"} => ctx
    /\ pc["bg"] # "off" => ctx

(* And the mark that there is a context is right wherever it is tested.    *)
Marked ==
  ~late /\ ~fault =>
    /\ pc["task"] \in {"loop", "query", "connect", "locked", "self"} =>
         initialized = ctx
    /\ pc["task"] = "off" /\ pc["ctl"] \in {"idle", "wait", "clean"} =>
         initialized = ctx
    /\ pc["task"] = "modem" => ~initialized
    /\ pc["task"] \in CallPoints \ {"connect", "locked", "self"}
         /\ back = "loop" => ~initialized
    /\ pc["ctl"] = "cleared" => ~ctx
    /\ pc["ctl"] = "idle" /\ ~task_running => ~ctx

(* As long as nothing is lost and nothing set anew, lte_task finds a       *)
(* context that says connected wherever it looks for one.                  *)
Undisturbed ==
  drops = 0 /\ reinits = 0 /\ ~late =>
    /\ pc["task"] \notin {"query", "self", "disc", "discSet"}
    /\ pc["task"] \in {"power", "reinit", "init"} => ~ctx /\ ~initialized
    /\ pc["task"] \in {"deinit", "disc2", "discSet2", "deinit2", "free"} =>
         back = "loop"
    /\ pc["task"] \in {"mark", "loop", "connect", "locked"} /\ ctx =>
         state = "CONNECTED" /\ pc["bg"] # "attempt"
    /\ pc["task"] \in {"modem", "mark", "loop", "connect", "locked"} =>
         event \notin {"LOST_IP", "DEAD"}
    /\ event # "DEAD"

(* The inductive invariant of the LTE connection.                          *)
LteInv ==
  /\ LteFlags /\ LtePoints /\ LteCounts
  /\ OneAtATime /\ ContextHeld /\ Marked /\ FaultNeedsCause
  /\ MutexGivenBack /\ Undisturbed

-----------------------------------------------------------------------------
(* The connection starts down, without a task or a context.                *)
LEMMA LteInitInv == LteInit => LteInv
<1> SUFFICES ASSUME LteInit PROVE LteInv
  OBVIOUS
<1> USE DEF LteInit
<1>1. LteFlags
  BY DEF LteFlags
<1>2. LtePoints
  BY DEF LtePoints, Callers, TaskPoints, CtlPoints, BgPoints, States, Events,
         None
<1>3. LteCounts
  BY BoundsAssumption DEF LteCounts
<1>4. OneAtATime /\ ContextHeld /\ Marked /\ FaultNeedsCause
  BY DEF OneAtATime, ContextHeld, Marked, FaultNeedsCause, Callers, None
<1>5. MutexGivenBack /\ Undisturbed
  BY DEF MutexGivenBack, Undisturbed, Callers, None
<1> QED BY <1>1, <1>2, <1>3, <1>4, <1>5 DEF LteInv

(* Every step keeps the flags Boolean.                                     *)
LEMMA LteFlagsStep ==
  ASSUME LteFlags, LtePoints, [LteNext]_lteVars PROVE LteFlags'
<1> USE DEF LteFlags, ctxVars, appVars, pppVars, boundVars, history
<1>1. CASE PowerWait
  <2>1. UNCHANGED <<task_running, initialized, is_internet_connected, ctx,
                    ppp, ctx_initialized, auto_reconnect, late, cut, fault>>
    BY <1>1 DEF PowerWait
  <2> QED BY <2>1
<1>2. CASE Reinit
  <2>1. UNCHANGED <<task_running, initialized, is_internet_connected, ctx,
                    ppp, ctx_initialized, auto_reconnect, late, cut, fault>>
    BY <1>2 DEF Reinit
  <2> QED BY <2>1
<1>3. CASE InitContext
  <2>1. initialized' \in BOOLEAN
    BY <1>3 DEF InitContext
  <2>2. ctx' \in BOOLEAN
    BY <1>3 DEF InitContext
  <2>3. ctx_initialized' \in BOOLEAN
    BY <1>3 DEF InitContext
  <2>4. auto_reconnect' \in BOOLEAN
    BY <1>3 DEF InitContext
  <2>5. UNCHANGED <<task_running, is_internet_connected, ppp, late, cut,
                    fault>>
    BY <1>3 DEF InitContext
  <2> QED BY <2>1, <2>2, <2>3, <2>4, <2>5
<1>4. CASE InitModem
  <2>1. ppp' \in BOOLEAN
    BY <1>4 DEF InitModem
  <2>2. fault' \in BOOLEAN
    BY <1>4 DEF InitModem
  <2>3. UNCHANGED <<task_running, initialized, is_internet_connected, ctx,
                    ctx_initialized, auto_reconnect, late, cut>>
    BY <1>4 DEF InitModem
  <2> QED BY <2>1, <2>2, <2>3
<1>5. CASE InitMark
  <2>1. initialized' \in BOOLEAN
    BY <1>5 DEF InitMark
  <2>2. UNCHANGED <<task_running, is_internet_connected, ctx, ppp,
                    ctx_initialized, auto_reconnect, late, cut, fault>>
    BY <1>5 DEF InitMark
  <2> QED BY <2>1, <2>2
<1>6. CASE Restart
  <2>1. UNCHANGED <<task_running, initialized, is_internet_connected, ctx,
                    ppp, ctx_initialized, auto_reconnect, late, cut, fault>>
    BY <1>6 DEF Restart
  <2> QED BY <2>1
<1>7. CASE ~fault /\ CheckLink
  <2>1. is_internet_connected' \in BOOLEAN
    BY <1>7 DEF CheckLink, lte_handler_is_connected
  <2>2. UNCHANGED <<task_running, initialized, ctx, ppp, ctx_initialized,
                    auto_reconnect, late, cut, fault>>
    BY <1>7 DEF CheckLink
  <2> QED BY <2>1, <2>2
<1>8. CASE Query
  <2>1. UNCHANGED <<task_running, initialized, is_internet_connected, ctx,
                    ppp, ctx_initialized, auto_reconnect, late, cut, fault>>
    BY <1>8 DEF Query
  <2> QED BY <2>1
<1>9. CASE TaskExit
  <2>1. UNCHANGED <<task_running, initialized, is_internet_connected, ctx,
                    ppp, ctx_initialized, auto_reconnect, late, cut, fault>>
    BY <1>9 DEF TaskExit
  <2> QED BY <2>1
<1>10. ASSUME NEW p \in {"task", "bg"},
             ConnectTake(p, AfterConnect(p))
      PROVE  LteFlags'
  <2>1. UNCHANGED <<task_running, initialized, is_internet_connected, ctx,
                    ppp, ctx_initialized, auto_reconnect, late, cut, fault>>
    BY <1>10 DEF ConnectTake
  <2> QED BY <2>1
<1>11. ASSUME NEW p \in {"task", "bg"},
             ConnectLocked(p, AfterConnect(p))
      PROVE  LteFlags'
  <2>1. UNCHANGED <<task_running, initialized, is_internet_connected, ctx,
                    ppp, ctx_initialized, auto_reconnect, late, cut, fault>>
    BY <1>11 DEF ConnectLocked
  <2> QED BY <2>1
<1>12. ASSUME NEW p \in {"task", "ctl"}, ~fault,
             DisconnectStop(p, "disc", "discSet", "deinit")
      PROVE  LteFlags'
  <2>1. ppp' \in BOOLEAN
    BY <1>12 DEF DisconnectStop, Linked
  <2>2. UNCHANGED <<task_running, initialized, is_internet_connected, ctx,
                    ctx_initialized, auto_reconnect, late, cut, fault>>
    BY <1>12 DEF DisconnectStop
  <2> QED BY <2>1, <2>2
<1>13. ASSUME NEW p \in {"task", "ctl"}, ~fault,
             DisconnectSet(p, "discSet", "deinit")
      PROVE  LteFlags'
  <2>1. fault' \in BOOLEAN
    BY <1>13 DEF DisconnectSet
  <2>2. UNCHANGED <<task_running, initialized, is_internet_connected, ctx,
                    ppp, ctx_initialized, auto_reconnect, late, cut>>
    BY <1>13 DEF DisconnectSet
  <2> QED BY <2>1, <2>2
<1>14. ASSUME NEW p \in {"task", "ctl"}, ~fault,
             Deinit(p, AfterTeardown(p))
      PROVE  LteFlags'
  <2>1. auto_reconnect' \in BOOLEAN
    BY <1>14 DEF Deinit, Linked
  <2>2. UNCHANGED <<task_running, initialized, is_internet_connected, ctx,
                    ppp, ctx_initialized, late, cut, fault>>
    BY <1>14 DEF Deinit
  <2> QED BY <2>1, <2>2
<1>15. ASSUME NEW p \in {"task", "ctl"}, ~fault,
             DisconnectStop(p, "disc2", "discSet2", "deinit2")
      PROVE  LteFlags'
  <2>1. ppp' \in BOOLEAN
    BY <1>15 DEF DisconnectStop, Linked
  <2>2. UNCHANGED <<task_running, initialized, is_internet_connected, ctx,
                    ctx_initialized, auto_reconnect, late, cut, fault>>
    BY <1>15 DEF DisconnectStop
  <2> QED BY <2>1, <2>2
<1>16. ASSUME NEW p \in {"task", "ctl"}, ~fault,
             DisconnectSet(p, "discSet2", "deinit2")
      PROVE  LteFlags'
  <2>1. fault' \in BOOLEAN
    BY <1>16 DEF DisconnectSet
  <2>2. UNCHANGED <<task_running, initialized, is_internet_connected, ctx,
                    ppp, ctx_initialized, auto_reconnect, late, cut>>
    BY <1>16 DEF DisconnectSet
  <2> QED BY <2>1, <2>2
<1>17. ASSUME NEW p \in {"task", "ctl"}, ~fault,
             DeinitFlag(p)
      PROVE  LteFlags'
  <2>1. ctx_initialized' \in BOOLEAN
    BY <1>17 DEF DeinitFlag
  <2>2. fault' \in BOOLEAN
    BY <1>17 DEF DeinitFlag
  <2>3. UNCHANGED <<task_running, initialized, is_internet_connected, ctx,
                    ppp, auto_reconnect, late, cut>>
    BY <1>17 DEF DeinitFlag
  <2> QED BY <2>1, <2>2, <2>3
<1>18. ASSUME NEW p \in {"task", "ctl"}, ~fault,
             Free(p, AfterTeardown(p))
      PROVE  LteFlags'
  <2>1. ctx' \in BOOLEAN
    BY <1>18 DEF Free, Waits, BgAfter
  <2>2. ctx_initialized' \in BOOLEAN
    BY <1>18 DEF Free, Waits, BgAfter
  <2>3. cut' \in BOOLEAN
    BY <1>18 DEF Free, Waits, BgAfter
  <2>4. fault' \in BOOLEAN
    BY <1>18 DEF Free, Waits, BgAfter
  <2>5. ppp' \in BOOLEAN
    BY <1>18 DEF Free, Waits, BgAfter
  <2>6. UNCHANGED <<task_running, initialized, is_internet_connected,
                    auto_reconnect, late>>
    BY <1>18 DEF Free
  <2> QED BY <2>1, <2>2, <2>3, <2>4, <2>5, <2>6
<1>19. CASE ~fault /\ lte_connect_task_start
  <2>1. task_running' \in BOOLEAN
    BY <1>19 DEF lte_connect_task_start
  <2>2. initialized' \in BOOLEAN
    BY <1>19 DEF lte_connect_task_start
  <2>3. fault' \in BOOLEAN
    BY <1>19 DEF lte_connect_task_start
  <2>4. UNCHANGED <<is_internet_connected, ctx, ppp, ctx_initialized,
                    auto_reconnect, late, cut>>
    BY <1>19 DEF lte_connect_task_start
  <2> QED BY <2>1, <2>2, <2>3, <2>4
<1>20. CASE StopFlag
  <2>1. task_running' \in BOOLEAN
    BY <1>20 DEF StopFlag
  <2>2. UNCHANGED <<initialized, is_internet_connected, ctx, ppp,
                    ctx_initialized, auto_reconnect, late, cut, fault>>
    BY <1>20 DEF StopFlag
  <2> QED BY <2>1, <2>2
<1>21. CASE StopWait
  <2>1. late' \in BOOLEAN
    BY <1>21 DEF StopWait, Waited
  <2>2. UNCHANGED <<task_running, initialized, is_internet_connected, ctx,
                    ppp, ctx_initialized, auto_reconnect, cut, fault>>
    BY <1>21 DEF StopWait
  <2> QED BY <2>1, <2>2
<1>22. CASE StopClean
  <2>1. UNCHANGED <<task_running, initialized, is_internet_connected, ctx,
                    ppp, ctx_initialized, auto_reconnect, late, cut, fault>>
    BY <1>22 DEF StopClean
  <2> QED BY <2>1
<1>23. CASE StopDone
  <2>1. initialized' \in BOOLEAN
    BY <1>23 DEF StopDone
  <2>2. UNCHANGED <<task_running, is_internet_connected, ctx, ppp,
                    ctx_initialized, auto_reconnect, late, cut, fault>>
    BY <1>23 DEF StopDone
  <2> QED BY <2>1, <2>2
<1>24. CASE BgPoll
  <2>1. UNCHANGED <<task_running, initialized, is_internet_connected, ctx,
                    ppp, ctx_initialized, auto_reconnect, late, cut, fault>>
    BY <1>24 DEF BgPoll
  <2> QED BY <2>1
<1>25. CASE BgAttempt
  <2>1. fault' \in BOOLEAN
    BY <1>25 DEF BgAttempt
  <2>2. UNCHANGED <<task_running, initialized, is_internet_connected, ctx,
                    ppp, ctx_initialized, auto_reconnect, late, cut>>
    BY <1>25 DEF BgAttempt
  <2> QED BY <2>1, <2>2
<1>26. CASE on_ip_event
  <2>1. UNCHANGED <<task_running, initialized, is_internet_connected, ctx,
                    ppp, ctx_initialized, auto_reconnect, late, cut, fault>>
    BY <1>26 DEF on_ip_event
  <2> QED BY <2>1
<1>27. CASE on_ppp_changed
  <2>1. UNCHANGED <<task_running, initialized, is_internet_connected, ctx,
                    ppp, ctx_initialized, auto_reconnect, late, cut, fault>>
    BY <1>27 DEF on_ppp_changed
  <2> QED BY <2>1
<1>28. CASE PppDown
  <2>1. ppp' \in BOOLEAN
    BY <1>28 DEF PppDown
  <2>2. UNCHANGED <<task_running, initialized, is_internet_connected, ctx,
                    ctx_initialized, auto_reconnect, late, cut, fault>>
    BY <1>28 DEF PppDown
  <2> QED BY <2>1, <2>2
<1>29. CASE PppDead
  <2>1. UNCHANGED <<task_running, initialized, is_internet_connected, ctx,
                    ppp, ctx_initialized, auto_reconnect, late, cut, fault>>
    BY <1>29 DEF PppDead
  <2> QED BY <2>1
<1>30. CASE PppUp
  <2>1. ppp' \in BOOLEAN
    BY <1>30 DEF PppUp
  <2>2. UNCHANGED <<task_running, initialized, is_internet_connected, ctx,
                    ctx_initialized, auto_reconnect, late, cut, fault>>
    BY <1>30 DEF PppUp
  <2> QED BY <2>1, <2>2
<1>31. CASE UNCHANGED lteVars
  BY <1>31 DEF lteVars
<1>32. CASE \/ lte_handler_connect("task", "loop")
            \/ lte_handler_connect("bg", "poll")
  BY <1>32, <1>10, <1>11 DEF lte_handler_connect, AfterConnect
<1>33. ASSUME NEW p \in {"task", "ctl"}, ~fault, Teardown(p, AfterTeardown(p))
       PROVE  LteFlags'
  BY <1>33, <1>12, <1>13, <1>14, <1>15, <1>16, <1>17, <1>18 DEF Teardown
<1>34. CASE ~fault /\ (Teardown("task", back) \/ Teardown("ctl", "cleared"))
  BY <1>33, <1>34 DEF AfterTeardown
<1> QED
  BY <1>1, <1>2, <1>3, <1>4, <1>5, <1>6, <1>7, <1>8, <1>9, <1>19, <1>20,
     <1>21, <1>22, <1>23, <1>24, <1>25, <1>26, <1>27, <1>28, <1>29, <1>30,
     <1>31, <1>32, <1>34
  DEF LteNext, lte_task, lte_connect_task_stop, lte_handler_bg_task,
      EventLoop

(* Every step keeps the control points and the values of the context.      *)
LEMMA LtePointsStep ==
  ASSUME LteFlags, LtePoints, [LteNext]_lteVars PROVE LtePoints'
<1> USE DEF LtePoints, Callers, TaskPoints, CtlPoints, BgPoints, CallPoints,
            States, Events, None, ctxVars, appVars, pppVars, boundVars,
            history
<1>1. CASE PowerWait
  BY <1>1 DEF PowerWait, Goto
<1>2. CASE Reinit
  BY <1>2 DEF Reinit, Goto
<1>3. CASE InitContext
  BY <1>3 DEF InitContext, Goto
<1>4. CASE InitModem
  <2>1. pc' = pc \/ pc' = [pc EXCEPT !["task"] = "deinit"]
          \/ pc' = [pc EXCEPT !["task"] = "mark", !["bg"] = "poll"]
    BY <1>4 DEF InitModem, Goto
  <2>2. back' \in {"init", "loop"} /\ state' \in States
    BY <1>4 DEF InitModem
  <2>3. UNCHANGED <<ctx, ctx_initialized, mutex, event>>
    BY <1>4 DEF InitModem
  <2> QED BY <2>1, <2>2, <2>3
<1>5. CASE InitMark
  BY <1>5 DEF InitMark, Goto
<1>6. CASE Restart
  BY <1>6 DEF Restart, Goto
<1>7. CASE ~fault /\ CheckLink
  BY <1>7 DEF CheckLink, Goto, lte_handler_is_connected
<1>8. CASE Query
  BY <1>8 DEF Query, Goto
<1>9. CASE TaskExit
  BY <1>9 DEF TaskExit, Goto
<1>10. ASSUME NEW p \in {"task", "bg"},
             ConnectTake(p, AfterConnect(p))
      PROVE  LtePoints'
  BY <1>10 DEF ConnectTake, AfterConnect, Goto
<1>11. ASSUME NEW p \in {"task", "bg"},
             ConnectLocked(p, AfterConnect(p))
      PROVE  LtePoints'
  BY <1>11 DEF ConnectLocked, Already, AfterConnect, Goto
<1>12. ASSUME NEW p \in {"task", "ctl"}, ~fault,
             DisconnectStop(p, "disc", "discSet", "deinit")
      PROVE  LtePoints'
  BY <1>12 DEF DisconnectStop, Linked, Goto
<1>13. ASSUME NEW p \in {"task", "ctl"}, ~fault,
             DisconnectSet(p, "discSet", "deinit")
      PROVE  LtePoints'
  BY <1>13 DEF DisconnectSet, Goto
<1>14. ASSUME NEW p \in {"task", "ctl"}, ~fault,
             Deinit(p, AfterTeardown(p))
      PROVE  LtePoints'
  BY <1>14 DEF Deinit, Linked, AfterTeardown, Goto
<1>15. ASSUME NEW p \in {"task", "ctl"}, ~fault,
             DisconnectStop(p, "disc2", "discSet2", "deinit2")
      PROVE  LtePoints'
  BY <1>15 DEF DisconnectStop, Linked, Goto
<1>16. ASSUME NEW p \in {"task", "ctl"}, ~fault,
             DisconnectSet(p, "discSet2", "deinit2")
      PROVE  LtePoints'
  BY <1>16 DEF DisconnectSet, Goto
<1>17. ASSUME NEW p \in {"task", "ctl"}, ~fault,
             DeinitFlag(p)
      PROVE  LtePoints'
  BY <1>17 DEF DeinitFlag, Goto
<1>18. ASSUME NEW p \in {"task", "ctl"}, ~fault,
             Free(p, AfterTeardown(p))
      PROVE  LtePoints'
  BY <1>18 DEF Free, Waits, BgAfter, AfterTeardown
<1>19. CASE ~fault /\ lte_connect_task_start
  BY <1>19 DEF lte_connect_task_start, Goto
<1>20. CASE StopFlag
  BY <1>20 DEF StopFlag, Goto
<1>21. CASE StopWait
  BY <1>21 DEF StopWait, Waited, Goto
<1>22. CASE StopClean
  BY <1>22 DEF StopClean, Cleanup, lte_handler_is_connected, Goto
<1>23. CASE StopDone
  BY <1>23 DEF StopDone, Goto
<1>24. CASE BgPoll
  BY <1>24 DEF BgPoll, Goto
<1>25. CASE BgAttempt
  BY <1>25 DEF BgAttempt, Goto
<1>26. CASE on_ip_event
  BY <1>26 DEF on_ip_event
<1>27. CASE on_ppp_changed
  BY <1>27 DEF on_ppp_changed
<1>28. CASE PppDown
  BY <1>28 DEF PppDown
<1>29. CASE PppDead
  BY <1>29 DEF PppDead
<1>30. CASE PppUp
  BY <1>30 DEF PppUp
<1>31. CASE UNCHANGED lteVars
  BY <1>31 DEF lteVars
<1>32. CASE \/ lte_handler_connect("task", "loop")
            \/ lte_handler_connect("bg", "poll")
  BY <1>32, <1>10, <1>11 DEF lte_handler_connect, AfterConnect
<1>33. ASSUME NEW p \in {"task", "ctl"}, ~fault, Teardown(p, AfterTeardown(p))
       PROVE  LtePoints'
  BY <1>33, <1>12, <1>13, <1>14, <1>15, <1>16, <1>17, <1>18 DEF Teardown
<1>34. CASE ~fault /\ (Teardown("task", back) \/ Teardown("ctl", "cleared"))
  BY <1>33, <1>34 DEF AfterTeardown
<1> QED
  BY <1>1, <1>2, <1>3, <1>4, <1>5, <1>6, <1>7, <1>8, <1>9, <1>19, <1>20,
     <1>21, <1>22, <1>23, <1>24, <1>25, <1>26, <1>27, <1>28, <1>29, <1>30,
     <1>31, <1>32, <1>34
  DEF LteNext, lte_task, lte_connect_task_stop, lte_handler_bg_task,
      EventLoop

(* Every step keeps the counters within their bounds.                      *)
LEMMA LteCountsStep ==
  ASSUME LtePoints, LteCounts, [LteNext]_lteVars PROVE LteCounts'
<1> USE DEF LteCounts, ctxVars, appVars, pppVars, boundVars, history
<1>1. CASE PowerWait
  BY <1>1, BoundsAssumption DEF PowerWait, Goto
<1>2. CASE Reinit
  BY <1>2, BoundsAssumption DEF Reinit, Goto
<1>3. CASE InitContext
  BY <1>3, BoundsAssumption DEF InitContext, Goto
<1>4. CASE InitModem
  BY <1>4, BoundsAssumption DEF InitModem, Goto
<1>5. CASE InitMark
  BY <1>5, BoundsAssumption DEF InitMark, Goto
<1>6. CASE Restart
  BY <1>6, BoundsAssumption DEF Restart, Goto
<1>7. CASE ~fault /\ CheckLink
  BY <1>7, BoundsAssumption DEF CheckLink, Goto, lte_handler_is_connected
<1>8. CASE Query
  BY <1>8, BoundsAssumption DEF Query, Goto
<1>9. CASE TaskExit
  BY <1>9, BoundsAssumption DEF TaskExit, Goto
<1>10. ASSUME NEW p \in {"task", "bg"},
             ConnectTake(p, AfterConnect(p))
      PROVE  LteCounts'
  BY <1>10, BoundsAssumption DEF ConnectTake, AfterConnect, Goto
<1>11. ASSUME NEW p \in {"task", "bg"},
             ConnectLocked(p, AfterConnect(p))
      PROVE  LteCounts'
  BY <1>11, BoundsAssumption DEF ConnectLocked, Already, AfterConnect, Goto
<1>12. ASSUME NEW p \in {"task", "ctl"}, ~fault,
             DisconnectStop(p, "disc", "discSet", "deinit")
      PROVE  LteCounts'
  BY <1>12, BoundsAssumption DEF DisconnectStop, Linked, Goto
<1>13. ASSUME NEW p \in {"task", "ctl"}, ~fault,
             DisconnectSet(p, "discSet", "deinit")
      PROVE  LteCounts'
  BY <1>13, BoundsAssumption DEF DisconnectSet, Goto
<1>14. ASSUME NEW p \in {"task", "ctl"}, ~fault,
             Deinit(p, AfterTeardown(p))
      PROVE  LteCounts'
  BY <1>14, BoundsAssumption DEF Deinit, Linked, AfterTeardown, Goto
<1>15. ASSUME NEW p \in {"task", "ctl"}, ~fault,
             DisconnectStop(p, "disc2", "discSet2", "deinit2")
      PROVE  LteCounts'
  BY <1>15, BoundsAssumption DEF DisconnectStop, Linked, Goto
<1>16. ASSUME NEW p \in {"task", "ctl"}, ~fault,
             DisconnectSet(p, "discSet2", "deinit2")
      PROVE  LteCounts'
  BY <1>16, BoundsAssumption DEF DisconnectSet, Goto
<1>17. ASSUME NEW p \in {"task", "ctl"}, ~fault,
             DeinitFlag(p)
      PROVE  LteCounts'
  BY <1>17, BoundsAssumption DEF DeinitFlag, Goto
<1>18. ASSUME NEW p \in {"task", "ctl"}, ~fault,
             Free(p, AfterTeardown(p))
      PROVE  LteCounts'
  BY <1>18, BoundsAssumption DEF Free, Waits, BgAfter, AfterTeardown
<1>19. CASE ~fault /\ lte_connect_task_start
  BY <1>19, BoundsAssumption DEF lte_connect_task_start, Goto
<1>20. CASE StopFlag
  BY <1>20, BoundsAssumption DEF StopFlag, Goto
<1>21. CASE StopWait
  BY <1>21, BoundsAssumption DEF StopWait, Waited, Goto
<1>22. CASE StopClean
  BY <1>22, BoundsAssumption
  DEF StopClean, Cleanup, lte_handler_is_connected, Goto
<1>23. CASE StopDone
  BY <1>23, BoundsAssumption DEF StopDone, Goto
<1>24. CASE BgPoll
  BY <1>24, BoundsAssumption DEF BgPoll, Goto
<1>25. CASE BgAttempt
  BY <1>25, BoundsAssumption DEF BgAttempt, Goto
<1>26. CASE on_ip_event
  BY <1>26, BoundsAssumption DEF on_ip_event
<1>27. CASE on_ppp_changed
  BY <1>27, BoundsAssumption DEF on_ppp_changed
<1>28. CASE PppDown
  BY <1>28, BoundsAssumption DEF PppDown
<1>29. CASE PppDead
  BY <1>29, BoundsAssumption DEF PppDead
<1>30. CASE PppUp
  BY <1>30, BoundsAssumption DEF PppUp
<1>31. CASE UNCHANGED lteVars
  BY <1>31 DEF lteVars
<1>32. CASE \/ lte_handler_connect("task", "loop")
            \/ lte_handler_connect("bg", "poll")
  BY <1>32, <1>10, <1>11 DEF lte_handler_connect, AfterConnect
<1>33. ASSUME NEW p \in {"task", "ctl"}, ~fault, Teardown(p, AfterTeardown(p))
       PROVE  LteCounts'
  BY <1>33, <1>12, <1>13, <1>14, <1>15, <1>16, <1>17, <1>18 DEF Teardown
<1>34. CASE ~fault /\ (Teardown("task", back) \/ Teardown("ctl", "cleared"))
  BY <1>33, <1>34 DEF AfterTeardown
<1> QED
  BY <1>1, <1>2, <1>3, <1>4, <1>5, <1>6, <1>7, <1>8, <1>9, <1>19, <1>20,
     <1>21, <1>22, <1>23, <1>24, <1>25, <1>26, <1>27, <1>28, <1>29, <1>30,
     <1>31, <1>32, <1>34
  DEF LteNext, lte_task, lte_connect_task_stop, lte_handler_bg_task,
      EventLoop

(* A stop that waited has the handler for itself.                          *)
LEMMA OneAtATimeStep ==
  ASSUME LteFlags, LtePoints, OneAtATime, [LteNext]_lteVars PROVE OneAtATime'
<1> USE DEF LteFlags, LtePoints, OneAtATime, Callers, TaskPoints, CtlPoints,
            BgPoints, CallPoints, States, Events, None, ctxVars, appVars,
            pppVars, boundVars, history
<1>1. CASE PowerWait
  BY <1>1 DEF PowerWait, Goto
<1>2. CASE Reinit
  BY <1>2 DEF Reinit, Goto
<1>3. CASE InitContext
  BY <1>3 DEF InitContext, Goto
<1>4. CASE InitModem
  BY <1>4 DEF InitModem, Goto
<1>5. CASE InitMark
  BY <1>5 DEF InitMark, Goto
<1>6. CASE Restart
  BY <1>6 DEF Restart, Goto
<1>7. CASE ~fault /\ CheckLink
  BY <1>7 DEF CheckLink, Goto, lte_handler_is_connected
<1>8. CASE Query
  BY <1>8 DEF Query, Goto
<1>9. CASE TaskExit
  BY <1>9 DEF TaskExit, Goto
<1>10. ASSUME NEW p \in {"task", "bg"},
             ConnectTake(p, AfterConnect(p))
      PROVE  OneAtATime'
  BY <1>10 DEF ConnectTake, AfterConnect, Goto
<1>11. ASSUME NEW p \in {"task", "bg"},
             ConnectLocked(p, AfterConnect(p))
      PROVE  OneAtATime'
  BY <1>11 DEF ConnectLocked, Already, AfterConnect, Goto
<1>12. ASSUME NEW p \in {"task", "ctl"}, ~fault,
             DisconnectStop(p, "disc", "discSet", "deinit")
      PROVE  OneAtATime'
  BY <1>12 DEF DisconnectStop, Linked, Goto
<1>13. ASSUME NEW p \in {"task", "ctl"}, ~fault,
             DisconnectSet(p, "discSet", "deinit")
      PROVE  OneAtATime'
  BY <1>13 DEF DisconnectSet, Goto
<1>14. ASSUME NEW p \in {"task", "ctl"}, ~fault,
             Deinit(p, AfterTeardown(p))
      PROVE  OneAtATime'
  BY <1>14 DEF Deinit, Linked, AfterTeardown, Goto
<1>15. ASSUME NEW p \in {"task", "ctl"}, ~fault,
             DisconnectStop(p, "disc2", "discSet2", "deinit2")
      PROVE  OneAtATime'
  BY <1>15 DEF DisconnectStop, Linked, Goto
<1>16. ASSUME NEW p \in {"task", "ctl"}, ~fault,
             DisconnectSet(p, "discSet2", "deinit2")
      PROVE  OneAtATime'
  BY <1>16 DEF DisconnectSet, Goto
<1>17. ASSUME NEW p \in {"task", "ctl"}, ~fault,
             DeinitFlag(p)
      PROVE  OneAtATime'
  BY <1>17 DEF DeinitFlag, Goto
<1>18. ASSUME NEW p \in {"task", "ctl"}, ~fault,
             Free(p, AfterTeardown(p))
      PROVE  OneAtATime'
  BY <1>18 DEF Free, Waits, BgAfter, AfterTeardown
<1>19. CASE ~fault /\ lte_connect_task_start
  BY <1>19 DEF lte_connect_task_start, Goto
<1>20. CASE StopFlag
  BY <1>20 DEF StopFlag, Goto
<1>21. CASE StopWait
  BY <1>21 DEF StopWait, Waited, Goto
<1>22. CASE StopClean
  BY <1>22 DEF StopClean, Cleanup, lte_handler_is_connected, Goto
<1>23. CASE StopDone
  BY <1>23 DEF StopDone, Goto
<1>24. CASE BgPoll
  BY <1>24 DEF BgPoll, Goto
<1>25. CASE BgAttempt
  BY <1>25 DEF BgAttempt, Goto
<1>26. CASE on_ip_event
  BY <1>26 DEF on_ip_event
<1>27. CASE on_ppp_changed
  BY <1>27 DEF on_ppp_changed
<1>28. CASE PppDown
  BY <1>28 DEF PppDown
<1>29. CASE PppDead
  BY <1>29 DEF PppDead
<1>30. CASE PppUp
  BY <1>30 DEF PppUp
<1>31. CASE UNCHANGED lteVars
  BY <1>31 DEF lteVars
<1>32. CASE \/ lte_handler_connect("task", "loop")
            \/ lte_handler_connect("bg", "poll")
  BY <1>32, <1>10, <1>11 DEF lte_handler_connect, AfterConnect
<1>33. ASSUME NEW p \in {"task", "ctl"}, ~fault, Teardown(p, AfterTeardown(p))
       PROVE  OneAtATime'
  BY <1>33, <1>12, <1>13, <1>14, <1>15, <1>16, <1>17, <1>18 DEF Teardown
<1>34. CASE ~fault /\ (Teardown("task", back) \/ Teardown("ctl", "cleared"))
  BY <1>33, <1>34 DEF AfterTeardown
<1> QED
  BY <1>1, <1>2, <1>3, <1>4, <1>5, <1>6, <1>7, <1>8, <1>9, <1>19, <1>20,
     <1>21, <1>22, <1>23, <1>24, <1>25, <1>26, <1>27, <1>28, <1>29, <1>30,
     <1>31, <1>32, <1>34
  DEF LteNext, lte_task, lte_connect_task_stop, lte_handler_bg_task,
      EventLoop

(* Only the owner of the handler frees the context.                        *)
LEMMA ContextHeldStep ==
  ASSUME LteFlags, LtePoints, OneAtATime, ContextHeld, [LteNext]_lteVars PROVE
         ContextHeld'
<1> USE DEF LteFlags, LtePoints, OneAtATime, ContextHeld, Callers,
            TaskPoints, CtlPoints, BgPoints, CallPoints, States, Events,
            None, ctxVars, appVars, pppVars, boundVars, history
<1>1. CASE PowerWait
  BY <1>1 DEF PowerWait, Goto
<1>2. CASE Reinit
  BY <1>2 DEF Reinit, Goto
<1>3. CASE InitContext
  BY <1>3 DEF InitContext, Goto
<1>4. CASE InitModem
  BY <1>4 DEF InitModem, Goto
<1>5. CASE InitMark
  BY <1>5 DEF InitMark, Goto
<1>6. CASE Restart
  BY <1>6 DEF Restart, Goto
<1>7. CASE ~fault /\ CheckLink
  BY <1>7 DEF CheckLink, Goto, lte_handler_is_connected
<1>8. CASE Query
  BY <1>8 DEF Query, Goto
<1>9. CASE TaskExit
  BY <1>9 DEF TaskExit, Goto
<1>10. ASSUME NEW p \in {"task", "bg"},
             ConnectTake(p, AfterConnect(p))
      PROVE  ContextHeld'
  BY <1>10 DEF ConnectTake, AfterConnect, Goto
<1>11. ASSUME NEW p \in {"task", "bg"},
             ConnectLocked(p, AfterConnect(p))
      PROVE  ContextHeld'
  BY <1>11 DEF ConnectLocked, Already, AfterConnect, Goto
<1>12. ASSUME NEW p \in {"task", "ctl"}, ~fault,
             DisconnectStop(p, "disc", "discSet", "deinit")
      PROVE  ContextHeld'
  BY <1>12 DEF DisconnectStop, Linked, Goto
<1>13. ASSUME NEW p \in {"task", "ctl"}, ~fault,
             DisconnectSet(p, "discSet", "deinit")
      PROVE  ContextHeld'
  BY <1>13 DEF DisconnectSet, Goto
<1>14. ASSUME NEW p \in {"task", "ctl"}, ~fault,
             Deinit(p, AfterTeardown(p))
      PROVE  ContextHeld'
  BY <1>14 DEF Deinit, Linked, AfterTeardown, Goto
<1>15. ASSUME NEW p \in {"task", "ctl"}, ~fault,
             DisconnectStop(p, "disc2", "discSet2", "deinit2")
      PROVE  ContextHeld'
  BY <1>15 DEF DisconnectStop, Linked, Goto
<1>16. ASSUME NEW p \in {"task", "ctl"}, ~fault,
             DisconnectSet(p, "discSet2", "deinit2")
      PROVE  ContextHeld'
  BY <1>16 DEF DisconnectSet, Goto
<1>17. ASSUME NEW p \in {"task", "ctl"}, ~fault,
             DeinitFlag(p)
      PROVE  ContextHeld'
  BY <1>17 DEF DeinitFlag, Goto
<1>18. ASSUME NEW p \in {"task", "ctl"}, ~fault,
             Free(p, AfterTeardown(p))
      PROVE  ContextHeld'
  BY <1>18 DEF Free, Waits, BgAfter, AfterTeardown
<1>19. CASE ~fault /\ lte_connect_task_start
  BY <1>19 DEF lte_connect_task_start, Goto
<1>20. CASE StopFlag
  BY <1>20 DEF StopFlag, Goto
<1>21. CASE StopWait
  BY <1>21 DEF StopWait, Waited, Goto
<1>22. CASE StopClean
  BY <1>22 DEF StopClean, Cleanup, lte_handler_is_connected, Goto
<1>23. CASE StopDone
  BY <1>23 DEF StopDone, Goto
<1>24. CASE BgPoll
  BY <1>24 DEF BgPoll, Goto
<1>25. CASE BgAttempt
  BY <1>25 DEF BgAttempt, Goto
<1>26. CASE on_ip_event
  BY <1>26 DEF on_ip_event
<1>27. CASE on_ppp_changed
  BY <1>27 DEF on_ppp_changed
<1>28. CASE PppDown
  BY <1>28 DEF PppDown
<1>29. CASE PppDead
  BY <1>29 DEF PppDead
<1>30. CASE PppUp
  BY <1>30 DEF PppUp
<1>31. CASE UNCHANGED lteVars
  BY <1>31 DEF lteVars
<1>32. CASE \/ lte_handler_connect("task", "loop")
            \/ lte_handler_connect("bg", "poll")
  BY <1>32, <1>10, <1>11 DEF lte_handler_connect, AfterConnect
<1>33. ASSUME NEW p \in {"task", "ctl"}, ~fault, Teardown(p, AfterTeardown(p))
       PROVE  ContextHeld'
  BY <1>33, <1>12, <1>13, <1>14, <1>15, <1>16, <1>17, <1>18 DEF Teardown
<1>34. CASE ~fault /\ (Teardown("task", back) \/ Teardown("ctl", "cleared"))
  BY <1>33, <1>34 DEF AfterTeardown
<1> QED
  BY <1>1, <1>2, <1>3, <1>4, <1>5, <1>6, <1>7, <1>8, <1>9, <1>19, <1>20,
     <1>21, <1>22, <1>23, <1>24, <1>25, <1>26, <1>27, <1>28, <1>29, <1>30,
     <1>31, <1>32, <1>34
  DEF LteNext, lte_task, lte_connect_task_stop, lte_handler_bg_task,
      EventLoop

(* The mark follows the context.                                           *)
LEMMA MarkedStep ==
  ASSUME LteFlags, LtePoints, OneAtATime, ContextHeld, Marked,
         [LteNext]_lteVars PROVE Marked'
<1> USE DEF LteFlags, LtePoints, OneAtATime, ContextHeld, Marked, Callers,
            TaskPoints, CtlPoints, BgPoints, CallPoints, States, Events,
            None, ctxVars, appVars, pppVars, boundVars, history
<1>1. CASE PowerWait
  BY <1>1 DEF PowerWait, Goto
<1>2. CASE Reinit
  BY <1>2 DEF Reinit, Goto
<1>3. CASE InitContext
  BY <1>3 DEF InitContext, Goto
<1>4. CASE InitModem
  BY <1>4 DEF InitModem, Goto
<1>5. CASE InitMark
  BY <1>5 DEF InitMark, Goto
<1>6. CASE Restart
  BY <1>6 DEF Restart, Goto
<1>7. CASE ~fault /\ CheckLink
  BY <1>7 DEF CheckLink, Goto, lte_handler_is_connected
<1>8. CASE Query
  BY <1>8 DEF Query, Goto
<1>9. CASE TaskExit
  BY <1>9 DEF TaskExit, Goto
<1>10. ASSUME NEW p \in {"task", "bg"},
             ConnectTake(p, AfterConnect(p))
      PROVE  Marked'
  BY <1>10 DEF ConnectTake, AfterConnect, Goto
<1>11. ASSUME NEW p \in {"task", "bg"},
             ConnectLocked(p, AfterConnect(p))
      PROVE  Marked'
  BY <1>11 DEF ConnectLocked, Already, AfterConnect, Goto
<1>12. ASSUME NEW p \in {"task", "ctl"}, ~fault,
             DisconnectStop(p, "disc", "discSet", "deinit")
      PROVE  Marked'
  BY <1>12 DEF DisconnectStop, Linked, Goto
<1>13. ASSUME NEW p \in {"task", "ctl"}, ~fault,
             DisconnectSet(p, "discSet", "deinit")
      PROVE  Marked'
  BY <1>13 DEF DisconnectSet, Goto
<1>14. ASSUME NEW p \in {"task", "ctl"}, ~fault,
             Deinit(p, AfterTeardown(p))
      PROVE  Marked'
  BY <1>14 DEF Deinit, Linked, AfterTeardown, Goto
<1>15. ASSUME NEW p \in {"task", "ctl"}, ~fault,
             DisconnectStop(p, "disc2", "discSet2", "deinit2")
      PROVE  Marked'
  BY <1>15 DEF DisconnectStop, Linked, Goto
<1>16. ASSUME NEW p \in {"task", "ctl"}, ~fault,
             DisconnectSet(p, "discSet2", "deinit2")
      PROVE  Marked'
  BY <1>16 DEF DisconnectSet, Goto
<1>17. ASSUME NEW p \in {"task", "ctl"}, ~fault,
             DeinitFlag(p)
      PROVE  Marked'
  BY <1>17 DEF DeinitFlag, Goto
<1>18. ASSUME NEW p \in {"task", "ctl"}, ~fault,
             Free(p, AfterTeardown(p))
      PROVE  Marked'
  <2>1. /\ pc' = [pc EXCEPT !["bg"] = "off", ![p] = AfterTeardown(p)]
        /\ ctx' = FALSE /\ pc[p] = "free"
        /\ UNCHANGED <<initialized, task_running, late, back>>
    BY <1>18 DEF Free, BgAfter
  <2>2. CASE p = "ctl"
    BY <2>1, <2>2 DEF AfterTeardown
  <2>3. CASE p = "task"
    <3>1. ~late => pc["ctl"] \in {"idle", "wait"}
      BY <2>1, <2>3
    <3>2. pc'["task"] = back /\ pc'["ctl"] = pc["ctl"]
      BY <2>1, <2>3 DEF AfterTeardown
    <3>3. ~late /\ back = "loop" => ~initialized
      BY <1>18, <2>1, <2>3
    <3> QED BY <2>1, <3>1, <3>2, <3>3
  <2> QED BY <2>2, <2>3
<1>19. CASE ~fault /\ lte_connect_task_start
  BY <1>19 DEF lte_connect_task_start, Goto
<1>20. CASE StopFlag
  BY <1>20 DEF StopFlag, Goto
<1>21. CASE StopWait
  BY <1>21 DEF StopWait, Waited, Goto
<1>22. CASE StopClean
  BY <1>22 DEF StopClean, Cleanup, lte_handler_is_connected, Goto
<1>23. CASE StopDone
  BY <1>23 DEF StopDone, Goto
<1>24. CASE BgPoll
  BY <1>24 DEF BgPoll, Goto
<1>25. CASE BgAttempt
  BY <1>25 DEF BgAttempt, Goto
<1>26. CASE on_ip_event
  BY <1>26 DEF on_ip_event
<1>27. CASE on_ppp_changed
  BY <1>27 DEF on_ppp_changed
<1>28. CASE PppDown
  BY <1>28 DEF PppDown
<1>29. CASE PppDead
  BY <1>29 DEF PppDead
<1>30. CASE PppUp
  BY <1>30 DEF PppUp
<1>31. CASE UNCHANGED lteVars
  BY <1>31 DEF lteVars
<1>32. CASE \/ lte_handler_connect("task", "loop")
            \/ lte_handler_connect("bg", "poll")
  BY <1>32, <1>10, <1>11 DEF lte_handler_connect, AfterConnect
<1>33. ASSUME NEW p \in {"task", "ctl"}, ~fault, Teardown(p, AfterTeardown(p))
       PROVE  Marked'
  BY <1>33, <1>12, <1>13, <1>14, <1>15, <1>16, <1>17, <1>18 DEF Teardown
<1>34. CASE ~fault /\ (Teardown("task", back) \/ Teardown("ctl", "cleared"))
  BY <1>33, <1>34 DEF AfterTeardown
<1> QED
  BY <1>1, <1>2, <1>3, <1>4, <1>5, <1>6, <1>7, <1>8, <1>9, <1>19, <1>20,
     <1>21, <1>22, <1>23, <1>24, <1>25, <1>26, <1>27, <1>28, <1>29, <1>30,
     <1>31, <1>32, <1>34
  DEF LteNext, lte_task, lte_connect_task_stop, lte_handler_bg_task,
      EventLoop

(* A fault has one of the two causes.                                      *)
LEMMA FaultStep ==
  ASSUME LteFlags, LtePoints, OneAtATime, ContextHeld, MutexGivenBack,
         FaultNeedsCause, [LteNext]_lteVars PROVE FaultNeedsCause'
<1> USE DEF LteFlags, LtePoints, OneAtATime, ContextHeld, MutexGivenBack,
            FaultNeedsCause, Callers, TaskPoints, CtlPoints, BgPoints,
            CallPoints, States, Events, None, ctxVars, appVars, pppVars,
            boundVars, history
<1>1. CASE PowerWait
  BY <1>1 DEF PowerWait, Goto
<1>2. CASE Reinit
  BY <1>2 DEF Reinit, Goto
<1>3. CASE InitContext
  BY <1>3 DEF InitContext, Goto
<1>4. CASE InitModem
  BY <1>4 DEF InitModem, Goto
<1>5. CASE InitMark
  BY <1>5 DEF InitMark, Goto
<1>6. CASE Restart
  BY <1>6 DEF Restart, Goto
<1>7. CASE ~fault /\ CheckLink
  BY <1>7 DEF CheckLink, Goto, lte_handler_is_connected
<1>8. CASE Query
  BY <1>8 DEF Query, Goto
<1>9. CASE TaskExit
  BY <1>9 DEF TaskExit, Goto
<1>10. ASSUME NEW p \in {"task", "bg"},
             ConnectTake(p, AfterConnect(p))
      PROVE  FaultNeedsCause'
  BY <1>10 DEF ConnectTake, AfterConnect, Goto
<1>11. ASSUME NEW p \in {"task", "bg"},
             ConnectLocked(p, AfterConnect(p))
      PROVE  FaultNeedsCause'
  BY <1>11 DEF ConnectLocked, Already, AfterConnect, Goto
<1>12. ASSUME NEW p \in {"task", "ctl"}, ~fault,
             DisconnectStop(p, "disc", "discSet", "deinit")
      PROVE  FaultNeedsCause'
  BY <1>12 DEF DisconnectStop, Linked, Goto
<1>13. ASSUME NEW p \in {"task", "ctl"}, ~fault,
             DisconnectSet(p, "discSet", "deinit")
      PROVE  FaultNeedsCause'
  BY <1>13 DEF DisconnectSet, Goto
<1>14. ASSUME NEW p \in {"task", "ctl"}, ~fault,
             Deinit(p, AfterTeardown(p))
      PROVE  FaultNeedsCause'
  BY <1>14 DEF Deinit, Linked, AfterTeardown, Goto
<1>15. ASSUME NEW p \in {"task", "ctl"}, ~fault,
             DisconnectStop(p, "disc2", "discSet2", "deinit2")
      PROVE  FaultNeedsCause'
  BY <1>15 DEF DisconnectStop, Linked, Goto
<1>16. ASSUME NEW p \in {"task", "ctl"}, ~fault,
             DisconnectSet(p, "discSet2", "deinit2")
      PROVE  FaultNeedsCause'
  BY <1>16 DEF DisconnectSet, Goto
<1>17. ASSUME NEW p \in {"task", "ctl"}, ~fault,
             DeinitFlag(p)
      PROVE  FaultNeedsCause'
  BY <1>17 DEF DeinitFlag, Goto
<1>18. ASSUME NEW p \in {"task", "ctl"}, ~fault,
             Free(p, AfterTeardown(p))
      PROVE  FaultNeedsCause'
  BY <1>18 DEF Free, Waits, EventWaits, BgAfter, AfterTeardown
<1>19. CASE ~fault /\ lte_connect_task_start
  BY <1>19 DEF lte_connect_task_start, Goto
<1>20. CASE StopFlag
  BY <1>20 DEF StopFlag, Goto
<1>21. CASE StopWait
  BY <1>21 DEF StopWait, Waited, Goto
<1>22. CASE StopClean
  BY <1>22 DEF StopClean, Cleanup, lte_handler_is_connected, Goto
<1>23. CASE StopDone
  BY <1>23 DEF StopDone, Goto
<1>24. CASE BgPoll
  BY <1>24 DEF BgPoll, Goto
<1>25. CASE BgAttempt
  BY <1>25 DEF BgAttempt, Goto
<1>26. CASE on_ip_event
  BY <1>26 DEF on_ip_event
<1>27. CASE on_ppp_changed
  BY <1>27 DEF on_ppp_changed
<1>28. CASE PppDown
  BY <1>28 DEF PppDown
<1>29. CASE PppDead
  BY <1>29 DEF PppDead
<1>30. CASE PppUp
  BY <1>30 DEF PppUp
<1>31. CASE UNCHANGED lteVars
  BY <1>31 DEF lteVars
<1>32. CASE \/ lte_handler_connect("task", "loop")
            \/ lte_handler_connect("bg", "poll")
  BY <1>32, <1>10, <1>11 DEF lte_handler_connect, AfterConnect
<1>33. ASSUME NEW p \in {"task", "ctl"}, ~fault, Teardown(p, AfterTeardown(p))
       PROVE  FaultNeedsCause'
  BY <1>33, <1>12, <1>13, <1>14, <1>15, <1>16, <1>17, <1>18 DEF Teardown
<1>34. CASE ~fault /\ (Teardown("task", back) \/ Teardown("ctl", "cleared"))
  BY <1>33, <1>34 DEF AfterTeardown
<1> QED
  BY <1>1, <1>2, <1>3, <1>4, <1>5, <1>6, <1>7, <1>8, <1>9, <1>19, <1>20,
     <1>21, <1>22, <1>23, <1>24, <1>25, <1>26, <1>27, <1>28, <1>29, <1>30,
     <1>31, <1>32, <1>34
  DEF LteNext, lte_task, lte_connect_task_stop, lte_handler_bg_task,
      EventLoop

(* Who has the mutex is about to give it back, or waits for himself.       *)
LEMMA MutexStep ==
  ASSUME LtePoints, MutexGivenBack, [LteNext]_lteVars PROVE MutexGivenBack'
<1> USE DEF LtePoints, MutexGivenBack, Callers, TaskPoints, CtlPoints,
            BgPoints, CallPoints, States, Events, None, ctxVars, appVars,
            pppVars, boundVars, history
<1>1. CASE PowerWait
  BY <1>1 DEF PowerWait, Goto
<1>2. CASE Reinit
  BY <1>2 DEF Reinit, Goto
<1>3. CASE InitContext
  BY <1>3 DEF InitContext, Goto
<1>4. CASE InitModem
  BY <1>4 DEF InitModem, Goto
<1>5. CASE InitMark
  BY <1>5 DEF InitMark, Goto
<1>6. CASE Restart
  BY <1>6 DEF Restart, Goto
<1>7. CASE ~fault /\ CheckLink
  BY <1>7 DEF CheckLink, Goto, lte_handler_is_connected
<1>8. CASE Query
  BY <1>8 DEF Query, Goto
<1>9. CASE TaskExit
  BY <1>9 DEF TaskExit, Goto
<1>10. ASSUME NEW p \in {"task", "bg"},
             ConnectTake(p, AfterConnect(p))
      PROVE  MutexGivenBack'
  BY <1>10 DEF ConnectTake, AfterConnect, Goto
<1>11. ASSUME NEW p \in {"task", "bg"},
             ConnectLocked(p, AfterConnect(p))
      PROVE  MutexGivenBack'
  BY <1>11 DEF ConnectLocked, Already, AfterConnect, Goto
<1>12. ASSUME NEW p \in {"task", "ctl"}, ~fault,
             DisconnectStop(p, "disc", "discSet", "deinit")
      PROVE  MutexGivenBack'
  BY <1>12 DEF DisconnectStop, Linked, Goto
<1>13. ASSUME NEW p \in {"task", "ctl"}, ~fault,
             DisconnectSet(p, "discSet", "deinit")
      PROVE  MutexGivenBack'
  BY <1>13 DEF DisconnectSet, Goto
<1>14. ASSUME NEW p \in {"task", "ctl"}, ~fault,
             Deinit(p, AfterTeardown(p))
      PROVE  MutexGivenBack'
  BY <1>14 DEF Deinit, Linked, AfterTeardown, Goto
<1>15. ASSUME NEW p \in {"task", "ctl"}, ~fault,
             DisconnectStop(p, "disc2", "discSet2", "deinit2")
      PROVE  MutexGivenBack'
  BY <1>15 DEF DisconnectStop, Linked, Goto
<1>16. ASSUME NEW p \in {"task", "ctl"}, ~fault,
             DisconnectSet(p, "discSet2", "deinit2")
      PROVE  MutexGivenBack'
  BY <1>16 DEF DisconnectSet, Goto
<1>17. ASSUME NEW p \in {"task", "ctl"}, ~fault,
             DeinitFlag(p)
      PROVE  MutexGivenBack'
  BY <1>17 DEF DeinitFlag, Goto
<1>18. ASSUME NEW p \in {"task", "ctl"}, ~fault,
             Free(p, AfterTeardown(p))
      PROVE  MutexGivenBack'
  BY <1>18 DEF Free, Waits, BgAfter, AfterTeardown
<1>19. CASE ~fault /\ lte_connect_task_start
  BY <1>19 DEF lte_connect_task_start, Goto
<1>20. CASE StopFlag
  BY <1>20 DEF StopFlag, Goto
<1>21. CASE StopWait
  BY <1>21 DEF StopWait, Waited, Goto
<1>22. CASE StopClean
  BY <1>22 DEF StopClean, Cleanup, lte_handler_is_connected, Goto
<1>23. CASE StopDone
  BY <1>23 DEF StopDone, Goto
<1>24. CASE BgPoll
  BY <1>24 DEF BgPoll, Goto
<1>25. CASE BgAttempt
  BY <1>25 DEF BgAttempt, Goto
<1>26. CASE on_ip_event
  BY <1>26 DEF on_ip_event
<1>27. CASE on_ppp_changed
  BY <1>27 DEF on_ppp_changed
<1>28. CASE PppDown
  BY <1>28 DEF PppDown
<1>29. CASE PppDead
  BY <1>29 DEF PppDead
<1>30. CASE PppUp
  BY <1>30 DEF PppUp
<1>31. CASE UNCHANGED lteVars
  BY <1>31 DEF lteVars
<1>32. CASE \/ lte_handler_connect("task", "loop")
            \/ lte_handler_connect("bg", "poll")
  BY <1>32, <1>10, <1>11 DEF lte_handler_connect, AfterConnect
<1>33. ASSUME NEW p \in {"task", "ctl"}, ~fault, Teardown(p, AfterTeardown(p))
       PROVE  MutexGivenBack'
  BY <1>33, <1>12, <1>13, <1>14, <1>15, <1>16, <1>17, <1>18 DEF Teardown
<1>34. CASE ~fault /\ (Teardown("task", back) \/ Teardown("ctl", "cleared"))
  BY <1>33, <1>34 DEF AfterTeardown
<1> QED
  BY <1>1, <1>2, <1>3, <1>4, <1>5, <1>6, <1>7, <1>8, <1>9, <1>19, <1>20,
     <1>21, <1>22, <1>23, <1>24, <1>25, <1>26, <1>27, <1>28, <1>29, <1>30,
     <1>31, <1>32, <1>34
  DEF LteNext, lte_task, lte_connect_task_stop, lte_handler_bg_task,
      EventLoop

(* Nothing but a loss, new settings or a late stop disturbs lte_task.      *)
LEMMA UndisturbedStep ==
  ASSUME LteFlags, LtePoints, LteCounts, OneAtATime, ContextHeld, Marked,
         Undisturbed, [LteNext]_lteVars PROVE Undisturbed'
<1> USE DEF LteFlags, LtePoints, LteCounts, OneAtATime, ContextHeld, Marked,
            Undisturbed, Callers, TaskPoints, CtlPoints, BgPoints,
            CallPoints, States, Events, None, ctxVars, appVars, pppVars,
            boundVars, history
<1>1. CASE PowerWait
  BY <1>1, BoundsAssumption DEF PowerWait, Goto
<1>2. CASE Reinit
  BY <1>2, BoundsAssumption DEF Reinit, Goto
<1>3. CASE InitContext
  BY <1>3, BoundsAssumption DEF InitContext, Goto
<1>4. CASE InitModem
  <2>1. /\ pc["task"] = "modem"
        /\ UNCHANGED <<ctx, event, drops, reinits, late, initialized>>
    BY <1>4 DEF InitModem
  <2>2. CASE /\ pc' = [pc EXCEPT !["task"] = "mark", !["bg"] = "poll"]
             /\ state' = "CONNECTED"
    BY <2>1, <2>2
  <2>3. CASE pc' = [pc EXCEPT !["task"] = "deinit"] /\ back' = "loop"
    BY <2>1, <2>3
  <2>4. CASE UNCHANGED <<pc, state, back>>
    BY <2>1, <2>4
  <2> QED BY <1>4, <2>2, <2>3, <2>4 DEF InitModem, Goto
<1>5. CASE InitMark
  BY <1>5, BoundsAssumption DEF InitMark, Goto
<1>6. CASE Restart
  BY <1>6, BoundsAssumption DEF Restart, Goto
<1>7. CASE ~fault /\ CheckLink
  BY <1>7, BoundsAssumption DEF CheckLink, Goto, lte_handler_is_connected
<1>8. CASE Query
  BY <1>8, BoundsAssumption DEF Query, Goto
<1>9. CASE TaskExit
  BY <1>9, BoundsAssumption DEF TaskExit, Goto
<1>10. ASSUME NEW p \in {"task", "bg"},
             ConnectTake(p, AfterConnect(p))
      PROVE  Undisturbed'
  BY <1>10, BoundsAssumption DEF ConnectTake, AfterConnect, Goto
<1>11. ASSUME NEW p \in {"task", "bg"},
             ConnectLocked(p, AfterConnect(p))
      PROVE  Undisturbed'
  BY <1>11, BoundsAssumption DEF ConnectLocked, Already, AfterConnect, Goto
<1>12. ASSUME NEW p \in {"task", "ctl"}, ~fault,
             DisconnectStop(p, "disc", "discSet", "deinit")
      PROVE  Undisturbed'
  BY <1>12, BoundsAssumption DEF DisconnectStop, Linked, Goto
<1>13. ASSUME NEW p \in {"task", "ctl"}, ~fault,
             DisconnectSet(p, "discSet", "deinit")
      PROVE  Undisturbed'
  BY <1>13, BoundsAssumption DEF DisconnectSet, Goto
<1>14. ASSUME NEW p \in {"task", "ctl"}, ~fault,
             Deinit(p, AfterTeardown(p))
      PROVE  Undisturbed'
  BY <1>14, BoundsAssumption DEF Deinit, Linked, AfterTeardown, Goto
<1>15. ASSUME NEW p \in {"task", "ctl"}, ~fault,
             DisconnectStop(p, "disc2", "discSet2", "deinit2")
      PROVE  Undisturbed'
  BY <1>15, BoundsAssumption DEF DisconnectStop, Linked, Goto
<1>16. ASSUME NEW p \in {"task", "ctl"}, ~fault,
             DisconnectSet(p, "discSet2", "deinit2")
      PROVE  Undisturbed'
  BY <1>16, BoundsAssumption DEF DisconnectSet, Goto
<1>17. ASSUME NEW p \in {"task", "ctl"}, ~fault,
             DeinitFlag(p)
      PROVE  Undisturbed'
  BY <1>17, BoundsAssumption DEF DeinitFlag, Goto
<1>18. ASSUME NEW p \in {"task", "ctl"}, ~fault,
             Free(p, AfterTeardown(p))
      PROVE  Undisturbed'
  BY <1>18, BoundsAssumption DEF Free, Waits, BgAfter, AfterTeardown
<1>19. CASE ~fault /\ lte_connect_task_start
  BY <1>19, BoundsAssumption DEF lte_connect_task_start, Goto
<1>20. CASE StopFlag
  BY <1>20, BoundsAssumption DEF StopFlag, Goto
<1>21. CASE StopWait
  BY <1>21, BoundsAssumption DEF StopWait, Waited, Goto
<1>22. CASE StopClean
  BY <1>22, BoundsAssumption
  DEF StopClean, Cleanup, lte_handler_is_connected, Goto
<1>23. CASE StopDone
  BY <1>23, BoundsAssumption DEF StopDone, Goto
<1>24. CASE BgPoll
  BY <1>24, BoundsAssumption DEF BgPoll, Goto
<1>25. CASE BgAttempt
  BY <1>25, BoundsAssumption DEF BgAttempt, Goto
<1>26. CASE on_ip_event
  BY <1>26, BoundsAssumption DEF on_ip_event
<1>27. CASE on_ppp_changed
  BY <1>27, BoundsAssumption DEF on_ppp_changed
<1>28. CASE PppDown
  BY <1>28, BoundsAssumption DEF PppDown
<1>29. CASE PppDead
  BY <1>29, BoundsAssumption DEF PppDead
<1>30. CASE PppUp
  BY <1>30, BoundsAssumption DEF PppUp
<1>31. CASE UNCHANGED lteVars
  BY <1>31 DEF lteVars
<1>32. CASE \/ lte_handler_connect("task", "loop")
            \/ lte_handler_connect("bg", "poll")
  BY <1>32, <1>10, <1>11 DEF lte_handler_connect, AfterConnect
<1>33. ASSUME NEW p \in {"task", "ctl"}, ~fault, Teardown(p, AfterTeardown(p))
       PROVE  Undisturbed'
  BY <1>33, <1>12, <1>13, <1>14, <1>15, <1>16, <1>17, <1>18 DEF Teardown
<1>34. CASE ~fault /\ (Teardown("task", back) \/ Teardown("ctl", "cleared"))
  BY <1>33, <1>34 DEF AfterTeardown
<1> QED
  BY <1>1, <1>2, <1>3, <1>4, <1>5, <1>6, <1>7, <1>8, <1>9, <1>19, <1>20,
     <1>21, <1>22, <1>23, <1>24, <1>25, <1>26, <1>27, <1>28, <1>29, <1>30,
     <1>31, <1>32, <1>34
  DEF LteNext, lte_task, lte_connect_task_stop, lte_handler_bg_task,
      EventLoop

(* The invariant is inductive.                                             *)
LEMMA LteInductive == ASSUME LteInv, [LteNext]_lteVars PROVE LteInv'
  BY LteFlagsStep, LtePointsStep, LteCountsStep, OneAtATimeStep,
     ContextHeldStep, MarkedStep, FaultStep, MutexStep,
     UndisturbedStep
  DEF LteInv

(* The invariant holds in every state.                                     *)
LEMMA LteAlways == LteSpec => []LteInv
  BY LteInitInv, LteInductive, PTL DEF LteSpec

(* Every variable of the LTE connection keeps its type, and a context that *)
(* is freed (lte_handler_deinit) leaves neither a mutex taken nor the flag *)
(* of its background task.                                                 *)
THEOREM LteTypeCorrect == LteSpec => []LteTypeOK
<1>1. LteInv => LteTypeOK
  BY DEF LteInv, LteTypeOK, LteFlags, LtePoints, LteCounts
<1> QED BY LteAlways, <1>1, PTL

(* Freed memory is used (set_state, the background task, a second          *)
(* lte_handler_deinit), or the memory of a living lte_task reused, only    *)
(* after a stop that did not wait for lte_task or when the background task *)
(* was deleted holding the mutex; for any number of starts, new settings   *)
(* and losses of the link.                                                 *)
THEOREM LteFaultNeedsCause == LteSpec => []FaultNeedsCause
<1>1. LteInv => FaultNeedsCause
  BY DEF LteInv
<1> QED BY LteAlways, <1>1, PTL

(* lte_connect_task_stop, if it found lte_task ended, leaves no context,   *)
(* no background task and no mark of one: the next start begins afresh.    *)
THEOREM LteStoppedMeansDown == LteSpec => []StoppedMeansDown
<1>1. LteInv => StoppedMeansDown
  BY DEF LteInv, LtePoints, LteFlags, OneAtATime, ContextHeld, Marked,
         StoppedMeansDown
<1> QED BY LteAlways, <1>1, PTL

(* The mutex of the handler is held only between taking and giving it in   *)
(* lte_handler_connect, by who waits for himself included; no return of it *)
(* and no teardown leaves it taken.                                        *)
THEOREM LteMutexGivenBack == LteSpec => []MutexGivenBack
<1>1. LteInv => MutexGivenBack
  BY DEF LteInv
<1> QED BY LteAlways, <1>1, PTL

(* lte_task locks itself out over the mutex of lte_handler_connect only    *)
(* after the link was lost, a negotiation failed, the link was given up    *)
(* for new settings, or a stop that did not wait took it away; left alone, *)
(* the first connect after lte_handler_init finds a state that says        *)
(* connected, whatever the link is.                                        *)
THEOREM LteLockedNeedsTrouble == LteSpec => []LockedNeedsTrouble
<1>1. LteInv => LockedNeedsTrouble
  BY DEF LteInv, LteCounts, Undisturbed, LockedNeedsTrouble
<1> QED BY LteAlways, <1>1, PTL
=============================================================================
