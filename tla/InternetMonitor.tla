-------------------------- MODULE InternetMonitor --------------------------
(***************************************************************************)
(* internet_monitor_task: it holds the web server and the server protocol  *)
(* back until there is a connection, then watches the primary connection,  *)
(* goes over to the fallback when it fails and comes back later.           *)
(*                                                                         *)
(* The connections themselves are the environment: link[c] says that the   *)
(* interface is up, reach[c] that the internet can be reached through it.  *)
(* A probe goes out through some interface that is started and up.         *)
(***************************************************************************)
EXTENDS Integers, FiniteSets

CONSTANTS
  Types,                  \* config_internet_type_t
  g_internet_type,        \* the primary connection
  g_internet_fallback_type,
  g_internet_fallback,    \* the fallback is enabled
  CONFIG_INTERNET_LTE,
  Startable,              \* Types that start: LTE has an APN, memory is there
  Servers,                \* config_server_type_t
  INTERNET_MONITOR_FAIL_THRESHOLD,
  INTERNET_MONITOR_RECOVER_THRESHOLD

ASSUME TypesAssumption ==
  /\ g_internet_type \in Types /\ g_internet_fallback_type \in Types
  /\ Startable \subseteq Types
ASSUME FallbackAssumption == g_internet_fallback \in BOOLEAN
ASSUME ThresholdAssumption ==
  /\ INTERNET_MONITOR_FAIL_THRESHOLD \in Nat \ {0}
  /\ INTERNET_MONITOR_RECOVER_THRESHOLD \in Nat \ {0}

VARIABLES
  mon,                  \* control point of the task; "off": it is deleted
  s_monitor_running, s_on_fallback, s_services_started,
  fail_count, recover_count,
  conns,                \* connections that are started
  link, reach,          \* the environment
  sntp_started,         \* Types whose task has initialized SNTP
  sntp_cb,              \* the Types whose callback is registered: one or none
  g_lte_sntp_synced,    \* LTE's callback has been called
  web,                  \* the web server: "off", "STA" or "AP"
  servers,              \* server handlers that are started
  g_server_type

monVars == <<mon, s_monitor_running, s_on_fallback, s_services_started,
             fail_count, recover_count, conns>>
sntpVars == <<sntp_started, sntp_cb, g_lte_sntp_synced>>
netVars == <<link, reach, sntpVars>>
srvVars == <<web, servers, g_server_type>>
vars == <<monVars, netVars, srvVars>>

MonitorPoints == {"off", "gate", "web", "server", "started", "delay",
                  "sleep", "probe", "stopped", "settle", "restore", "decide"}

(* The values every variable may take.                                     *)
TypeOK ==
  /\ mon \in MonitorPoints
  /\ s_monitor_running \in BOOLEAN
  /\ s_on_fallback \in BOOLEAN
  /\ s_services_started \in BOOLEAN
  /\ fail_count \in 0..INTERNET_MONITOR_FAIL_THRESHOLD
  /\ recover_count \in 0..INTERNET_MONITOR_RECOVER_THRESHOLD
  /\ conns \subseteq Types
  /\ link \in [Types -> BOOLEAN]
  /\ reach \in [Types -> BOOLEAN]
  /\ sntp_started \subseteq Types
  /\ sntp_cb \subseteq Types
  /\ g_lte_sntp_synced \in BOOLEAN
  /\ web \in {"off", "STA", "AP"}
  /\ servers \subseteq Servers
  /\ g_server_type \in Servers

start_connection(c) == conns' = conns \cup ({c} \cap Startable)
stop_connection(c) == conns' = conns \ {c}

(* app_main: the primary connection is started, then the monitor.          *)
Init ==
  /\ mon = "gate"
  /\ s_monitor_running = TRUE
  /\ s_on_fallback = FALSE
  /\ s_services_started = FALSE
  /\ fail_count = 0 /\ recover_count = 0
  /\ conns = {g_internet_type} \cap Startable
  /\ link \in [Types -> BOOLEAN]
  /\ reach \in [Types -> BOOLEAN]
  /\ sntp_started = {} /\ sntp_cb = {}
  /\ g_lte_sntp_synced = FALSE
  /\ web = "off" /\ servers = {}
  /\ g_server_type \in Servers

-----------------------------------------------------------------------------
(* The startup gate: until the connection is up and the clock set, until   *)
(* the time is over, or until the monitor is stopped.                      *)
Gate ==
  /\ mon = "gate"
  /\ mon' = IF ~s_monitor_running THEN "off"
            ELSE IF s_services_started THEN "started" ELSE "web"
  /\ UNCHANGED <<s_monitor_running, s_on_fallback, s_services_started,
                 fail_count, recover_count, conns, netVars, srvVars>>

(* web_config_handler_start does nothing when the server runs; that it may *)
(* fail is ignored.                                                        *)
StartWeb ==
  /\ mon = "web"
  /\ mon' = "server"
  /\ web' \in (IF web = "off" THEN {"STA", "off"} ELSE {web})
  /\ UNCHANGED <<s_monitor_running, s_on_fallback, s_services_started,
                 fail_count, recover_count, conns, netVars, servers,
                 g_server_type>>

start_server_by_type ==
  /\ mon = "server"
  /\ mon' = "started"
  /\ servers' = servers \cup {g_server_type}
  /\ s_services_started' = TRUE
  /\ UNCHANGED <<s_monitor_running, s_on_fallback, fail_count,
                 recover_count, conns, netVars, web, g_server_type>>

(* Without a fallback the task ends; s_monitor_running stays TRUE.         *)
AfterGate ==
  /\ mon = "started"
  /\ mon' = IF g_internet_fallback THEN "delay" ELSE "off"
  /\ UNCHANGED <<s_monitor_running, s_on_fallback, s_services_started,
                 fail_count, recover_count, conns, netVars, srvVars>>

(* The delays in which the task looks at s_monitor_running every second.   *)
Delay ==
  /\ mon \in {"delay", "sleep", "settle"}
  /\ mon' = IF ~s_monitor_running THEN "off"
            ELSE IF mon = "sleep" THEN "probe" ELSE "sleep"
  /\ UNCHANGED <<s_monitor_running, s_on_fallback, s_services_started,
                 fail_count, recover_count, conns, netVars, srvVars>>

(* internet_monitor_check_connectivity asks two hosts, through an interface *)
(* it does not choose.                                                     *)
CheckConnectivity(ok) ==
  LET Up == {c \in conns : link[c]}
  IN  IF Up = {} THEN ~ok ELSE \E c \in Up : ok = reach[c]

(* Mutant: the failures are forgotten in each round.                       *)
MutantForgetsFailures(ok) ==
  /\ mon' = "sleep"
  /\ fail_count' = 0
  /\ UNCHANGED conns

(* On the primary connection: the failures in a row are counted; at the    *)
(* threshold the primary connection is stopped.                            *)
ProbePrimary(ok) ==
  IF ok
    THEN mon' = "sleep" /\ fail_count' = 0 /\ UNCHANGED conns
    ELSE IF fail_count + 1 < INTERNET_MONITOR_FAIL_THRESHOLD
      THEN mon' = "sleep" /\ fail_count' = fail_count + 1 /\ UNCHANGED conns
      ELSE /\ mon' = "stopped"
           /\ fail_count' = fail_count + 1
           /\ stop_connection(g_internet_type)

(* On the fallback: the successes in a row are counted; at the threshold   *)
(* the primary connection is started next to it.                           *)
ProbeFallback(ok) ==
  IF ~ok
    THEN mon' = "sleep" /\ recover_count' = 0 /\ UNCHANGED conns
    ELSE /\ recover_count' = recover_count + 1
         /\ IF recover_count' < INTERNET_MONITOR_RECOVER_THRESHOLD
              THEN mon' = "sleep" /\ UNCHANGED conns
              ELSE mon' = "restore" /\ start_connection(g_internet_type)

Probe ==
  /\ mon = "probe"
  /\ \E ok \in BOOLEAN :
       /\ CheckConnectivity(ok)
       /\ \/ ~s_on_fallback /\ ProbePrimary(ok) /\ UNCHANGED recover_count
          \/ s_on_fallback /\ ProbeFallback(ok) /\ UNCHANGED fail_count
  /\ UNCHANGED <<s_monitor_running, s_on_fallback, s_services_started,
                 netVars, srvVars>>

(* 2 s later.                                                              *)
StartFallback ==
  /\ mon = "stopped"
  /\ mon' = "settle"
  /\ start_connection(g_internet_fallback_type)
  /\ s_on_fallback' = TRUE
  /\ fail_count' = 0 /\ recover_count' = 0
  /\ UNCHANGED <<s_monitor_running, s_services_started, netVars, srvVars>>

(* INTERNET_MONITOR_RESTORE_DELAY_MS, cut short when the monitor stops.    *)
RestoreDelay ==
  /\ mon = "restore"
  /\ mon' = "decide"
  /\ UNCHANGED <<s_monitor_running, s_on_fallback, s_services_started,
                 fail_count, recover_count, conns, netVars, srvVars>>

(* The switch on g_internet_type: the flag of LTE is never reset.          *)
PrimaryConnected ==
  IF g_internet_type = CONFIG_INTERNET_LTE
    THEN g_lte_sntp_synced
    ELSE g_internet_type \in conns /\ link[g_internet_type]

(* Mutant: the primary connection is not stopped again.                    *)
MutantDecide ==
  /\ mon = "decide"
  /\ mon' = "sleep"
  /\ fail_count' = 0 /\ recover_count' = 0
  /\ \E ok \in BOOLEAN :
       /\ CheckConnectivity(ok)
       /\ IF PrimaryConnected /\ ok
            THEN /\ stop_connection(g_internet_fallback_type)
                 /\ s_on_fallback' = FALSE
            ELSE UNCHANGED <<conns, s_on_fallback>>
  /\ UNCHANGED <<s_monitor_running, s_services_started, netVars, srvVars>>

(* Mutant: the fallback is never left.                                     *)
MutantDecideStays ==
  /\ mon = "decide"
  /\ mon' = "sleep"
  /\ fail_count' = 0 /\ recover_count' = 0
  /\ stop_connection(g_internet_type)
  /\ UNCHANGED <<s_monitor_running, s_on_fallback, s_services_started,
                 netVars, srvVars>>

(* The primary interface is up and a probe succeeds: the fallback is       *)
(* stopped; otherwise the primary connection is.                           *)
Decide ==
  /\ mon = "decide"
  /\ mon' = "sleep"
  /\ fail_count' = 0 /\ recover_count' = 0
  /\ \E ok \in BOOLEAN :
       /\ CheckConnectivity(ok)
       /\ IF PrimaryConnected /\ ok
            THEN /\ stop_connection(g_internet_fallback_type)
                 /\ s_on_fallback' = FALSE
            ELSE /\ stop_connection(g_internet_type)
                 /\ UNCHANGED s_on_fallback
  /\ UNCHANGED <<s_monitor_running, s_services_started, netVars, srvVars>>

Monitor ==
  \/ Gate \/ StartWeb \/ start_server_by_type \/ AfterGate \/ Delay
  \/ Probe \/ StartFallback \/ RestoreDelay \/ Decide

(* The task sees this at its next look at the flag.                        *)
internet_monitor_task_stop ==
  /\ s_monitor_running
  /\ s_monitor_running' = FALSE
  /\ UNCHANGED <<mon, s_on_fallback, s_services_started, fail_count,
                 recover_count, conns, netVars, srvVars>>

(* The environment.                                                        *)
NetworkChange(c) ==
  /\ \/ link' = [link EXCEPT ![c] = ~link[c]] /\ UNCHANGED reach
     \/ reach' = [reach EXCEPT ![c] = ~reach[c]] /\ UNCHANGED link
  /\ UNCHANGED <<sntpVars, monVars, srvVars>>

(* lte_init_sntp_once, wifi_init_sntp, eth_init_sntp: each once, when its  *)
(* interface comes up; the callback replaces that of the others.           *)
init_sntp(c) ==
  /\ c \in conns /\ link[c]
  /\ c \notin sntp_started
  /\ sntp_started' = sntp_started \cup {c}
  /\ sntp_cb' = {c}
  /\ UNCHANGED <<link, reach, g_lte_sntp_synced, monVars, srvVars>>

(* A time server has answered, through whichever interface.                *)
sync_notification ==
  /\ sntp_cb # {}
  /\ \E c \in conns : link[c] /\ reach[c]
  /\ g_lte_sntp_synced' = (g_lte_sntp_synced \/ CONFIG_INTERNET_LTE \in sntp_cb)
  /\ UNCHANGED <<link, reach, sntp_started, sntp_cb, monVars, srvVars>>

Next ==
  \/ Monitor \/ internet_monitor_task_stop
  \/ \E c \in Types : NetworkChange(c) \/ init_sntp(c)
  \/ sync_notification

Spec == Init /\ [][Next]_vars

(* The task runs, an interface that comes up initializes SNTP, and SNTP    *)
(* retries until it has the time.  Nothing is assumed of the network.      *)
FairSpec ==
  /\ Spec
  /\ WF_vars(Monitor)
  /\ \A c \in Types : WF_vars(init_sntp(c))
  /\ WF_vars(sync_notification)

-----------------------------------------------------------------------------
(* Properties.                                                             *)

(* Between two switches exactly the connection the monitor believes in is  *)
(* started: the primary one, or the fallback, never both and never none.   *)
OneConnection ==
  /\ g_internet_type # g_internet_fallback_type
  /\ mon \notin {"stopped", "restore", "decide"}
  => conns = Startable \cap {IF s_on_fallback THEN g_internet_fallback_type
                                              ELSE g_internet_type}

(* As long as the primary connection works it is kept.                     *)
GoodPrimaryKept ==
  [](link[g_internet_type] /\ reach[g_internet_type]) => [](~s_on_fallback)

(* When the primary connection fails for good and the fallback works, the  *)
(* fallback is used again and again, unless the monitor ends.              *)
FailsOver ==
  (<>[](/\ ~reach[g_internet_type]
        /\ link[g_internet_fallback_type] /\ reach[g_internet_fallback_type]))
    => []<>(s_on_fallback \/ mon = "off")

(* When both work for good the primary connection is used in the end, if   *)
(* the clock was ever set through LTE's callback where LTE is the primary. *)
ComesBack ==
  (<>[](/\ \A c \in {g_internet_type, g_internet_fallback_type} :
             link[c] /\ reach[c]
        /\ g_internet_type = CONFIG_INTERNET_LTE => g_lte_sntp_synced))
    => <>[](~s_on_fallback \/ mon = "off")

(* internet_monitor_task_stop does not wait for the task: wherever the     *)
(* task is, in a probe or half-way through a switch, it ends.              *)
StopEnds == ~s_monitor_running ~> mon = "off"

(* "When the primary recovers the fallback is torn down and the primary is *)
(* restarted."                                                             *)
PrimaryRecovers ==
  (<>[](link[g_internet_type] /\ reach[g_internet_type]))
    => []<>(~s_on_fallback \/ mon = "off")

(* "CRITICAL: Only initialize SNTP once to avoid assert failure."           *)
SntpInitializedOnce == Cardinality(sntp_started) <= 1

(* "If the primary comes back up with internet we move off fallback;       *)
(* otherwise we stay."                                                     *)
LeavesFallbackForInternet ==
  [][s_on_fallback /\ ~s_on_fallback' => reach[g_internet_type]]_vars
=============================================================================
