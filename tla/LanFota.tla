------------------------------ MODULE LanFota ------------------------------
(***************************************************************************)
(* Coordination of a firmware update of both MCUs of the gateway.          *)
(*                                                                         *)
(* The uplink task of the WAN MCU (uplink_processor_task) talks to the LAN *)
(* MCU over SPI.  When the two firmware versions differ, or a server sent  *)
(* the command CFFW, it opens a WiFi access point, asks the LAN MCU to     *)
(* update itself, waits for its next handshake and then updates itself.    *)
(* Four parties interleave: the uplink task, the configuration task (which *)
(* executes server commands), the tasks that set the internet status, and  *)
(* the LAN MCU itself.  Each step between two accesses to shared state is  *)
(* an action of its own; pc is the uplink task's control point.            *)
(***************************************************************************)
EXTENDS Naturals

CONSTANTS
  Versions,          \* firmware versions
  ServerVersion,     \* the version the server offers to both MCUs
  LAN_FOTA_TIMEOUT,  \* LAN_FOTA_TIMEOUT_MS in units of the Tick action
  Commands,          \* kinds of configuration command that may arrive
  MaxCommands,       \* bound: configuration commands executed
  MaxFlips,          \* bound: changes of the internet status
  MaxRestarts        \* bound: restarts that no OTA task asked for

ASSUME VersionsAssumption == ServerVersion \in Versions
ASSUME TimeoutAssumption  == LAN_FOTA_TIMEOUT \in Nat \ {0}
ASSUME CommandsAssumption == Commands \subseteq {"CFFW", "ML", "FW"}
ASSUME BoundsAssumption   == /\ MaxCommands \in Nat
                             /\ MaxFlips \in Nat
                             /\ MaxRestarts \in Nat

VARIABLES
  pc,                        \* control point of the uplink task
  ret,                       \* where trigger_lan_fota_if_needed returns to
  g_waiting_for_lan_update,
  timer_armed,               \* g_lan_fota_wait_start_tick > 0
  elapsed,                   \* ticks since g_lan_fota_wait_start_tick
  g_wan_fota_in_progress,
  g_fota_trigger_pending,
  g_fota_pending_internet,
  g_internet_status,
  g_prev_internet_status,
  g_fota_request_pending,
  g_config_cache,            \* what the config cache holds for the LAN MCU
  s_fota_ap_running,
  cfg_pc,                    \* control point of the configuration task
  cfg_refused,               \* history: update_config refused a CFFW
  cffw,                      \* history: a CFFW arrived since the last start
  ota_tasks,                 \* running advanced_ota_task instances
  tx,                        \* last response loaded in the SPI TX buffer
  wan_version,               \* WAN_FW_VERSION of the running image
  lan_state,                 \* the LAN MCU: "boot", "run" or "update"
  lan_version,
  commands, flips, restarts  \* bounded counters

fotaVars == <<g_waiting_for_lan_update, timer_armed, elapsed,
              g_wan_fota_in_progress, g_fota_trigger_pending,
              g_fota_pending_internet>>
netVars  == <<g_internet_status, g_prev_internet_status>>
cfgVars  == <<g_fota_request_pending, g_config_cache, cfg_pc, cfg_refused,
              cffw>>
lanVars  == <<lan_state, lan_version>>
counters == <<commands, flips, restarts>>
vars == <<pc, ret, fotaVars, netVars, cfgVars, s_fota_ap_running, ota_tasks,
          tx, wan_version, lanVars, counters>>

UplinkPoints == {"handshake", "handshakeAck", "afterHandshake", "timeout",
                 "pending", "apStart", "trigger", "prev", "receive", "ack",
                 "wanFota"}

NumbersOK ==
  /\ elapsed \in 0..LAN_FOTA_TIMEOUT
  /\ ota_tasks \in Nat
  /\ commands \in 0..MaxCommands
  /\ flips \in 0..MaxFlips
  /\ restarts \in 0..MaxRestarts

FlagsOK ==
  /\ g_waiting_for_lan_update \in BOOLEAN
  /\ timer_armed \in BOOLEAN
  /\ g_wan_fota_in_progress \in BOOLEAN
  /\ g_fota_trigger_pending \in BOOLEAN
  /\ g_fota_pending_internet \in BOOLEAN
  /\ g_fota_request_pending \in BOOLEAN
  /\ s_fota_ap_running \in BOOLEAN
  /\ cfg_refused \in BOOLEAN
  /\ cffw \in BOOLEAN

ControlOK ==
  /\ pc \in UplinkPoints
  /\ ret \in {"handshakeAck", "ack", "prev"}
  /\ cfg_pc \in {"idle", "apStart", "update"}
  /\ g_internet_status \in {"OFFLINE", "ONLINE"}
  /\ g_prev_internet_status \in {"OFFLINE", "ONLINE"}
  /\ g_config_cache \in {"none", "fota", "command"}
  /\ tx \in {"none", "ACK", "CFFW", "other"}
  /\ wan_version \in Versions
  /\ lan_state \in {"boot", "run", "update"}
  /\ lan_version \in Versions

(* The values every variable may take.                                     *)
TypeOK == ControlOK /\ FlagsOK /\ NumbersOK

-----------------------------------------------------------------------------
(* The RAM of the WAN MCU after a start: static initialisers.              *)
RamInit ==
  /\ pc = "handshake"
  /\ ret = "prev"
  /\ g_waiting_for_lan_update = FALSE
  /\ timer_armed = FALSE
  /\ elapsed = 0
  /\ g_wan_fota_in_progress = FALSE
  /\ g_fota_trigger_pending = FALSE
  /\ g_fota_pending_internet = FALSE
  /\ g_internet_status = "OFFLINE"
  /\ g_prev_internet_status = "OFFLINE"
  /\ g_fota_request_pending = FALSE
  /\ g_config_cache = "none"
  /\ s_fota_ap_running = FALSE
  /\ cfg_pc = "idle"
  /\ cfg_refused = FALSE
  /\ cffw = FALSE
  /\ ota_tasks = 0
  /\ tx = "none"

Init ==
  /\ RamInit
  /\ wan_version \in Versions
  /\ lan_state = "boot"
  /\ lan_version \in Versions
  /\ commands = 0
  /\ flips = 0
  /\ restarts = 0

-----------------------------------------------------------------------------
(* The access point.  s_fota_ap_running is set when fota_ap_start has      *)
(* finished, seconds after its caller saw that the AP is not running; its  *)
(* failures are ignored by every caller.                                   *)
fota_ap_start == s_fota_ap_running' \in {s_fota_ap_running, TRUE}
Mutant_fota_ap_stop == UNCHANGED s_fota_ap_running  \* mutant: stops nothing
fota_ap_stop  == s_fota_ap_running' = FALSE

(* A wait for the LAN MCU with its timer, and the end of any wait.         *)
StartTimedWait ==
  /\ g_waiting_for_lan_update' = TRUE
  /\ timer_armed' = TRUE
  /\ elapsed' = 0

(* Mutant: the timer stops and the wait goes on.                           *)
MutantWaitGoesOn ==
  timer_armed' = FALSE /\ elapsed' = 0 /\ UNCHANGED g_waiting_for_lan_update

EndWait ==
  /\ g_waiting_for_lan_update' = FALSE
  /\ timer_armed' = FALSE
  /\ elapsed' = 0

(* fota_handler_task_start creates one more OTA task, or fails silently.   *)
fota_handler_task_start == ota_tasks' \in {ota_tasks, ota_tasks + 1}

(* The control point at which the uplink task opens the AP if it must.     *)
OpenApThenTrigger(return) ==
  /\ pc' = IF s_fota_ap_running THEN "trigger" ELSE "apStart"
  /\ ret' = return

(* trigger_lan_fota_if_needed up to its internet check.  The server's      *)
(* request is seen only when g_config_mutex could be taken.                *)
trigger_lan_fota_if_needed(return) ==
  \E locked \in BOOLEAN :
    LET server_fota == locked /\ g_fota_request_pending
        needed == /\ lan_version # wan_version \/ server_fota
                  /\ ~g_waiting_for_lan_update
                  /\ ~g_wan_fota_in_progress
    IN  \/ /\ ~needed
           /\ pc' = return
           /\ UNCHANGED <<ret, g_fota_pending_internet>>
        \/ /\ needed
           /\ g_internet_status = "OFFLINE"
           /\ g_fota_pending_internet' = TRUE
           /\ pc' = return
           /\ UNCHANGED ret
        \/ /\ needed
           /\ g_internet_status = "ONLINE"
           /\ OpenApThenTrigger(return)
           /\ UNCHANGED g_fota_pending_internet

(* Phase 1: nothing but a handshake of the LAN MCU is answered.            *)
perform_handshake_slave ==
  /\ pc = "handshake"
  /\ lan_state = "boot"
  /\ trigger_lan_fota_if_needed("handshakeAck")
  /\ UNCHANGED <<g_waiting_for_lan_update, timer_armed, elapsed,
                 g_wan_fota_in_progress, g_fota_trigger_pending, netVars,
                 cfgVars, s_fota_ap_running, ota_tasks, tx, wan_version,
                 lanVars, counters>>

(* Mutant: process_handshake returns without its ACK.                      *)
MutantLoadHandshakeAck ==
  /\ \/ pc = "handshakeAck" /\ pc' = "afterHandshake" /\ tx' = "ACK"
     \/ pc = "ack" /\ pc' = "timeout" /\ UNCHANGED tx
  /\ UNCHANGED <<ret, fotaVars, netVars, cfgVars, s_fota_ap_running,
                 ota_tasks, wan_version, lanVars, counters>>

(* Both handshake functions end by loading the ACK with the version.       *)
LoadHandshakeAck ==
  /\ \/ pc = "handshakeAck" /\ pc' = "afterHandshake"
     \/ pc = "ack" /\ pc' = "timeout"
  /\ tx' = "ACK"
  /\ UNCHANGED <<ret, fotaVars, netVars, cfgVars, s_fota_ap_running,
                 ota_tasks, wan_version, lanVars, counters>>

(* After phase 1: a server request already pending counts as a wait for    *)
(* the LAN MCU; the timer of that wait is not started.                     *)
AfterHandshake ==
  /\ pc = "afterHandshake"
  /\ pc' = "timeout"
  /\ \/ g_fota_request_pending /\ g_waiting_for_lan_update' = TRUE
     \/ UNCHANGED g_waiting_for_lan_update  \* nothing pending, or mutex busy
  /\ UNCHANGED <<ret, timer_armed, elapsed, g_wan_fota_in_progress,
                 g_fota_trigger_pending, g_fota_pending_internet, netVars,
                 cfgVars, s_fota_ap_running, ota_tasks, tx, wan_version,
                 lanVars, counters>>

(* Loop top: a timed wait that lasted too long is given up.                *)
CheckTimeout ==
  /\ pc = "timeout"
  /\ pc' = "pending"
  /\ IF g_waiting_for_lan_update /\ timer_armed
         /\ elapsed >= LAN_FOTA_TIMEOUT
       THEN EndWait /\ fota_ap_stop
       ELSE UNCHANGED <<g_waiting_for_lan_update, timer_armed, elapsed,
                        s_fota_ap_running>>
  /\ UNCHANGED <<ret, g_wan_fota_in_progress, g_fota_trigger_pending,
                 g_fota_pending_internet, netVars, cfgVars, ota_tasks, tx,
                 wan_version, lanVars, counters>>

(* Mutant: the postponed update runs the tail of                           *)
(* trigger_lan_fota_if_needed, which resets the WAN flag.                  *)
MutantCheckPendingInternet ==
  /\ pc = "pending"
  /\ IF /\ g_fota_pending_internet
        /\ g_internet_status = "ONLINE"
        /\ g_prev_internet_status = "OFFLINE"
       THEN OpenApThenTrigger("ack")
       ELSE pc' = "prev" /\ UNCHANGED ret
  /\ UNCHANGED <<fotaVars, netVars, cfgVars, s_fota_ap_running, ota_tasks,
                 tx, wan_version, lanVars, counters>>

(* An update postponed for want of internet starts on the edge from        *)
(* OFFLINE to ONLINE, as this task sees it.                                *)
CheckPendingInternet ==
  /\ pc = "pending"
  /\ IF /\ g_fota_pending_internet
        /\ g_internet_status = "ONLINE"
        /\ g_prev_internet_status = "OFFLINE"
       THEN OpenApThenTrigger("prev")
       ELSE pc' = "prev" /\ UNCHANGED ret
  /\ UNCHANGED <<fotaVars, netVars, cfgVars, s_fota_ap_running, ota_tasks,
                 tx, wan_version, lanVars, counters>>

(* The status is read a second time to remember it.                        *)
RememberInternet ==
  /\ pc = "prev"
  /\ pc' = "receive"
  /\ g_prev_internet_status' = g_internet_status
  /\ UNCHANGED <<ret, fotaVars, g_internet_status, cfgVars,
                 s_fota_ap_running, ota_tasks, tx, wan_version, lanVars,
                 counters>>

OpenAp ==
  /\ pc = "apStart"
  /\ pc' = "trigger"
  /\ fota_ap_start
  /\ UNCHANGED <<ret, fotaVars, netVars, cfgVars, ota_tasks, tx,
                 wan_version, lanVars, counters>>

(* Mutant: both call sites reset the WAN flag.                             *)
MutantResetsWan ==
  g_wan_fota_in_progress' = FALSE /\ g_fota_pending_internet' = FALSE

(* The assignments after send_fota_trigger_to_lan that differ at its two   *)
(* call sites: only trigger_lan_fota_if_needed resets the WAN flag.        *)
AfterTrigger ==
  /\ g_wan_fota_in_progress' = (ret = "prev" /\ g_wan_fota_in_progress)
  /\ g_fota_pending_internet' = FALSE

(* send_fota_trigger_to_lan and the assignments that follow it.            *)
SendTrigger ==
  /\ pc = "trigger"
  /\ pc' = ret
  /\ g_fota_trigger_pending' = TRUE
  /\ StartTimedWait
  /\ AfterTrigger
  /\ UNCHANGED <<ret, netVars, cfgVars, s_fota_ap_running, ota_tasks, tx,
                 wan_version, lanVars, counters>>

-----------------------------------------------------------------------------
(* Frames received in phase 2.                                             *)
ReceiveNothing ==
  /\ pc = "receive"
  /\ pc' = "timeout"
  /\ UNCHANGED <<ret, fotaVars, netVars, cfgVars, s_fota_ap_running,
                 ota_tasks, tx, wan_version, lanVars, counters>>

(* Mutant: the handshake is not asked for whose update it ends.            *)
MutantLanUpdated ==
  /\ ~g_wan_fota_in_progress
  /\ EndWait
  /\ g_wan_fota_in_progress' = TRUE
  /\ g_fota_request_pending' = FALSE
  /\ pc' = "wanFota"
  /\ UNCHANGED <<ret, g_fota_pending_internet>>

(* CASE 1 of process_handshake: whoever waits for the LAN MCU takes the    *)
(* handshake as the end of its update.  No ACK.                            *)
LanUpdated ==
  /\ g_waiting_for_lan_update
  /\ EndWait
  /\ g_wan_fota_in_progress' = TRUE
  /\ g_fota_request_pending' = FALSE
  /\ pc' = "wanFota"
  /\ UNCHANGED <<ret, g_fota_pending_internet>>

(* CASE 2 while the WAN MCU updates itself: no ACK, the LAN MCU retries.   *)
IgnoreHandshake ==
  /\ ~g_waiting_for_lan_update
  /\ g_wan_fota_in_progress
  /\ pc' = "timeout"
  /\ UNCHANGED <<ret, g_waiting_for_lan_update, timer_armed, elapsed,
                 g_wan_fota_in_progress, g_fota_pending_internet,
                 g_fota_request_pending>>

(* CASE 2 otherwise: check whether an update is needed, then ACK.          *)
AnswerHandshake ==
  /\ ~g_waiting_for_lan_update
  /\ ~g_wan_fota_in_progress
  /\ trigger_lan_fota_if_needed("ack")
  /\ UNCHANGED <<g_waiting_for_lan_update, timer_armed, elapsed,
                 g_wan_fota_in_progress, g_fota_request_pending>>

process_handshake ==
  /\ pc = "receive"
  /\ lan_state = "boot"
  /\ LanUpdated \/ IgnoreHandshake \/ AnswerHandshake
  /\ UNCHANGED <<g_fota_trigger_pending, netVars, g_config_cache, cfg_pc,
                 cfg_refused, cffw, s_fota_ap_running, ota_tasks, tx, wan_version,
                 lanVars, counters>>

(* The end of CASE 1: close the AP, start the update of this MCU.          *)
StartWanFota ==
  /\ pc = "wanFota"
  /\ pc' = "timeout"
  /\ fota_ap_stop
  /\ fota_handler_task_start
  /\ UNCHANGED <<ret, fotaVars, netVars, cfgVars, tx, wan_version, lanVars,
                 counters>>

(* downlink_handle_config_request: the cached command goes to the TX       *)
(* buffer, or stays cached when the mutex or the heap refuses.             *)
downlink_handle_config_request ==
  \/ /\ g_config_cache # "none"
     /\ tx' = IF g_config_cache = "fota" THEN "CFFW" ELSE "other"
     /\ g_config_cache' = "none"
  \/ UNCHANGED <<tx, g_config_cache>>

(* process_data_query: the LAN MCU asks for what is pending, in the code's *)
(* order of priority.  A pending CFCQ request and a pending downlink are   *)
(* both answered with an "other" frame.                                    *)
DataQueryTrigger ==
  /\ g_fota_trigger_pending
  /\ tx' = "CFFW"
  /\ g_fota_trigger_pending' = FALSE
  /\ UNCHANGED <<g_waiting_for_lan_update, timer_armed, elapsed,
                 g_config_cache>>

DataQueryCache ==
  /\ ~g_fota_trigger_pending
  /\ g_config_cache # "none"
  /\ downlink_handle_config_request
  /\ IF g_fota_request_pending /\ ~g_waiting_for_lan_update
       THEN StartTimedWait
       ELSE UNCHANGED <<g_waiting_for_lan_update, timer_armed, elapsed>>
  /\ UNCHANGED g_fota_trigger_pending

DataQueryOther ==
  /\ ~g_fota_trigger_pending
  /\ \/ tx' = "other"
     \/ g_config_cache = "none" /\ UNCHANGED tx
  /\ UNCHANGED <<g_waiting_for_lan_update, timer_armed, elapsed,
                 g_fota_trigger_pending, g_config_cache>>

process_data_query ==
  /\ pc = "receive"
  /\ lan_state = "run"
  /\ DataQueryTrigger \/ DataQueryCache \/ DataQueryOther
  /\ pc' = "timeout"
  /\ UNCHANGED <<ret, g_wan_fota_in_progress, g_fota_pending_internet,
                 netVars, g_fota_request_pending, cfg_pc, cfg_refused,
                 cffw, s_fota_ap_running, ota_tasks, wan_version, lanVars,
                 counters>>

(* [CF][CF]: the LAN MCU asks for the cached command itself.               *)
ConfigRequest ==
  /\ pc = "receive"
  /\ lan_state = "run"
  /\ pc' = "timeout"
  /\ downlink_handle_config_request
  /\ UNCHANGED <<ret, fotaVars, netVars, g_fota_request_pending, cfg_pc,
                 cfg_refused, cffw, s_fota_ap_running, ota_tasks, wan_version,
                 lanVars, counters>>

(* Every other frame: data, RTC and configuration answers may load a       *)
(* response and leave the update alone.                                    *)
OtherFrame ==
  /\ pc = "receive"
  /\ lan_state = "run"
  /\ pc' = "timeout"
  /\ tx' \in {tx, "other"}
  /\ UNCHANGED <<ret, fotaVars, netVars, cfgVars, s_fota_ap_running,
                 ota_tasks, wan_version, lanVars, counters>>

-----------------------------------------------------------------------------
(* The configuration task.  Each command is executed to its end before the *)
(* next one.                                                               *)
ReceiveCommand(kind) ==
  /\ cfg_pc = "idle"
  /\ kind \in Commands
  /\ commands < MaxCommands
  /\ commands' = commands + 1

(* ML:CFFW opens the AP first ...                                          *)
CffwCommand ==
  /\ ReceiveCommand("CFFW")
  /\ cfg_pc' = IF s_fota_ap_running THEN "update" ELSE "apStart"
  /\ cffw' = TRUE
  /\ UNCHANGED <<pc, ret, fotaVars, netVars, g_fota_request_pending,
                 g_config_cache, cfg_refused, s_fota_ap_running, ota_tasks,
                 tx, wan_version, lanVars,
                 flips, restarts>>

CffwOpenAp ==
  /\ cfg_pc = "apStart"
  /\ cfg_pc' = "update"
  /\ fota_ap_start
  /\ UNCHANGED <<pc, ret, fotaVars, netVars, g_fota_request_pending,
                 g_config_cache, cfg_refused, cffw, ota_tasks, tx, wan_version,
                 lanVars, counters>>

(* ... and then caches it for the LAN MCU (mcu_lan_handler_update_config). *)
CffwUpdateConfig ==
  /\ cfg_pc = "update"
  /\ cfg_pc' = "idle"
  /\ \/ /\ g_config_cache' = "fota"
        /\ g_fota_request_pending' = TRUE
        /\ UNCHANGED cfg_refused
     \/ /\ cfg_refused' = TRUE
        /\ UNCHANGED <<g_config_cache, g_fota_request_pending>>
  /\ UNCHANGED <<pc, ret, fotaVars, netVars, cffw, s_fota_ap_running, ota_tasks,
                 tx, wan_version, lanVars, counters>>

(* Any other ML command replaces what the cache holds, or is refused.      *)
LanCommand ==
  /\ ReceiveCommand("ML")
  /\ g_config_cache' \in {g_config_cache, "command"}
  /\ UNCHANGED <<pc, ret, fotaVars, netVars, g_fota_request_pending, cfg_pc,
                 cfg_refused, cffw, s_fota_ap_running, ota_tasks, tx, wan_version,
                 lanVars,
                 flips, restarts>>

(* FW: update this MCU alone.                                              *)
FwCommand ==
  /\ ReceiveCommand("FW")
  /\ fota_handler_task_start
  /\ UNCHANGED <<pc, ret, fotaVars, netVars, cfgVars, s_fota_ap_running, tx,
                 wan_version, lanVars,
                 flips, restarts>>

-----------------------------------------------------------------------------
(* mcu_lan_handler_set_internet_status, called from the server and network *)
(* tasks without any lock.                                                 *)
mcu_lan_handler_set_internet_status ==
  /\ flips < MaxFlips
  /\ flips' = flips + 1
  /\ g_internet_status' = IF g_internet_status = "ONLINE" THEN "OFFLINE"
                                                           ELSE "ONLINE"
  /\ UNCHANGED <<pc, ret, fotaVars, g_prev_internet_status, cfgVars,
                 s_fota_ap_running, ota_tasks, tx, wan_version, lanVars,
                 commands, restarts>>

Tick ==
  /\ timer_armed
  /\ elapsed < LAN_FOTA_TIMEOUT
  /\ elapsed' = elapsed + 1
  /\ UNCHANGED <<pc, ret, g_waiting_for_lan_update, timer_armed,
                 g_wan_fota_in_progress, g_fota_trigger_pending,
                 g_fota_pending_internet, netVars, cfgVars,
                 s_fota_ap_running, ota_tasks, tx, wan_version, lanVars,
                 counters>>

(* esp_restart: every static variable gets its initial value again.       *)
RamReset ==
  /\ pc' = "handshake"
  /\ ret' = "prev"
  /\ g_waiting_for_lan_update' = FALSE
  /\ timer_armed' = FALSE
  /\ elapsed' = 0
  /\ g_wan_fota_in_progress' = FALSE
  /\ g_fota_trigger_pending' = FALSE
  /\ g_fota_pending_internet' = FALSE
  /\ g_internet_status' = "OFFLINE"
  /\ g_prev_internet_status' = "OFFLINE"
  /\ g_fota_request_pending' = FALSE
  /\ g_config_cache' = "none"
  /\ s_fota_ap_running' = FALSE
  /\ cfg_pc' = "idle"
  /\ cfg_refused' = FALSE
  /\ cffw' = FALSE
  /\ ota_tasks' = 0
  /\ tx' = "none"

(* advanced_ota_task ends with a restart, whether it wrote a new image or  *)
(* gave up after its last attempt.                                         *)
advanced_ota_task ==
  /\ ota_tasks > 0
  /\ RamReset
  /\ wan_version' \in {wan_version, ServerVersion}
  /\ UNCHANGED <<lanVars, counters>>

(* Any other restart: the IN command, leaving CONFIG mode, a power loss.   *)
Restart ==
  /\ restarts < MaxRestarts
  /\ restarts' = restarts + 1
  /\ RamReset
  /\ UNCHANGED <<wan_version, lanVars, commands, flips>>

-----------------------------------------------------------------------------
(* The LAN MCU, known from the frames it exchanges with this code.         *)
LanReadAck ==
  /\ lan_state = "boot"
  /\ tx = "ACK"
  /\ lan_state' = "run"
  /\ UNCHANGED <<pc, ret, fotaVars, netVars, cfgVars, s_fota_ap_running,
                 ota_tasks, tx, wan_version, lan_version, counters>>

LanReadTrigger ==
  /\ lan_state = "run"
  /\ tx = "CFFW"
  /\ lan_state' = "update"
  /\ UNCHANGED <<pc, ret, fotaVars, netVars, cfgVars, s_fota_ap_running,
                 ota_tasks, tx, wan_version, lan_version, counters>>

(* It downloads its image through the access point, and restarts.          *)
LanUpdate ==
  /\ lan_state = "update"
  /\ lan_state' = "boot"
  /\ \/ s_fota_ap_running /\ lan_version' = ServerVersion
     \/ UNCHANGED lan_version
  /\ UNCHANGED <<pc, ret, fotaVars, netVars, cfgVars, s_fota_ap_running,
                 ota_tasks, tx, wan_version, counters>>

LanRestart ==
  /\ lan_state = "run"
  /\ lan_state' = "boot"
  /\ UNCHANGED <<pc, ret, fotaVars, netVars, cfgVars, s_fota_ap_running,
                 ota_tasks, tx, wan_version, lan_version, counters>>

-----------------------------------------------------------------------------
Uplink ==
  \/ perform_handshake_slave \/ LoadHandshakeAck \/ AfterHandshake
  \/ CheckTimeout \/ CheckPendingInternet \/ OpenAp \/ SendTrigger
  \/ RememberInternet \/ ReceiveNothing \/ process_handshake
  \/ StartWanFota \/ process_data_query \/ ConfigRequest \/ OtherFrame

ConfigTask == CffwCommand \/ CffwOpenAp \/ CffwUpdateConfig \/ LanCommand
              \/ FwCommand

Lan == LanReadAck \/ LanReadTrigger \/ LanUpdate \/ LanRestart

Next ==
  \/ Uplink \/ ConfigTask \/ Lan
  \/ mcu_lan_handler_set_internet_status \/ Tick
  \/ advanced_ota_task \/ Restart

Spec == Init /\ [][Next]_vars

(* The uplink task runs at priority 6 and never blocks for more than half  *)
(* a second; time passes; an OTA task makes a bounded number of attempts;  *)
(* the LAN MCU reads what it is sent and repeats its handshake until it is *)
(* answered.                                                               *)
Fairness ==
  /\ WF_vars(Uplink)
  /\ WF_vars(Tick)
  /\ WF_vars(advanced_ota_task)
  /\ WF_vars(LanReadAck)
  /\ WF_vars(LanUpdate)
  /\ SF_vars(process_handshake)

FairSpec == Spec /\ Fairness

-----------------------------------------------------------------------------
(* Properties.                                                             *)

(* The timeout at the loop top trusts g_lan_fota_wait_start_tick: it is    *)
(* never left running by a wait that is over.                              *)
TimerOnlyWhileWaiting == timer_armed => g_waiting_for_lan_update

(* fota_ap_start is called by two tasks and fota_ap_stop by one of them    *)
(* only: an open access point always has someone who will close it (a wait *)
(* for the LAN MCU, or a server request that becomes one), unless caching  *)
(* the server's command failed after the AP was opened for it.             *)
ApHasOwner ==
  s_fota_ap_running =>
    \/ g_waiting_for_lan_update
    \/ g_fota_request_pending
    \/ pc \in {"trigger", "wanFota"}
    \/ cfg_pc = "update"
    \/ cfg_refused

(* Once the WAN MCU has begun to update itself only a restart ends that:   *)
(* the assignment of FALSE at the end of trigger_lan_fota_if_needed never  *)
(* takes back an update that runs.                                         *)
WanFotaEndsByRestart ==
  [][g_wan_fota_in_progress /\ ~g_wan_fota_in_progress'
       => pc' = "handshake"]_vars

(* trigger_lan_fota_if_needed checks its two guards before fota_ap_start,  *)
(* which takes seconds, and acts on them after it: they are not stale.     *)
TriggerSound ==
  pc \in {"apStart", "trigger"} /\ ret # "prev" =>
    ~g_wan_fota_in_progress /\ ~g_waiting_for_lan_update

(* Until a CFFW command arrives, an update waits for the internet only     *)
(* while no other one is under way, and never runs beside the wait for the *)
(* LAN MCU.                                                                *)
MismatchOnly ==
  ~cffw =>
    /\ ~g_fota_request_pending /\ cfg_pc = "idle"
    /\ g_fota_pending_internet =>
         ~g_wan_fota_in_progress /\ ~g_waiting_for_lan_update
    /\ ~(g_wan_fota_in_progress /\ g_waiting_for_lan_update)
    /\ pc \in {"apStart", "trigger"} /\ ret = "prev" =>
         g_fota_pending_internet

(* Version mismatches alone drive the update through the cycle of          *)
(* FotaCycle: LAN MCU first, then this MCU, then a restart.  A CFFW        *)
(* command leaves the cycle, until the next restart.                       *)
Cycle == INSTANCE FotaCycle WITH phase <-
           IF cffw THEN "idle"
           ELSE IF g_waiting_for_lan_update THEN "lan"
           ELSE IF g_wan_fota_in_progress THEN "wan" ELSE "idle"
LanThenWan == Cycle!Spec

(* A wait for the LAN MCU whose timer runs ends, whatever the LAN MCU does *)
(* and however often the pending-internet path starts the timer again.     *)
TimedWaitEnds ==
  (g_waiting_for_lan_update /\ timer_armed) ~> ~g_waiting_for_lan_update

(* A LAN MCU that boots gets its handshake answered, at the latest after   *)
(* the restart that ends an update of this MCU; the exception is an update *)
(* whose task could not be created.                                        *)
HandshakeAnswered ==
  lan_state = "boot" ~>
    \/ lan_state = "run"
    \/ g_wan_fota_in_progress /\ ota_tasks = 0 /\ pc # "wanFota"

-----------------------------------------------------------------------------
(* What comments and documents say of this code, and the code does not do. *)

(* "CASE 1: LAN finished FOTA, now WAN starts its own FOTA".               *)
LanFinishedFirst ==
  [][~g_wan_fota_in_progress /\ g_wan_fota_in_progress'
       => lan_version = ServerVersion]_vars

(* "WAN FOTA is running (prevents re-trigger)".                            *)
NoRetriggerDuringWanFota ==
  ~(g_wan_fota_in_progress /\ g_waiting_for_lan_update)

(* "300 seconds timeout for LAN FOTA completion".                          *)
EveryWaitEnds == g_waiting_for_lan_update ~> ~g_waiting_for_lan_update

(* "marking FOTA pending - will trigger when online".                      *)
PendingUpdateStarts ==
  <>[](g_internet_status = "ONLINE") =>
    (g_fota_pending_internet ~> ~g_fota_pending_internet)
=============================================================================
