# DA2 gateway, WAN MCU: a TLA+ verification of the firmware

The repository is the firmware of the WAN MCU (ESP32-S3) of an IoT gateway.
A second MCU, the LAN MCU, talks to the radio devices; it is the SPI master
and its firmware is not in this repository. The WAN MCU connects to the
internet (WiFi, LTE or Ethernet), talks to a server (MQTT, HTTP or CoAP),
takes configuration from the server, a UART/USB console and a web page, and
updates the firmware of both MCUs. The tasks are FreeRTOS tasks that are not
pinned to a core: two of them may run at the same time, and most of what they
share is a plain global without a lock. There are no tests in the repository.

This directory holds TLA+ models of the parts where that matters, the TLC runs
that check them, and TLAPS proofs. `PROJECT.json` lists the components, the
runs, the mutants that show that each property can fail, the source lines
behind each definition, the disagreements found, the hazards and the theorems.

To check one run: `tlc -config LanFota_update.cfg LanFota`. To check the proofs
of a module: `tlapm LanFotaProofs.tla`.

## 1. Inventory

| Component (source) | State | Operations | Talks to | Hard because of |
|---|---|---|---|---|
| LAN MCU handler, uplink task (`MCU_LAN_Handler/src/mcu_lan_handler_uplink.c`) | handshake and update flags, timer, pending downlink, request state | handshake, DT, DQ, CF and CQ frames; timeout; update trigger | LAN MCU (SPI), config handler, FOTA, server handlers, UART, web server | flags written by several tasks, two MCUs that restart on their own, timeouts |
| LAN MCU handler, downlink side (`..._downlink.c`) | config cache and its waiter, request slot, downlink slot and queue, internet status, data-ready line | update_config, request_config_async, take waiter, enqueue downlink, set status | uplink task, every command source | check-then-act on unprotected globals, heap object shared with a timeout |
| Config handler (`Config_Handler/src/config_handler.c`, `config_load_save.c`) | command queue, current command, all stored settings (NVS) | receive, parse, save, hand on, answer, restart | all command sources, all components it configures | deferred answers, restart after an answer, full queue |
| Web configuration (`Web_Config_Handler/src/*.c`) | web server and its mode, waiter on the handler's stack | GET/POST of the configuration, LAN configuration, status, captive DNS | config handler, LAN MCU handler | 6 s timeout against a late answer, several commands per POST |
| UART handler (`Data_Communication_Handler/src/uart_handler.c`) | line buffer, mode callback | CF* commands, mode switch, config scan | config handler, LAN MCU handler, main task | a second requester beside the web server |
| Internet monitor (`Internet_Monitor_Handler/src/internet_monitor.c`) | running, on fallback, services started, two counters | gate, probe, fail over, restore, stop | connections, web server, server handlers | long multi-step switches, stop by a flag, an unreliable network |
| Connections (`Internet_Communication_Handler/*`) | task, event group, connected and SNTP flags | start, stop, events, retries | monitor, LAN MCU handler (status), HMI | callbacks against stop, static task memory reused |
| Server handlers (`Server_Communication_Handler/*`) | client, queues, RPC ids | start, stop, publish, receive, poll | config handler, LAN MCU handler | stop deletes what a task waits on, one slot for RPC ids |
| FOTA (`FOTA/src/fota_handler.c`, `fota_ap.c`) | OTA task, access point | start, download, restart; AP start and stop | LAN MCU handler, config handler | task creation may fail, AP started by two tasks |
| Main task (`main/DA2_esp.c`) | mode, requested mode, notification value, power rails | buttons, UART mode command, mode switch | everything it starts and stops | overwritten notifications, stop order, memory |
| Power (`main/pwr_*.c`), HMI (`HMI_Task`, `Middleware/HMI_Display`) | power state, screen | poll, callback, draw | main task | check-then-write of a rail against the callback |
| LTE middleware and modem drivers (`Middleware/LTE_Handler`, `BSP/*`) | modem state machine, UART/USB | connect, disconnect, AT commands | LTE connection | adapted vendor code, mostly I/O |
| LAN link driver (`BSP/MCU_LAN_Communication`) | SPI slave transactions | parse frame, load TX | LAN MCU handler | which frames are accepted at all |

What makes each component correct, in one line: an update happens LAN MCU
first, one at a time, and its access point is closed; a request for the LAN
configuration is answered into the buffer of the caller that waits, and leaves
no trace; a command's result reaches whoever sent it, once, and OK means done;
exactly one connection is up, the one the monitor believes in, and a dead one
is left; CONFIG mode has its portal and nothing of NORMAL mode under it.

## 2. Modules

| Module | Models | Checked by |
|---|---|---|
| `LanFota` | the coordination of the firmware update: uplink task, configuration task (CFFW, FW, other LAN commands), status writers, LAN MCU | `fota_update` |
| `FotaCycle` | abstract specification: idle, LAN update, WAN update, restart | refined by `LanFota` |
| `LanFotaProofs` | proofs about `LanFota` | tlapm |
| `ConfigRequest`, `MCConfigRequest` | `mcu_lan_handler_request_config_async` against the uplink task | `request_races` |
| `ConfigCommand`, `MCConfigCommand` | the path of a configuration command: POST handlers, queue, configuration task, cache, LAN MCU, routing of the answer | `command_posts` |
| `LanDownlink` | downlinks to the LAN MCU, the data-ready line, the answer to a DQ, ACK wait and retries, the SPI transaction and the frame parser | `downlink_link` |
| `InternetMonitor` | the monitor task over an arbitrary network, SNTP as the connections use it | `monitor_failover` |
| `ModeSwitch` | composes `InternetMonitor` with the main task's mode switch, the configuration task's change of the server type and the start of an update | `mode_modes` |
| `HttpRpc` | RPC commands polled over HTTP, the guards against doing one twice, and the way of the answer | `http_rpc` |
| `HttpTasks` | start and stop of the HTTP handler's tasks and queue by several tasks | `http_tasks` |
| `MqttTasks` | start, stop and re-initialization of the MQTT client, its tasks and its queue | `mqtt_tasks` |
| `LteLink` | the LTE connection's task over the context and the mutex of the LTE handler | `lte_link`, `lte_recover` |
| `WifiStation` | the WiFi station's tasks and events, and the steps of the update's access point, on one driver | `wifi_station` |
| `ConfigCommandProofs`, `LanDownlinkProofs`, `HttpTasksProofs`, `MqttTasksProofs`, `WifiStationProofs` | proofs about the module named | tlapm |
| `ConfigRequestProofs` | proofs about the two requests that wait for the LAN MCU's answer behind plain globals: `ConfigRequest` and `HttpRpc` | tlapm |
| `ModeSwitchProofs` | proofs about `InternetMonitor`, its composition `ModeSwitch`, and `LteLink`, the connection with the most states of those it starts and stops | tlapm |

Conventions. A variable that is a C variable has its name. Control points (`pc`,
`up`, `task`, `mon`, `main`...) name the place of a task between two accesses
to shared state; everything between two points is one step, because nothing
another task can see happens in between. A history variable only records what
happened and is never read by an action that models code; most of them name an
overlap of two tasks, so that a property can say: this goes wrong only through that
overlap, and through nothing else. A variable `fault` stands for the use of NULL or of
freed memory, after which nothing is modelled. A definition whose
name begins with `Mutant` is a plausible bug in the definition that follows it;
no specification uses it, it shows that a property can fail.

### LanFota

`pc` walks through `uplink_processor_task`: boot handshake, then the loop of
timeout check, pending-internet check, the second read of the status, receive.
`trigger_lan_fota_if_needed` is entered from two places (`ret`) and split
around `fota_ap_start` and its 500 ms delay, since the configuration task may
open the same access point meanwhile. The tick counter is the pair
`timer_armed`/`elapsed`: the code uses the tick value 0 for "no timer". The
LAN MCU is external: it boots and repeats its handshake until it is answered,
reads what is loaded for it, updates itself (to the server's version or not at
all) and may restart at any time. `advanced_ota_task` ends in a restart whether
the download worked or not.

### ConfigRequest

Every access to `g_config_req_async`, `g_active_config_request_ptr`,
`g_active_config_request_valid` and `g_config_req_state` is a step. `races`
records which of three overlaps a behaviour went through.

### ConfigCommand

A POST walks through its sections in the order of the code, queues a command
with the address of its one waiter and waits. The configuration task executes,
answers and, for an internet type, restarts. Commands for the LAN MCU are
cached; the uplink task delivers them and routes what comes back by the source
of the last command cached. `WriteResult`/`GiveResult` are
`config_result_signal_waiter`; a waiter is alive while its POST is served.
Parsing decides only whether a command succeeds, so it is a choice. A success copies the
settings into those in use (`taken`); then they are stored and, for WiFi, MQTT and LTE,
sent to the component's queue, and nobody looks at the results of either (`saved` is a
choice of its own, in `TakeOver`). OK therefore means taken and not saved.

### InternetMonitor, ModeSwitch

`link[c]`/`reach[c]` are the network; a probe succeeds only if it can go out
through a started connection that is up and has internet, and it is not bound
to an interface. `PrimaryConnected` is what the code asks: for LTE the sticky SNTP
flag, otherwise the link. `internet_monitor_task_stop` clears a flag that the
task reads in its delays. `ModeSwitch` extends it by the main task, whose single
notification value is overwritten, by SV commands, and by what else touches the web server:
`fota_handler_task_start` stops it in either mode, on behalf of the configuration or the
uplink task, and an update or an IN command restarts the MCU at any time. `httpd_start` may
fail, in the monitor and in the mode switch, and nobody tries again. A start and a stop of
the web server are one step each; two tasks inside them at once are a hazard that is listed
and not modelled. GPIO3 toggles
`battery_source_enabled`; the power rails that follow it belong to the planned
`PowerRails`.

### LanDownlink

`up` is the uplink task between its transactions, in `process_data_query` and in
the ACK wait of `send_downlink_to_lan`; `enq` the MQTT client's task in `mcu_lan_enqueue_downlink`; `oth`
whoever caches a command or requests the configuration and then drives the line. A
packet is allocated by the length of `g_pending_downlink` and filled from it later, so
`alloc` and the item are apart; id 0 is an item that is being copied. `tx` and
`transaction_queued` are the link driver: a transaction is queued with the TX buffer and
ends with a frame of the LAN MCU, of which the parser accepts few during the wait for
an ACK. The trigger of an update, which `process_data_query` puts before everything else, is
in `LanFota`; the stop of the handler is never called and `spi_slave_queue_trans` is
taken to succeed. A data frame that is too short or incomplete gets no ACK.

### HttpRpc, HttpTasks

`HttpRpc` has the polling task, the publishing task and the three plain variables they
share: `s_last_rpc_id` (who gets the next answer), `s_processing_rpc_id` (in flight) and
`s_cooldown_rpc_id`. An item is `Telemetry` or the command which the LAN MCU answers with it; the
code cannot know that, and no action reads it. `RightAnswer` compares it with the command it is posted to
(`url`). Two histories say when they may differ: commands overlapped, or telemetry was ahead of an answer (`mixed`): queued, or in the publishing task's
hand, when the command was accepted, or queued between that and the answer.
The server is external: it offers a command until some time after its answer and takes
the first answer. The connected flag and the internet status that requests report are
left to `HttpTasks`, which has the life of both tasks and of the queue, and no commands. The
three variables are static and survive a stop.

In `HttpTasks` some tasks start the handler (`Starters`: the monitor and the configuration task) and some
stop it (`Stoppers`: the configuration task and the main task, whose own start function nobody calls).
`ctl` is where each of them is: a start tests the flag, then the handle, makes a queue, sets the flags and
creates the two tasks, each a step of its own; a stop tests nothing and may run inside a start. The creation of a queue with its
memory is one step, and so are the assignments to the flags at the beginning of a stop. A publishing task that
gets no buffers counts as one that was not created. Four histories name
the overlaps: `doubled` (two starts), `crossed` (a stop and a start, or two stops), `quick` (a start before the tasks of
the last one have ended), `caught` (the queue was deleted under its user). The CoAP handler's start, stop and loops
are the same under other names.

### MqttTasks

Clients are numbered: `clients` exist, `online` are connected, `m_client` is the handle.
`StopFlags`, `StopWait`, `StopClient`, `StopDestroy` and `StopQueue` are
`mqtt_handler_task_stop` between its delays; `mqtt_reinit`, in the configuration task, takes
two seconds and does not look at the flags. `using` and `enq_queue` are handles a task
has read for a call. The caller starts only a handler that is stopped; two starts at
once are in `ModeSwitch`.

### LteLink

`ctx` exists from `lte_handler_init` to the end of `lte_handler_deinit`; three callers and
the event loop follow it. `lte_handler_connect` takes the mutex and calls `set_state`, which
takes it again without a timeout; it is not a recursive mutex, so the caller waits for
itself (`"self"`), and the state CONNECTING is never reached. `InitModem` sets CONNECTED before
there is a link, which is why the first connect returns early and does not lock. The
number of reconnects is not limited (the default 0) and their throttling is only a
delay. An `lte_handler_init` that failed is retried only with new settings. `is_internet_connected`
is a global that the other connections write too: it is arbitrary at first, and a stop leaves it
as it is. The events are those of `on_ip_event` and of `on_ppp_changed`, which sets DISCONNECTED also when a
negotiation fails that never had a link (`PppDead`); both may come at any time, during the
initialization too, and wait for the mutex in `set_state`.

### WifiStation

`init[i]` and `conf[i]` are the two tasks of start `i`, since a stop does not wait for them and
the next start finds them alive; `ctl` is the caller of a stop between the driver and the
event group; `events` is the queue of the event loop, handled from its head; `fota` is the
uplink task in `fota_ap.c`. The driver is external: it keeps its mode over a stop, a second
initialization changes nothing, a configuration for an interface that the mode does not have
fails its check, and a station that is shut down while it connects may report that or not.
`fault` is a failed ESP_ERROR_CHECK or the use of a deleted event group. Calls to the driver
that follow each other without a wait are one step. What the credentials are does not matter,
only that new ones came; a failed take of the mutex in `event_handler` is an event that came
before them. The CONFIG portal, for which the station is torn down, is in `ModeSwitch`, SNTP in
`InternetMonitor`, the access point's second opener (the configuration task) in `LanFota`.

## 3. Runs

Passing runs.

| Run | Properties | Shows | Distinct states |
|---|---|---|---|
| `fota_update` | `ApHasOwner`, `TriggerSound`, `LanThenWan`, `WanFotaEndsByRestart`, `TimedWaitEnds`, `HandshakeAnswered` | access point and trigger guards stay consistent while two tasks and two MCUs interleave; only a restart ends a WAN update; timed waits end, handshakes are answered; until CFFW is used, the abstract cycle LAN, WAN, restart is implemented (refinement) | 380 thousand |
| `request_races` | `FaultNeedsRace`, `WaitingIsRegistered`, `RestIsClean` | memory is misused only through an overlap of two requests or a timeout inside an answer; the waiting request is the registered one; nothing is left behind at rest | 2.9 million |
| `command_posts` | `FaultNeedsTimeout`, `WaiterHeldOnce`, `OkMeansTaken`, `LastAnswerReachesSource`, `PostEnds` | a POST's waiter is used after its return only after a timeout; it is held in exactly one place; OK means that the settings are the ones in use; the last answer goes to its source; every POST ends, also with a restart in its middle and a full queue | 1.9 million |
| `monitor_failover` | `OneConnection`, `FailsOver`, `ComesBack` | exactly one connection; failing over and coming back happen | 13 thousand |
| `mode_modes` | `PortalUnlessRace`, `OneServerUnlessRace` | CONFIG mode has its portal unless the monitor was stopped at its gate, the portal did not start or an update stopped it; one server handler runs unless the monitor started one inside an SV command | 10.3 million |
| `downlink_link` | `WholePackets`, `AcceptedReachesTx`, `NoFalseAck`, `DownlinksArrive` | packets are whole and what was accepted is loaded unless downlinks overlap; no ACK for a dropped frame; downlinks arrive | 1.2 million |
| `http_rpc` | `ForwardedOnce`, `GuardHasCause`, `RightAnswer`, `CommandsServed` | a command is forwarded once unless commands overlap; the answer the server takes is its own unless commands overlap or telemetry is ahead of it; the guard for a command in flight is not held without a cause; commands are forwarded, and answered if they come alone | 1.8 million |
| `http_tasks` | `FaultNeedsCatch`, `OneOfEachUnlessQuick`, `RoomAgain` | with two tasks that start and one that stops: NULL or a deleted queue is used only by who was past its test, or if a stop met a start; tasks stay single unless two starts met or one came too soon; a full queue is emptied again over stops, starts and failed requests | 2.1 million |
| `mqtt_tasks` | `NoStray`, `OnePublisher`, `FaultNeedsCatch`, `ConnectedIsTrue` | no stray client or task unless a reconfiguration crosses a stop or a start; a destroyed client is used only by who had its handle; the connected flag is true | 1.2 million |
| `lte_link` | `FaultNeedsCause`, `StopReturns` | memory is misused only after a stop that did not wait long enough or when the background task is deleted while it holds the mutex; a stop returns | 630 thousand |
| `wifi_station` | `FaultNeedsCause`, `StatusIsTrue`, `RunningApServes`, `IdleHasCause` | a deleted event group or a driver in the wrong mode is met only if a stop caught a task or events on their way, or if the connection changed beside the access point; the reported connection is true once the events are handled; an access point that counts as running is on the air; a station that was ignored for its sake is not forgotten | 6.3 million |

The violation run states a comment of the code that its behaviour does not meet; the finding
in `PROJECT.json` quotes it.

| Run | Refuted statement |
|---|---|
| `lte_recover` | `PppRecovers`: "we always want the application-level task to recover PPP": the reconnect takes a mutex twice and waits for itself, and so does the event that would report the new link |

Further definitions hold and belong to no run. Proved (section 4): the type invariants of all
modules; `TimerOnlyWhileWaiting` and `MismatchOnly` (`LanFota`); `OkMeansAnswered`
(`ConfigRequest`); `NoStationUnlessRace` (`ModeSwitch`); `AnswersHeard`, `WakeUpKept`, `TxStableWhileQueued`,
`DownlinkBudget` (`LanDownlink`); `OfflineUnlessCarried` (`HttpTasks`); `NoFreeUnderReceive` (`MqttTasks`);
`StoppedMeansDown`, `LockedNeedsTrouble`, `MutexGivenBack` (`LteLink`).
Checked by TLC when they are added to the configuration of their module's run: `GoodPrimaryKept`,
`StopEnds` (`InternetMonitor`); `StopEnds` (`HttpTasks`, `MqttTasks`).

### What the comments say and the models refute besides

These definitions state further comments. They belong to no run; TLC refutes
each when it is added to the configuration named.

| Definition (module) | Comment | Add to |
|---|---|---|
| `PendingUpdateStarts` (`LanFota`) | uplink l.411 "will trigger when online": the change to online is lost when it falls between two reads of the status | `LanFota_update.cfg` |
| `CredentialsTakenUp` (`WifiStation`) | `wifi_connect.c` l.418 "will connect on next attempt": once the retries have run out nobody makes one | `WifiStation_station.cfg`, with `MaxStarts = 1`, `MaxAps = 0` |
| `ApComesUp` (`WifiStation`) | `fota_ap.c` l.122 "WiFi was not running (LTE / Ethernet case)", bring it up: after a stop of the station the driver still has a mode, which is taken for a running station, and the access point never starts | `WifiStation_station.cfg` |
| `OneRequestAtATime` (`ConfigRequest`) | downlink l.455 "Config request already in progress": check and set are 30 lines apart without a lock | `ConfigRequest_races.cfg` |
| `OkMeansSaved` (`ConfigCommand`) | `WEB_CONFIG_DATAFLOW.md` l.128-231, each section "Saved to: NVS": `config_handler.c` ignores the results of the saves and of the sends to the components (l.1142-1145 and the other commands) and answers OK | `ConfigCommand_posts.cfg` |
| `LteBeforeInternet` (`ConfigCommand`) | `api_config.c` l.694, LTE "must be sent before" the internet type: the section `internet_type` comes first and restarts the MCU | `ConfigCommand_posts.cfg`, with `Bodies = {{"internet_type", "lte"}}` |
| `PrimaryRecovers` (`InternetMonitor`) | monitor, "When the primary recovers the fallback is torn down": not when the fallback has no internet | `InternetMonitor_failover.cfg` |
| `OnlyAnswersPosted` (`HttpRpc`) | `http_handler.c` l.476 "Check if this is an RPC response": telemetry that the publishing task has in hand when a command is accepted is posted as the answer to it, and the server takes it | `HttpRpc_rpc.cfg` |
| `OnlyNewForwarded` (`HttpRpc`) | `http_handler.c` l.335, only "genuinely new" commands are forwarded: one offered beyond the cooldown of its id is forwarded again | `HttpRpc_rpc.cfg` |
| `LanFinishedFirst` (`LanFota`) | uplink l.511 "LAN finished FOTA, now WAN starts its own FOTA": any handshake during the wait counts, also of a LAN MCU that only restarted | `LanFota_update.cfg` |
| `NoRetriggerDuringWanFota` (`LanFota`) | uplink l.67 "prevents re-trigger": a mismatch pending for the internet triggers under a WAN update that CFFW led to | `LanFota_update.cfg` |
| `EveryWaitEnds` (`LanFota`) | uplink l.36 "300 seconds timeout": the wait of l.232 has no timer | `LanFota_update.cfg` |
| `CompletedByAck` (`ConfigCommand`) | uplink l.656 "using the LAN ACK payload": device data completes the request too | `ConfigCommand_posts.cfg` |
| `DataForwarded` (`ConfigCommand`) | `Comm_Hanlder.md` l.86-89, data to the server: after a UART or web command it goes there | `ConfigCommand_posts.cfg` |
| `LeavesFallbackForInternet` (`InternetMonitor`) | monitor l.289 "If the primary comes back up with internet we move off fallback; otherwise we stay" | `InternetMonitor_failover.cfg` |
| `SntpInitializedOnce` (`InternetMonitor`) | `wifi_connect.c` l.87 "Only initialize SNTP once": one flag per interface | `InternetMonitor_failover.cfg` |
| `PortalIsAp` (`ModeSwitch`) | `DA2_esp.c` l.506 "must be torn down before we can start the AP portal": the stopped monitor starts it again | `ModeSwitch_modes.cfg` |
| `StoppedBeforeAp` (`ModeSwitch`) | `DA2_esp.c` l.495 "BEFORE starting WiFi AP": the code that stops the connection is commented out | `ModeSwitch_modes.cfg` |

### Bounds

- `LanFota`: two versions (agreeing and differing), a timeout of two ticks (one
  in time, one too late), one command per run of each kind, two changes of the
  internet status (off and on again), one restart nobody asked for. The proofs
  hold for every bound, so small ones suffice for the safety properties; for
  liveness, one disturbance of each kind after which the system must go on.
- `ConfigRequest`: two requesters (there are two in the code, interchangeable,
  hence the symmetry) and three calls: two that overlap and one that finds what
  they left.
- `ConfigCommand`: two POSTs, so that a late answer to the first meets the second;
  one command from elsewhere, enough to replace a cached one; a queue of one place
  instead of 20, so that it is full; POSTs with one section (the restart among them),
  with several on one waiter, and with none.
- `InternetMonitor`: the thresholds of the code, 3 and 6; two connection types, as the
  code knows a primary and a fallback. The network is not bounded.
- `ModeSwitch`: thresholds of 1 (the monitor's counting is not the question), a
  network that is arbitrary at first and changes at most once.
- `LanDownlink`: a queue of two places instead of 20 and three downlinks, so that it
  fills; two lengths, so that a packet can be too short; two attempts for an ACK (one
  retry); one other payload, enough to compete for the line.
- `HttpRpc`: two commands, so that they can overlap; one item of telemetry, to be taken for an answer or to
  fill the queue, which has one place.
- `HttpTasks`: two tasks that start, one of which stops as well, and two starts, so that two starts meet,
  a start and a stop meet, and a stopped task meets the next start; a queue of one place. With the main task as a
  second one that stops the two invariants hold as well (7.6 million states); the proofs need no bound.
- `MqttTasks`: two starts, so that a stopped task meets the next one; one new configuration; a queue
  of one place.
- `LteLink`: two starts, two re-initializations and two losses or failed negotiations, so that the
  second of each meets what the first left; `lte_recover` needs one loss.
- `WifiStation`: two starts, so that the second meets the tasks and the driver of the first; one
  opening of the access point, one loss of the network and one set of credentials, each at any
  time; one retry, so that the retries run out. `IdleHasCause` also holds with two openings and
  two losses after one start.

### Fairness

- `LanFota`: the uplink task runs (its receive has a timeout), time passes, the OTA
  task makes a bounded number of attempts and restarts, the LAN MCU reads what it is
  sent, finishes its update attempt and repeats its handshake until it is answered
  (strong fairness of `process_handshake`: the link may be busy with other frames,
  not for ever). No fairness on commands or on the internet status.
- `ConfigCommand`: the web server task and the configuration task run; nothing is
  promised of the LAN MCU, which is why the timeout is needed.
- `InternetMonitor`: the monitor task runs, an interface that comes up initializes SNTP,
  SNTP retries. Nothing is assumed of the network: the properties say what follows if
  it behaves for good.
- `LanDownlink`: the tasks run, and the LAN MCU answers an edge with DQ in the end (strong
  fairness: it may be busy with other frames, not for ever).
- `HttpRpc`: both tasks run, the server offers a command that is open again and again
  (strong fairness, since the task is often elsewhere), and the LAN MCU's answers come.
- `HttpTasks`, `MqttTasks`: the tasks run, those that start and stop the handler included; requests and
  waits end by their timeouts. No start, stop or item is promised.
- `LteLink`: the tasks and the event loop run (`EventLoop`: both handlers are called by the one
  task of the event loop), and the modem finds the network again.
- `WifiStation`: the tasks, the event loop and the driver run; the run's properties are safety
  properties, so this matters only to `CredentialsTakenUp`.
- `ModeSwitch`, `ConfigRequest`: none; their properties are safety properties.

Deadlock is checked except in `HttpRpc`, `HttpTasks`, `MqttTasks`, `LteLink` and `WifiStation`: their inputs are
bounded and all of their tasks may end or wait, and a fault ends the model. The other
specifications have no terminal states: a task that waits can always be given something,
up to the bounds, and the idle receive of the uplink task and the network keep stepping.

## 4. Proofs

`LanFotaProofs`, for every set of versions, timeout, command set and bound:

- `TypeCorrect`: the type invariant is inductive. It is split into control points,
  flags and numbers, one lemma each, because the provers take strings, Booleans and
  arithmetic best apart; each lemma has one case per action.
- `TimerStops`, `ApOwned`, `GuardsNotStale`: the three invariants
  `TimerOnlyWhileWaiting`, `ApHasOwner`, `TriggerSound` are inductive only together
  (`Owned`): the timeout may close the access point only because the timer belongs to
  a wait, and `SendTrigger` may start a wait only because its guards still hold.
- `WanFotaIsFinal`: the action property `WanFotaEndsByRestart`, from `TriggerSound`: the
  assignment at the end of `trigger_lan_fota_if_needed` never meets a set flag.
- `MismatchAlways`, `CycleRefined`: until a CFFW command is served (history `cffw`)
  `MismatchOnly` is invariant, and with it every step is a step of `FotaCycle` or a
  stutter. After CFFW the cycle does not hold (see `NoRetriggerDuringWanFota` above).

The other proof modules are laid out alike: the parts of the inductive invariant `Inv` as named
definitions, lemmas about the operators of the model, one lemma per part with a case for each action,
`Invariance`, and the theorems. TLC has checked each `Inv` on the module's run before it was
proved. The bounds that make the runs finite (numbers of calls, starts, losses...) are arbitrary
natural numbers in the proofs, so nothing depends on their being small.

`ModeSwitchProofs`, first for the monitor by itself, for every set of connection types, any primary
and fallback among them and all thresholds; this part does not use the assumptions of `ModeSwitch`:

- `MonitorTypeCorrect` and `OneConnectionAlways`. `OneConnection` says nothing at the
  points inside a switch, so it is not inductive. `MonitorInv` adds what is started there
  (none between stop and start, both while the primary is tried: `Started`), on
  which side each switch is made (`Sides`), and that a counter reaches its threshold
  only inside the switch it starts (`Counters`), without which the counters would
  leave their range. The assumption that primary and fallback differ is part of
  `OneConnection`: the configuration may set them equal, and then nothing of the
  kind holds.

Then for the composition, where other tasks start and stop what the monitor works on, and the
primary is not LTE (as in the model):

- `ModeTypeCorrect`, `PortalInConfigMode`, `NoStationUnderAp`, `OneServer`. `Stopped` says what the main task may rely on
  once it has cleared the monitor's flag (the monitor passes no gate and begins no probe it was not
  already in), `Portal` follows the web server through the points of the switch as long as nobody took it away (`portal_lost`), and `ServerOfType` the
  servers through an SV command.

And for the LTE connection, for any number of starts, re-initializations and losses of the link:

- `LteFaultNeedsCause`. The property became sharper in its proof: a reconnect that waits for itself
  was one of the causes it allowed, but lte_task then never ends in time, so the stop that misuses
  the context is one that did not wait, which is a cause already. The argument, while every stop
  has waited: only one of lte_task and its stopper is inside the handler (`OneAtATime`); nobody
  there is without a context (`ContextHeld`); the mark `initialized` is right wherever it is
  tested (`Marked`). None of the three is inductive without the others.
- `LteMutexGivenBack`: who holds the mutex is inside a connect or waits for himself. `LteStoppedMeansDown` follows from `Marked` and `OneAtATime`.
- `LteLockedNeedsTrouble`: lte_task waits for itself only after a loss, a failed negotiation, new settings
  or a stop that did not wait. `Undisturbed` follows the state CONNECTED, which `InitModem` sets early,
  through all of the points at which the task could find another. `LteTypeCorrect`.

`ConfigRequestProofs`, for every set of requesters and any number of calls:

- `FaultsNeedRaces`, `OkIsAnswered`, `WaitersAreRegistered`, `RestsAreClean`, `TypeCorrect`. What the globals mean depends on which
  overlap has happened, so `Inv` has a part for each degree of it: without overlapping calls one
  requester owns the one object (`Heap`); if no timeout fell into an answer either, the uplink task
  processes an answer only for a requester that waits (`Answering`, `Answered`); without any race the
  request stays registered (`Registered`). `Numbered` counts objects against calls.

and for the HTTP handler's commands, any number of them and of telemetry, and every size of the queue:

- `RpcForwardedOnce`, `RpcRightAnswer`, `RpcGuardHasCause`, `RpcTypeCorrect`, the first three with the overlaps they name. `Flight` relates
  the three plain variables and the address of the answer that is being posted: the id to be answered is
  taken before the post, and cools down before the guard is released. `Guarded`: a command that was forwarded and
  is still offered is in flight or cools down, and what passed the filter is neither; it needs the
  order of `Flight`, since between the release and a cooldown set later the server would have the command
  taken again. `AnswerFirst`: without telemetry ahead of it the answer is the first thing the publishing task
  takes. Until it is queued the queue is empty and nothing is in the task's hand; then it is at the head of the
  queue, in the hand, or being posted; and there is no other answer anywhere. `RightAnswer`, an action property, needs all of it: a failed POST, a full queue and
  an answer that never comes each leave the variables in another of these states. `Awaited`: until something failed, the command in flight
  waits for its answer or the answer is being posted.

`ConfigCommandProofs`, for all sets of sections, all commands from elsewhere, any number of POSTs and
every size of the queue:

- `FaultsNeedTimeouts`, `WaitersHeldOnce`. A waiter is held by at most one place (`AtMostOne`) and by at least one (`AtLeastOne`);
  neither is inductive without `OnlyWaiting`: a waiter that anyone holds is that of the POST which waits
  and has not been given, unless one of its waits timed out. The lemmas `QueueAppend`, `QueueTail`, `ReceiveHeld`,
  `TakeHeld` follow a waiter from hand to hand.
- `OkIsTaken`: the section waited for is taken over before success can be written (`Reported`), hence a section is
  passed over only with an error (`NoneForgotten`), and errors are not lost (`Counted`).
- `AnswersReachSource`: from `Sourced`, the cached source is that of the cached command. `TypeCorrect`.

`LanDownlinkProofs`, for every queue size, number of retries, set of lengths and number of downlinks:

- `PacketsAreWhole`, `AcceptedAreSent`: who may write the slot, and when (`SlotOwned`, `OwnCopy`, `ServedIsValid`, `SentIsLoaded`).
- `DroppedNotAcked`, `AnswersAreHeard` and the action property `TxIsStable`: what the transmit buffer holds at each point of
  the uplink task (`AckDiscipline`, `LinkDiscipline`).
- `WakeUpsAreKept`: a payload that is pending alone (`Alone`) has its edge. `DownlinksAreBounded`: each accepted downlink took a
  place that nobody gives back (`Budget`). `TypeCorrect`.

`HttpTasksProofs`, for every size of the queue, any number of starts and any sets of tasks that start and stop:

- `FaultsNeedCatches`, `OneTaskOfEach`, `OfflineWhenStopped`, `TypeCorrect`. A stop that has met nobody
  is alone (`Alone`) and until two starts meet one caller at most is in a start (`OneStart`), which is what the lock the code
  does not have would give. So long, the handle is that of the queue which exists (`QueueOfRun`), those past
  their test find it until a stop catches one (`Users`), and a task in its round belongs to a running
  handler or was there at a stop (`Rounds`). When a start creates a task there is none of its kind (`OneOfEach`); this
  part does without `Alone`.

`MqttTasksProofs`, for every depth of the queue and any number of starts and new settings:

- `NoClientStrays`, `PublisherIsOne`, `FaultsNeedCatches`, `FlagIsOfClient`, `ReceiveIsSafe`, `TypeCorrect`. `Budget` counts clients against starts and settings,
  those in a task's hand included; `Users`, `Publisher`, `OneClient` and `FlagDown` each hold up to the overlap they
  name; `Stops` says what a stop leaves behind it.

`WifiStationProofs`, for any number of retries, starts, credentials, openings and losses, and event
queues of every length:

- `StatusTellsTruth`: the property speaks of an empty queue only; `StatusQueue` says of every queue that its last event which is
  not a start agrees with the station, and the lemmas `SaysTail`, `SaysAppend` keep that as events come and
  are handled.
- `IdleStationsHaveCauses` (`IdleQueue`), `RunningApsServe` (`Apart`), `FaultsNeedCauses` (`Calm`, together with `Apart` and `Station`), `TypeCorrect`.

Every invariant and every safety action property of a run is proved. Only model-checked: the liveness
properties (`TimedWaitEnds`, `HandshakeAnswered`, `PostEnds`, `FailsOver`, `ComesBack`, `DownlinksArrive`,
`CommandsServed`, `RoomAgain`, `StopReturns`), which are out of the prover's reach. No definition uses RECURSIVE.

## 5. Not modelled

- Vendored and generated code: `managed_components` (TinyUSB, libcoap, esp_modem and other
  libraries) is by far the largest part of the repository's roughly 443,000 lines of code,
  with board headers and ports that this firmware does not even build. It is third-party
  and not what the project promises anything about. Of the firmware's own code some
  5,000 lines are behind a definition of a module.
- Web assets, sensor and display drivers: data, or pure I/O.
- The OTA transfer, TLS, TCP, the SPI and USB transactions: libraries; only their
  outcomes matter here.
- The contents of messages, except where routing or success depends on them.
- The components the plan below still has.

## 6. Plan

Done: the update coordination, the configuration request, the configuration command, the
downlink, the monitor, the mode switch, HTTP commands, the life of the HTTP, CoAP and MQTT
tasks, the LTE connection, the WiFi station with the update's access point; the proofs above. Next, in this order:

1. `EthConnect`: events, DHCP and stop against the status the other connections set; the
   connections as refinements of the abstract one of `InternetMonitor`.
2. `PowerRails`: rails against the power callback. HMI refresh.
3. The RPC ids of the MQTT and CoAP handlers, CoAP observe.
4. Configuration parsing and NVS load/save as functions against reference definitions.
