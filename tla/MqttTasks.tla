----------------------------- MODULE MqttTasks -----------------------------
(***************************************************************************)
(* Starting, stopping and reconfiguring the MQTT handler.                  *)
(*                                                                         *)
(* A start creates a client, the publishing queue, a publishing task and a *)
(* configuration task; a stop closes them by a flag, waits a second and    *)
(* frees the client and the queue.  A configuration task that received new *)
(* settings replaces the client on its own, and takes two seconds for it.  *)
(* The client's task reports the connection, the uplink task enqueues;     *)
(* m_client, g_mqtt_publish_queue, m_pub_task and m_mqtt_connected are     *)
(* shared without a lock.                                                  *)
(***************************************************************************)
EXTENDS Naturals, FiniteSets

CONSTANTS
  MQTT_PUBLISH_QUEUE_DEPTH,
  MaxStarts,      \* bound: starts of the handler
  MaxConfigs      \* bound: settings sent to g_mqtt_config_queue

ASSUME DepthAssumption  == MQTT_PUBLISH_QUEUE_DEPTH \in Nat \ {0}
ASSUME BoundsAssumption == MaxStarts \in Nat /\ MaxConfigs \in Nat

Starts  == 1..MaxStarts
Clients == 1..(MaxStarts + MaxConfigs)
NULL == 0

VARIABLES
  mqtt_task_close,
  m_mqtt_connected,
  m_client,                 \* a client, or NULL
  clients,                  \* those that exist
  online,                   \* those that are connected to the broker
  made,                     \* clients made so far
  stopping,                 \* the client that each of those who free one is
                            \*   stopping: 0 the stop, i a configuration task
  g_mqtt_publish_queue,     \* the start that created it, or NULL
  queued,                   \* items in it
  m_pub_task,               \* the start that created it, or NULL
  pub, using,               \* publishing tasks, and the client each uses
  cfg,                      \* configuration tasks
  g_mqtt_config_queue,      \* settings in it
  configs,                  \* settings sent so far
  ctl,                      \* the task that starts and stops the handler
  starts,
  enq, enq_queue,           \* the uplink task in mqtt_enqueue_telemetry
  crossed,                  \* history: a client was replaced during a stop
                            \*   or a start
  late,                     \* history: a client reported that it is online
                            \*   while it was being replaced or stopped
  missed,                   \* history: a start found a publishing task that
                            \*   had left its loop
  short,                    \* history: memory was missing
  caught,                   \* history: something was freed under its user
  fault                     \* freed memory was used: panic

cliVars  == <<m_client, clients, online, made, stopping>>
queVars  == <<g_mqtt_publish_queue, queued>>
pubVars  == <<m_pub_task, pub, using>>
cfgVars  == <<cfg, g_mqtt_config_queue, configs>>
ctlVars  == <<mqtt_task_close, ctl, starts>>
enqVars  == <<enq, enq_queue>>
histVars == <<crossed, late, missed, short, caught>>
vars == <<ctlVars, m_mqtt_connected, cliVars, queVars, pubVars, cfgVars,
          enqVars, histVars, fault>>

(* The values every variable may take.                                     *)
TypeOK ==
  /\ {mqtt_task_close, m_mqtt_connected, crossed, late, missed, short,
      caught, fault} \subseteq BOOLEAN
  /\ m_client \in {NULL} \cup clients
  /\ online \subseteq clients /\ clients \subseteq 1..made
  /\ made \in 0..(MaxStarts + MaxConfigs)
  /\ stopping \in [{0} \cup Starts -> {NULL} \cup Clients]
  /\ g_mqtt_publish_queue \in {NULL} \cup Starts
  /\ queued \in 0..MQTT_PUBLISH_QUEUE_DEPTH
  /\ m_pub_task \in {NULL} \cup Starts
  /\ pub \in [Starts -> {"none", "first", "status", "check", "receive",
                         "reconnect", "call", "publish", "exit", "done"}]
  /\ using \in [Starts -> {NULL} \cup Clients]
  /\ cfg \in [Starts -> {"none", "check", "receive", "offline", "stop",
                         "destroy", "delay", "done"}]
  /\ g_mqtt_config_queue \in 0..MaxConfigs /\ configs \in 0..MaxConfigs
  /\ ctl \in {"idle", "wait", "client", "destroy", "queue"}
  /\ starts \in 0..MaxStarts
  /\ enq \in {"idle", "call", "send"}
  /\ enq_queue \in {NULL} \cup Starts

Init ==
  /\ mqtt_task_close = FALSE /\ m_mqtt_connected = FALSE
  /\ m_client = NULL /\ clients = {} /\ online = {} /\ made = 0
  /\ stopping = [x \in {0} \cup Starts |-> NULL]
  /\ g_mqtt_publish_queue = NULL /\ queued = 0
  /\ m_pub_task = NULL
  /\ pub = [i \in Starts |-> "none"] /\ using = [i \in Starts |-> NULL]
  /\ cfg = [i \in Starts |-> "none"]
  /\ g_mqtt_config_queue = 0 /\ configs = 0
  /\ ctl = "idle" /\ starts = 0
  /\ enq = "idle" /\ enq_queue = NULL
  /\ crossed = FALSE /\ late = FALSE /\ missed = FALSE
  /\ short = FALSE /\ caught = FALSE /\ fault = FALSE

(* esp_mqtt_client_init, register, start: m_client is written whatever it  *)
(* was, and NULL without memory.                                           *)
NewClient(got) ==
  /\ made' = made + 1
  /\ m_client' = IF got THEN made' ELSE NULL
  /\ clients' = IF got THEN clients \cup {made'} ELSE clients
  /\ UNCHANGED <<online, stopping>>

(* esp_mqtt_client_stop, which waits for the client's task.                *)
StopCall(x) ==
  /\ stopping' = [stopping EXCEPT ![x] = m_client]
  /\ UNCHANGED <<m_client, clients, online, made>>

(* Another task has the handle in hand for a call.                         *)
InHand(x) ==
  /\ m_client # NULL
  /\ \/ \E i \in Starts : using[i] = m_client
     \/ \E y \in ({0} \cup Starts) \ {x} : stopping[y] = m_client

(* Mutant: m_client keeps the handle.                                      *)
MutantDestroy(x) ==
  /\ clients' = clients \ {m_client}
  /\ online' = online \ {m_client}
  /\ stopping' = [stopping EXCEPT ![x] = NULL]
  /\ UNCHANGED <<m_client, made>>
  /\ fault' = (stopping[x] \notin clients \cup {NULL})
  /\ caught' = (caught \/ InHand(x))

(* The wait is over; esp_mqtt_client_destroy on what m_client is now, NULL *)
(* allowed.                                                                *)
Destroy(x) ==
  /\ clients' = clients \ {m_client}
  /\ online' = online \ {m_client}
  /\ m_client' = NULL
  /\ stopping' = [stopping EXCEPT ![x] = NULL]
  /\ UNCHANGED made
  /\ fault' = (stopping[x] \notin clients \cup {NULL})
  /\ caught' = (caught \/ InHand(x))

Replacing ==
  \E i \in Starts : cfg[i] \in {"offline", "stop", "destroy", "delay"}

-----------------------------------------------------------------------------
(* mqtt_handler_task_start.  The caller starts a handler that is stopped   *)
(* (ModeSwitch has the race of two starts).  Memory may be missing for     *)
(* each part.  A publishing task of an earlier start is kept.              *)
Stopped == starts = 0 \/ mqtt_task_close

mqtt_handler_task_start ==
  /\ ctl = "idle" /\ Stopped /\ starts < MaxStarts
  /\ starts' = starts + 1
  /\ mqtt_task_close' = FALSE
  /\ \E part \in {"client", "queue", "pub", "cfg", "none"} :
       /\ NewClient(part # "client")
       /\ g_mqtt_publish_queue' = IF part = "queue" THEN NULL ELSE starts'
       /\ IF m_pub_task = NULL /\ part # "pub"
            THEN /\ m_pub_task' = starts'
                 /\ pub' = [pub EXCEPT ![starts'] = "first"]
            ELSE UNCHANGED <<m_pub_task, pub>>
       /\ cfg' = IF part = "cfg" THEN cfg
                 ELSE [cfg EXCEPT ![starts'] = "check"]
       /\ short' = (short \/ part # "none")
  /\ crossed' = (crossed \/ Replacing)
  /\ missed' = (missed \/ \E i \in Starts : pub[i] = "exit")
  /\ UNCHANGED <<m_mqtt_connected, ctl, queued, using, g_mqtt_config_queue,
                 configs, enqVars, late, caught, fault>>

(* mqtt_handler_task_stop: the flags ...                                   *)
StopFlags ==
  /\ ctl = "idle" /\ ~Stopped
  /\ ctl' = "wait"
  /\ mqtt_task_close' = TRUE
  /\ m_mqtt_connected' = FALSE
  /\ crossed' = (crossed \/ Replacing)
  /\ UNCHANGED <<starts, cliVars, queVars, pubVars, cfgVars, enqVars, late,
                 missed, short, caught, fault>>

(* The second's wait is longer than the half second that a task waits in   *)
(* xQueueReceive: it has seen the flag since.                              *)
Waited ==
  \A i \in Starts : {pub[i], cfg[i]} \cap {"check", "receive"} = {}

StopWait ==
  /\ ctl = "wait" /\ Waited
  /\ ctl' = "client"
  /\ UNCHANGED <<mqtt_task_close, starts, m_mqtt_connected, cliVars, queVars,
                 pubVars, cfgVars, enqVars, histVars, fault>>

(* Mutant: the client is left to itself.                                   *)
MutantStopClient ==
  /\ ctl = "client"
  /\ ctl' = "queue"
  /\ UNCHANGED <<mqtt_task_close, starts, m_mqtt_connected, cliVars, queVars,
                 pubVars, cfgVars, enqVars, histVars, fault>>

(* ... the client, stopped and half a second later destroyed ...           *)
StopClient ==
  /\ ctl = "client"
  /\ ctl' = IF m_client # NULL THEN "destroy" ELSE "queue"
  /\ StopCall(0)
  /\ UNCHANGED <<mqtt_task_close, starts, m_mqtt_connected, queVars, pubVars,
                 cfgVars, enqVars, histVars, fault>>

StopDestroy ==
  /\ ctl = "destroy"
  /\ ctl' = "queue"
  /\ Destroy(0)
  /\ UNCHANGED <<mqtt_task_close, starts, m_mqtt_connected, queVars, pubVars,
                 cfgVars, enqVars, crossed, late, missed, short>>

(* ... and the queue.                                                      *)
StopQueue ==
  /\ ctl = "queue"
  /\ ctl' = "idle"
  /\ g_mqtt_publish_queue' = NULL /\ queued' = 0
  /\ caught' = (caught \/ enq # "idle" \/ \E i \in Starts : pub[i] = "receive")
  /\ UNCHANGED <<mqtt_task_close, starts, m_mqtt_connected, cliVars, pubVars,
                 cfgVars, enqVars, crossed, late, missed, short, fault>>

-----------------------------------------------------------------------------
(* mqtt_event_handler, in the task of a client.                            *)
Connected(c) ==
  /\ c \in clients \ online
  /\ online' = online \cup {c}
  /\ m_mqtt_connected' = TRUE
  /\ late' = (late \/ c # m_client \/ ctl # "idle" \/ Replacing)
  /\ UNCHANGED <<ctlVars, m_client, clients, made, stopping, queVars, pubVars,
                 cfgVars, enqVars, crossed, missed, short, caught, fault>>

Disconnected(c) ==
  /\ c \in online
  /\ online' = online \ {c}
  /\ m_mqtt_connected' = FALSE
  /\ UNCHANGED <<ctlVars, m_client, clients, made, stopping, queVars, pubVars,
                 cfgVars, enqVars, histVars, fault>>

-----------------------------------------------------------------------------
(* mqtt_publish_task.  It waits up to 50 s for the connection and then     *)
(* publishes the firmware's status.                                        *)
FirstWait(i) ==
  /\ pub[i] = "first"
  /\ \/ /\ short' = TRUE                           \* no memory for buffers
        /\ pub' = [pub EXCEPT ![i] = "exit"]
        /\ UNCHANGED using
     \/ /\ m_mqtt_connected /\ m_client # NULL
        /\ pub' = [pub EXCEPT ![i] = "status"]
        /\ using' = [using EXCEPT ![i] = m_client]
        /\ UNCHANGED short
     \/ /\ pub' = [pub EXCEPT ![i] = "check"]     \* no connection in time
        /\ UNCHANGED <<using, short>>
  /\ UNCHANGED <<ctlVars, m_mqtt_connected, cliVars, queVars, m_pub_task,
                 cfgVars, enqVars, crossed, late, missed, caught, fault>>

(* Without a queue the task tries again after 100 ms.                      *)
NextRound ==
  IF mqtt_task_close THEN "exit"
  ELSE IF g_mqtt_publish_queue # NULL THEN "receive" ELSE "check"

PublishCheck(i) ==
  /\ pub[i] = "check"
  /\ pub' = [pub EXCEPT ![i] = NextRound]
  /\ UNCHANGED <<ctlVars, m_mqtt_connected, cliVars, queVars, m_pub_task,
                 using, cfgVars, enqVars, histVars, fault>>

(* An item, or none within 500 ms.  The queue cannot be another one here:  *)
(* see NoFreeUnderReceive.                                                 *)
PublishReceive(i) ==
  /\ pub[i] = "receive"
  /\ IF g_mqtt_publish_queue = NULL
       THEN fault' = TRUE /\ UNCHANGED <<queued, pub>>
       ELSE /\ UNCHANGED fault
            /\ \/ /\ pub' = [pub EXCEPT ![i] = "check"]
                  /\ UNCHANGED queued
               \/ /\ queued > 0
                  /\ queued' = queued - 1
                  /\ pub' = [pub EXCEPT ![i] = IF m_mqtt_connected
                                                 THEN "call" ELSE "reconnect"]
  /\ UNCHANGED <<ctlVars, m_mqtt_connected, cliVars, g_mqtt_publish_queue,
                 m_pub_task, using, cfgVars, enqVars, histVars>>

(* Up to ten seconds for the connection to come back.                      *)
Reconnect(i) ==
  /\ pub[i] = "reconnect"
  /\ \/ m_mqtt_connected /\ pub' = [pub EXCEPT ![i] = "call"]
     \/ pub' = [pub EXCEPT ![i] = "check"]        \* the item is discarded
  /\ UNCHANGED <<ctlVars, m_mqtt_connected, cliVars, queVars, m_pub_task,
                 using, cfgVars, enqVars, histVars, fault>>

(* m_client is read for the call ...                                       *)
PublishCall(i) ==
  /\ pub[i] = "call"
  /\ pub' = [pub EXCEPT ![i] = "publish"]
  /\ using' = [using EXCEPT ![i] = m_client]
  /\ UNCHANGED <<ctlVars, m_mqtt_connected, cliVars, queVars, m_pub_task,
                 cfgVars, enqVars, histVars, fault>>

(* ... and used; the library refuses NULL.                                 *)
Publish(i) ==
  /\ pub[i] \in {"status", "publish"}
  /\ pub' = [pub EXCEPT ![i] = "check"]
  /\ using' = [using EXCEPT ![i] = NULL]
  /\ fault' = (using[i] \notin clients \cup {NULL})
  /\ UNCHANGED <<ctlVars, m_mqtt_connected, cliVars, queVars, m_pub_task,
                 cfgVars, enqVars, histVars>>

(* Mutant: m_pub_task keeps the handle of the task.                        *)
MutantPublishExit(i) ==
  /\ pub[i] = "exit"
  /\ pub' = [pub EXCEPT ![i] = "done"]
  /\ UNCHANGED <<ctlVars, m_mqtt_connected, cliVars, queVars, m_pub_task,
                 using, cfgVars, enqVars, histVars, fault>>

PublishExit(i) ==
  /\ pub[i] = "exit"
  /\ pub' = [pub EXCEPT ![i] = "done"]
  /\ m_pub_task' = NULL
  /\ UNCHANGED <<ctlVars, m_mqtt_connected, cliVars, queVars, using, cfgVars,
                 enqVars, histVars, fault>>

Publishing(i) ==
  \/ FirstWait(i) \/ PublishCheck(i) \/ PublishReceive(i) \/ Reconnect(i)
  \/ PublishCall(i) \/ Publish(i) \/ PublishExit(i)

-----------------------------------------------------------------------------
(* mqtt_config_task                                                        *)
ConfigCheck(i) ==
  /\ cfg[i] = "check"
  /\ cfg' = [cfg EXCEPT ![i] = IF mqtt_task_close THEN "done" ELSE "receive"]
  /\ UNCHANGED <<ctlVars, m_mqtt_connected, cliVars, queVars, pubVars,
                 g_mqtt_config_queue, configs, enqVars, histVars, fault>>

ConfigReceive(i) ==
  /\ cfg[i] = "receive"
  /\ \/ /\ cfg' = [cfg EXCEPT ![i] = "check"]
        /\ UNCHANGED g_mqtt_config_queue
     \/ /\ g_mqtt_config_queue > 0
        /\ g_mqtt_config_queue' = g_mqtt_config_queue - 1
        /\ cfg' = [cfg EXCEPT ![i] = "offline"]
  /\ UNCHANGED <<ctlVars, m_mqtt_connected, cliVars, queVars, pubVars,
                 configs, enqVars, histVars, fault>>

(* Mutant: the flag keeps what it was.                                     *)
MutantReinitOffline(i) ==
  /\ cfg[i] = "offline"
  /\ cfg' = [cfg EXCEPT ![i] = "stop"]
  /\ crossed' = (crossed \/ mqtt_task_close)
  /\ UNCHANGED <<ctlVars, m_mqtt_connected, cliVars, queVars, pubVars,
                 g_mqtt_config_queue, configs, enqVars, late, missed, short,
                 caught, fault>>

(* mqtt_reinit: the flag, the old client and, two seconds later, a new one *)
(* whatever has happened to the handler meanwhile.                         *)
ReinitOffline(i) ==
  /\ cfg[i] = "offline"
  /\ cfg' = [cfg EXCEPT ![i] = "stop"]
  /\ m_mqtt_connected' = FALSE
  /\ crossed' = (crossed \/ mqtt_task_close)
  /\ UNCHANGED <<ctlVars, cliVars, queVars, pubVars, g_mqtt_config_queue,
                 configs, enqVars, late, missed, short, caught,
                 fault>>

ReinitStop(i) ==
  /\ cfg[i] = "stop"
  /\ cfg' = [cfg EXCEPT ![i] = IF m_client # NULL THEN "destroy" ELSE "delay"]
  /\ StopCall(i)
  /\ UNCHANGED <<ctlVars, m_mqtt_connected, queVars, pubVars,
                 g_mqtt_config_queue, configs, enqVars, histVars, fault>>

ReinitDestroy(i) ==
  /\ cfg[i] = "destroy"
  /\ cfg' = [cfg EXCEPT ![i] = "delay"]
  /\ Destroy(i)
  /\ UNCHANGED <<ctlVars, m_mqtt_connected, queVars, pubVars,
                 g_mqtt_config_queue, configs, enqVars, crossed, late,
                 missed, short>>

ReinitNew(i) ==
  /\ cfg[i] = "delay"
  /\ cfg' = [cfg EXCEPT ![i] = "check"]
  /\ \E got \in BOOLEAN : NewClient(got) /\ short' = (short \/ ~got)
  /\ UNCHANGED <<ctlVars, m_mqtt_connected, queVars, pubVars,
                 g_mqtt_config_queue, configs, enqVars, crossed, late, missed,
                 caught, fault>>

Configuring(i) ==
  \/ ConfigCheck(i) \/ ConfigReceive(i) \/ ReinitOffline(i)
  \/ ReinitStop(i) \/ ReinitDestroy(i) \/ ReinitNew(i)

(* The configuration handler saves new settings and sends them.            *)
SendConfig ==
  /\ configs < MaxConfigs
  /\ configs' = configs + 1
  /\ g_mqtt_config_queue' = g_mqtt_config_queue + 1
  /\ UNCHANGED <<ctlVars, m_mqtt_connected, cliVars, queVars, pubVars, cfg,
                 enqVars, histVars, fault>>

-----------------------------------------------------------------------------
(* mqtt_enqueue_telemetry, in the uplink task: the handle is tested, read  *)
(* again for the call, and held for up to 250 ms.                          *)
EnqueueCheck ==
  /\ enq = "idle" /\ g_mqtt_publish_queue # NULL
  /\ enq' = "call"
  /\ UNCHANGED <<ctlVars, m_mqtt_connected, cliVars, queVars, pubVars,
                 cfgVars, enq_queue, histVars, fault>>

EnqueueCall ==
  /\ enq = "call"
  /\ enq' = "send" /\ enq_queue' = g_mqtt_publish_queue
  /\ fault' = (g_mqtt_publish_queue = NULL)
  /\ UNCHANGED <<ctlVars, m_mqtt_connected, cliVars, queVars, pubVars,
                 cfgVars, histVars>>

EnqueueSend ==
  /\ enq = "send"
  /\ enq' = "idle" /\ enq_queue' = NULL
  /\ IF enq_queue # g_mqtt_publish_queue
       THEN fault' = TRUE /\ UNCHANGED queued
       ELSE /\ UNCHANGED fault
            /\ queued' = IF queued < MQTT_PUBLISH_QUEUE_DEPTH
                           THEN queued + 1 ELSE queued
  /\ UNCHANGED <<ctlVars, m_mqtt_connected, cliVars, g_mqtt_publish_queue,
                 pubVars, cfgVars, histVars>>

Next ==
  /\ ~fault
  /\ \/ mqtt_handler_task_start \/ StopFlags \/ StopWait \/ StopClient
     \/ StopDestroy \/ StopQueue
     \/ \E c \in Clients : Connected(c) \/ Disconnected(c)
     \/ \E i \in Starts : Publishing(i) \/ Configuring(i)
     \/ SendConfig
     \/ EnqueueCheck \/ EnqueueCall \/ EnqueueSend

Spec == Init /\ [][Next]_vars

(* Every task runs, the one that stops the handler included.               *)
FairSpec ==
  /\ Spec
  /\ WF_vars(~fault /\ (StopWait \/ StopClient \/ StopDestroy \/ StopQueue))
  /\ \A i \in Starts : /\ WF_vars(~fault /\ Publishing(i))
                       /\ WF_vars(~fault /\ Configuring(i))

-----------------------------------------------------------------------------
(* Properties.                                                             *)

Alive(tasks) == {i \in Starts : tasks[i] \notin {"none", "done"}}

(* No client is lost sight of, a stopped handler leaves none behind, and   *)
(* there is one configuration task at most, unless a configuration task    *)
(* was replacing the client across a stop or a start.                      *)
NoStray ==
  \/ crossed
  \/ /\ clients \subseteq {m_client}
     /\ Stopped /\ ctl = "idle" => clients = {}
     /\ Cardinality(Alive(cfg)) <= 1

(* A handler that runs has one publishing task, kept or new, and m_pub_task *)
(* is that task; it has none only if a start came while the old task was   *)
(* past its loop but still entered in m_pub_task, or for want of memory.   *)
OnePublisher ==
  /\ Cardinality(Alive(pub)) <= 1
  /\ Alive(pub) = {m_pub_task} \ {NULL}
  /\ ~Stopped => Alive(pub) # {} \/ missed \/ short

(* The wait of a stop does its work: the queue is never deleted under the  *)
(* publishing task.                                                        *)
NoFreeUnderReceive == ctl = "queue" => \A i \in Starts : pub[i] # "receive"

(* Freed memory is used only by who had the handle of the queue or of the  *)
(* client in hand when a stop or a new configuration freed it.             *)
FaultNeedsCatch == fault => caught

(* mqtt_handler_is_connected speaks of the client in use, unless a client  *)
(* came online while it was being stopped or replaced, or a configuration  *)
(* task replaced it across a stop or a start.                              *)
ConnectedIsTrue ==
  m_mqtt_connected /\ m_client # NULL =>
    m_client \in online \/ late \/ crossed

(* A stop ends every task of the handler, if no start comes.               *)
StopEnds ==
  mqtt_task_close ~>
    ~mqtt_task_close \/ fault \/ Alive(pub) \cup Alive(cfg) = {}
=============================================================================
