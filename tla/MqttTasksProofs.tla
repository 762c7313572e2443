-------------------------- MODULE MqttTasksProofs --------------------------
(***************************************************************************)
(* Proofs for MqttTasks, for every depth of the queue and any number of    *)
(* starts and of new settings.                                             *)
(***************************************************************************)
EXTENDS MqttTasks, FiniteSetTheorems, TLAPS

(* TypeOK by kind: control points, Booleans, numbers, clients in hand.     *)
Control ==
  /\ pub \in [Starts -> {"none", "first", "status", "check", "receive",
                         "reconnect", "call", "publish", "exit", "done"}]
  /\ cfg \in [Starts -> {"none", "check", "receive", "offline", "stop",
                         "destroy", "delay", "done"}]
  /\ ctl \in {"idle", "wait", "client", "destroy", "queue"}
  /\ enq \in {"idle", "call", "send"}

Flags ==
  /\ mqtt_task_close \in BOOLEAN /\ m_mqtt_connected \in BOOLEAN
  /\ crossed \in BOOLEAN /\ late \in BOOLEAN /\ missed \in BOOLEAN
  /\ short \in BOOLEAN /\ caught \in BOOLEAN /\ fault \in BOOLEAN

Numbers ==
  /\ starts \in 0..MaxStarts /\ configs \in 0..MaxConfigs
  /\ g_mqtt_config_queue \in 0..configs
  /\ g_mqtt_publish_queue \in {NULL} \cup 1..starts
  /\ queued \in 0..MQTT_PUBLISH_QUEUE_DEPTH
  /\ m_pub_task \in {NULL} \cup 1..starts
  /\ enq_queue \in {NULL} \cup Starts

Handles ==
  /\ made \in Nat
  /\ m_client \in {NULL} \cup clients
  /\ online \subseteq clients /\ clients \subseteq 1..made
  /\ stopping \in [{0} \cup Starts -> {NULL} \cup 1..made]
  /\ using \in [Starts -> {NULL} \cup 1..made]

(* The configuration tasks that have settings in hand.                     *)
Holders ==
  {i \in Starts : cfg[i] \in {"offline", "stop", "destroy", "delay"}}

(* Every client is one of a start or of settings that were sent.           *)
Budget ==
  made + g_mqtt_config_queue + Cardinality(Holders) <= starts + configs

(* A stop is of a handler that was started, and the starts to come have    *)
(* made no task.                                                           *)
Stops ==
  /\ ctl # "idle" => mqtt_task_close
  /\ mqtt_task_close => starts # 0
  /\ \A i \in Starts : i > starts => pub[i] = "none" /\ cfg[i] = "none"
  /\ Stopped /\ ctl = "idle" => g_mqtt_publish_queue = NULL
  /\ mqtt_task_close /\ ctl # "wait" => \A i \in Starts : pub[i] # "receive"

(* Until something is freed under its user, a handle in hand is that of a  *)
(* client or a queue that exists.                                          *)
Users ==
  ~caught =>
    /\ ~fault
    /\ \A i \in Starts : using[i] \in {NULL} \cup clients
    /\ \A x \in {0} \cup Starts : stopping[x] \in {NULL} \cup clients
    /\ \A i \in Starts : pub[i] = "receive" => g_mqtt_publish_queue # NULL
    /\ enq # "idle" => g_mqtt_publish_queue # NULL
    /\ enq = "send" => enq_queue = g_mqtt_publish_queue

(* m_pub_task is the publishing task, which leaves its loop for a reason.  *)
Publisher ==
  /\ Alive(pub) = {m_pub_task} \ {NULL}
  /\ ~Stopped => m_pub_task # NULL \/ missed \/ short
  /\ \A i \in Starts :
       pub[i] = "exit" => mqtt_task_close \/ missed \/ short

(* Until a client is replaced across a stop or a start, the one client is  *)
(* m_client's, there is none to be replaced or left behind, and the one    *)
(* configuration task has stopped with the handler.                        *)
OneClient ==
  ~crossed =>
    /\ clients \subseteq {m_client}
    /\ ctl = "queue" \/ (Stopped /\ ctl = "idle") => clients = {}
    /\ \A i, j \in Alive(cfg) : i = j
    /\ \A i \in Starts :
         /\ cfg[i] = "delay" => m_client = NULL
         /\ mqtt_task_close => cfg[i] \notin {"stop", "destroy", "delay"}
         /\ mqtt_task_close /\ ctl # "wait" =>
              cfg[i] \notin {"check", "receive"}

(* The flag is down while the client is being stopped or replaced.         *)
FlagDown ==
  ~crossed /\ ~late =>
    /\ ctl # "idle" \/ Stopped => ~m_mqtt_connected
    /\ \A i \in Starts :
         cfg[i] \in {"stop", "destroy", "delay"} => ~m_mqtt_connected
    /\ m_mqtt_connected /\ m_client # NULL => m_client \in online

(* The inductive invariant.                                                *)
Inv ==
  /\ Control /\ Flags /\ Numbers /\ Handles /\ Budget
  /\ Stops /\ Users /\ Publisher /\ OneClient /\ FlagDown

-----------------------------------------------------------------------------
(* What a start does, whichever part memory was missing for.               *)
LEMMA StartEffect ==
  ASSUME Control, Flags, Numbers, Handles, mqtt_handler_task_start
  PROVE  /\ ctl = "idle" /\ ctl' = "idle" /\ Stopped
         /\ starts + 1 \in Starts /\ starts' = starts + 1
         /\ mqtt_task_close' = FALSE
         /\ \/ m_client' = made + 1 /\ clients' = clients \cup {made + 1}
            \/ m_client' = NULL /\ clients' = clients
         /\ \/ UNCHANGED <<m_pub_task, pub>> /\ (m_pub_task # NULL \/ short')
            \/ /\ m_pub_task = NULL /\ m_pub_task' = starts + 1
               /\ pub' = [pub EXCEPT ![starts + 1] = "first"]
         /\ \/ cfg' = cfg
            \/ cfg' = [cfg EXCEPT ![starts + 1] = "check"]
         /\ short => short'
         /\ missed' <=> missed \/ \E i \in Starts : pub[i] = "exit"
         /\ crossed' <=> crossed \/ Replacing
<1>1. PICK part \in {"client", "queue", "pub", "cfg", "none"} :
        /\ NewClient(part # "client")
        /\ IF m_pub_task = NULL /\ part # "pub"
             THEN /\ m_pub_task' = starts'
                  /\ pub' = [pub EXCEPT ![starts'] = "first"]
             ELSE UNCHANGED <<m_pub_task, pub>>
        /\ cfg' = IF part = "cfg" THEN cfg
                  ELSE [cfg EXCEPT ![starts'] = "check"]
        /\ short' = (short \/ part # "none")
  BY DEF mqtt_handler_task_start
<1>2. /\ ctl = "idle" /\ ctl' = "idle" /\ Stopped
      /\ starts + 1 \in Starts /\ starts' = starts + 1
      /\ mqtt_task_close' = FALSE
  BY BoundsAssumption DEF mqtt_handler_task_start, Numbers, Starts
<1>3. \/ m_client' = made + 1 /\ clients' = clients \cup {made + 1}
      \/ m_client' = NULL /\ clients' = clients
  BY <1>1 DEF NewClient
<1>4. /\ \/ UNCHANGED <<m_pub_task, pub>> /\ (m_pub_task # NULL \/ short')
         \/ /\ m_pub_task = NULL /\ m_pub_task' = starts + 1
            /\ pub' = [pub EXCEPT ![starts + 1] = "first"]
      /\ cfg' = cfg \/ cfg' = [cfg EXCEPT ![starts + 1] = "check"]
      /\ short => short'
  BY <1>1, <1>2
<1>5. /\ missed' <=> missed \/ \E i \in Starts : pub[i] = "exit"
      /\ crossed' <=> crossed \/ Replacing
  BY Zenon DEF mqtt_handler_task_start
<1> QED BY <1>2, <1>3, <1>4, <1>5

(* Every step keeps the control points in their sets.                      *)
LEMMA ControlStep ==
  ASSUME Control, [Next]_vars PROVE Control'
<1> USE DEF Control, cliVars, queVars, pubVars, cfgVars, ctlVars, enqVars,
            histVars
<1>1. CASE mqtt_handler_task_start
  BY <1>1 DEF mqtt_handler_task_start
<1>2. CASE StopFlags
  BY <1>2 DEF StopFlags
<1>3. CASE StopWait
  BY <1>3 DEF StopWait
<1>4. CASE StopClient
  BY <1>4 DEF StopClient
<1>5. CASE StopDestroy
  BY <1>5 DEF StopDestroy
<1>6. CASE StopQueue
  BY <1>6 DEF StopQueue
<1>7. ASSUME NEW c \in Clients, Connected(c) PROVE Control'
  BY <1>7 DEF Connected
<1>8. ASSUME NEW c \in Clients, Disconnected(c) PROVE Control'
  BY <1>8 DEF Disconnected
<1>9. ASSUME NEW i \in Starts, FirstWait(i) PROVE Control'
  BY <1>9 DEF FirstWait
<1>10. ASSUME NEW i \in Starts, PublishCheck(i) PROVE Control'
  BY <1>10 DEF PublishCheck, NextRound
<1>11. ASSUME NEW i \in Starts, PublishReceive(i) PROVE Control'
  BY <1>11 DEF PublishReceive
<1>12. ASSUME NEW i \in Starts, Reconnect(i) PROVE Control'
  BY <1>12 DEF Reconnect
<1>13. ASSUME NEW i \in Starts, PublishCall(i) PROVE Control'
  BY <1>13 DEF PublishCall
<1>14. ASSUME NEW i \in Starts, Publish(i) PROVE Control'
  BY <1>14 DEF Publish
<1>15. ASSUME NEW i \in Starts, PublishExit(i) PROVE Control'
  BY <1>15 DEF PublishExit
<1>16. ASSUME NEW i \in Starts, ConfigCheck(i) PROVE Control'
  BY <1>16 DEF ConfigCheck
<1>17. ASSUME NEW i \in Starts, ConfigReceive(i) PROVE Control'
  BY <1>17 DEF ConfigReceive
<1>18. ASSUME NEW i \in Starts, ReinitOffline(i) PROVE Control'
  BY <1>18 DEF ReinitOffline
<1>19. ASSUME NEW i \in Starts, ReinitStop(i) PROVE Control'
  BY <1>19 DEF ReinitStop
<1>20. ASSUME NEW i \in Starts, ReinitDestroy(i) PROVE Control'
  BY <1>20 DEF ReinitDestroy
<1>21. ASSUME NEW i \in Starts, ReinitNew(i) PROVE Control'
  BY <1>21 DEF ReinitNew
<1>22. CASE SendConfig
  BY <1>22 DEF SendConfig
<1>23. CASE EnqueueCheck
  BY <1>23 DEF EnqueueCheck
<1>24. CASE EnqueueCall
  BY <1>24 DEF EnqueueCall
<1>25. CASE EnqueueSend
  BY <1>25 DEF EnqueueSend
<1>26. CASE UNCHANGED vars
  BY <1>26 DEF vars
<1> QED
  BY <1>1, <1>2, <1>3, <1>4, <1>5, <1>6, <1>7, <1>8, <1>9, <1>10, <1>11,
     <1>12, <1>13, <1>14, <1>15, <1>16, <1>17, <1>18, <1>19, <1>20, <1>21,
     <1>22, <1>23, <1>24, <1>25, <1>26
  DEF Next, Publishing, Configuring

(* Every step keeps the flags Boolean.                                     *)
LEMMA FlagsStep ==
  ASSUME Flags, [Next]_vars PROVE Flags'
<1> USE DEF Flags, cliVars, queVars, pubVars, cfgVars, ctlVars, enqVars,
            histVars
<1>1. CASE mqtt_handler_task_start
  BY <1>1, Zenon DEF mqtt_handler_task_start
<1>2. CASE StopFlags
  BY <1>2, Zenon DEF StopFlags
<1>3. CASE StopWait
  BY <1>3, Zenon DEF StopWait
<1>4. CASE StopClient
  BY <1>4, Zenon DEF StopClient
<1>5. CASE StopDestroy
  BY <1>5, Zenon DEF StopDestroy, Destroy
<1>6. CASE StopQueue
  BY <1>6, Zenon DEF StopQueue
<1>7. ASSUME NEW c \in Clients, Connected(c) PROVE Flags'
  BY <1>7, Zenon DEF Connected
<1>8. ASSUME NEW c \in Clients, Disconnected(c) PROVE Flags'
  BY <1>8, Zenon DEF Disconnected
<1>9. ASSUME NEW i \in Starts, FirstWait(i) PROVE Flags'
  BY <1>9, Zenon DEF FirstWait
<1>10. ASSUME NEW i \in Starts, PublishCheck(i) PROVE Flags'
  BY <1>10, Zenon DEF PublishCheck
<1>11. ASSUME NEW i \in Starts, PublishReceive(i) PROVE Flags'
  BY <1>11, Zenon DEF PublishReceive
<1>12. ASSUME NEW i \in Starts, Reconnect(i) PROVE Flags'
  BY <1>12, Zenon DEF Reconnect
<1>13. ASSUME NEW i \in Starts, PublishCall(i) PROVE Flags'
  BY <1>13, Zenon DEF PublishCall
<1>14. ASSUME NEW i \in Starts, Publish(i) PROVE Flags'
  BY <1>14, Zenon DEF Publish
<1>15. ASSUME NEW i \in Starts, PublishExit(i) PROVE Flags'
  BY <1>15, Zenon DEF PublishExit
<1>16. ASSUME NEW i \in Starts, ConfigCheck(i) PROVE Flags'
  BY <1>16, Zenon DEF ConfigCheck
<1>17. ASSUME NEW i \in Starts, ConfigReceive(i) PROVE Flags'
  BY <1>17, Zenon DEF ConfigReceive
<1>18. ASSUME NEW i \in Starts, ReinitOffline(i) PROVE Flags'
  BY <1>18, Zenon DEF ReinitOffline
<1>19. ASSUME NEW i \in Starts, ReinitStop(i) PROVE Flags'
  BY <1>19, Zenon DEF ReinitStop
<1>20. ASSUME NEW i \in Starts, ReinitDestroy(i) PROVE Flags'
  BY <1>20, Zenon DEF ReinitDestroy, Destroy
<1>21. ASSUME NEW i \in Starts, ReinitNew(i) PROVE Flags'
  BY <1>21, Zenon DEF ReinitNew
<1>22. CASE SendConfig
  BY <1>22, Zenon DEF SendConfig
<1>23. CASE EnqueueCheck
  BY <1>23, Zenon DEF EnqueueCheck
<1>24. CASE EnqueueCall
  BY <1>24, Zenon DEF EnqueueCall
<1>25. CASE EnqueueSend
  BY <1>25, Zenon DEF EnqueueSend
<1>26. CASE UNCHANGED vars
  BY <1>26, Zenon DEF vars
<1> QED
  BY <1>1, <1>2, <1>3, <1>4, <1>5, <1>6, <1>7, <1>8, <1>9, <1>10, <1>11,
     <1>12, <1>13, <1>14, <1>15, <1>16, <1>17, <1>18, <1>19, <1>20, <1>21,
     <1>22, <1>23, <1>24, <1>25, <1>26
  DEF Next, Publishing, Configuring

(* Every step keeps the counters and the handles of queue and task in      *)
(* range.                                                                  *)
LEMMA NumbersStep ==
  ASSUME Numbers, [Next]_vars PROVE Numbers'
<1> USE DEF Numbers, cliVars, queVars, pubVars, cfgVars, ctlVars, enqVars,
            histVars
<1>1. CASE mqtt_handler_task_start
  BY <1>1, BoundsAssumption DEF mqtt_handler_task_start, NULL
<1>2. CASE StopFlags
  BY <1>2 DEF StopFlags
<1>3. CASE StopWait
  BY <1>3 DEF StopWait
<1>4. CASE StopClient
  BY <1>4 DEF StopClient
<1>5. CASE StopDestroy
  BY <1>5 DEF StopDestroy
<1>6. CASE StopQueue
  BY <1>6, DepthAssumption DEF StopQueue, NULL
<1>7. ASSUME NEW c \in Clients, Connected(c) PROVE Numbers'
  BY <1>7 DEF Connected
<1>8. ASSUME NEW c \in Clients, Disconnected(c) PROVE Numbers'
  BY <1>8 DEF Disconnected
<1>9. ASSUME NEW i \in Starts, FirstWait(i) PROVE Numbers'
  BY <1>9 DEF FirstWait
<1>10. ASSUME NEW i \in Starts, PublishCheck(i) PROVE Numbers'
  BY <1>10 DEF PublishCheck
<1>11. ASSUME NEW i \in Starts, PublishReceive(i) PROVE Numbers'
  BY <1>11, DepthAssumption DEF PublishReceive, NULL
<1>12. ASSUME NEW i \in Starts, Reconnect(i) PROVE Numbers'
  BY <1>12 DEF Reconnect
<1>13. ASSUME NEW i \in Starts, PublishCall(i) PROVE Numbers'
  BY <1>13 DEF PublishCall
<1>14. ASSUME NEW i \in Starts, Publish(i) PROVE Numbers'
  BY <1>14 DEF Publish
<1>15. ASSUME NEW i \in Starts, PublishExit(i) PROVE Numbers'
  BY <1>15 DEF PublishExit
<1>16. ASSUME NEW i \in Starts, ConfigCheck(i) PROVE Numbers'
  BY <1>16 DEF ConfigCheck
<1>17. ASSUME NEW i \in Starts, ConfigReceive(i) PROVE Numbers'
  BY <1>17 DEF ConfigReceive
<1>18. ASSUME NEW i \in Starts, ReinitOffline(i) PROVE Numbers'
  BY <1>18 DEF ReinitOffline
<1>19. ASSUME NEW i \in Starts, ReinitStop(i) PROVE Numbers'
  BY <1>19 DEF ReinitStop
<1>20. ASSUME NEW i \in Starts, ReinitDestroy(i) PROVE Numbers'
  BY <1>20 DEF ReinitDestroy
<1>21. ASSUME NEW i \in Starts, ReinitNew(i) PROVE Numbers'
  BY <1>21 DEF ReinitNew
<1>22. CASE SendConfig
  BY <1>22, BoundsAssumption DEF SendConfig
<1>23. CASE EnqueueCheck
  BY <1>23 DEF EnqueueCheck
<1>24. CASE EnqueueCall
  BY <1>24, BoundsAssumption DEF EnqueueCall, Starts
<1>25. CASE EnqueueSend
  BY <1>25, DepthAssumption DEF EnqueueSend, NULL
<1>26. CASE UNCHANGED vars
  BY <1>26 DEF vars
<1> QED
  BY <1>1, <1>2, <1>3, <1>4, <1>5, <1>6, <1>7, <1>8, <1>9, <1>10, <1>11,
     <1>12, <1>13, <1>14, <1>15, <1>16, <1>17, <1>18, <1>19, <1>20, <1>21,
     <1>22, <1>23, <1>24, <1>25, <1>26
  DEF Next, Publishing, Configuring

(* Every client that someone has in hand was made.                         *)
LEMMA HandlesStep ==
  ASSUME Control, Numbers, Handles, [Next]_vars PROVE Handles'
<1> USE DEF Handles, cliVars, queVars, pubVars, cfgVars, ctlVars, enqVars,
            histVars
<1>1. CASE mqtt_handler_task_start
  BY <1>1 DEF mqtt_handler_task_start, NULL, NewClient
<1>2. CASE StopFlags
  BY <1>2 DEF StopFlags, NULL
<1>3. CASE StopWait
  BY <1>3 DEF StopWait, NULL
<1>4. CASE StopClient
  BY <1>4 DEF StopClient, NULL, StopCall
<1>5. CASE StopDestroy
  BY <1>5 DEF StopDestroy, NULL, Destroy
<1>6. CASE StopQueue
  BY <1>6 DEF StopQueue, NULL
<1>7. ASSUME NEW c \in Clients, Connected(c) PROVE Handles'
  BY <1>7 DEF Connected, NULL
<1>8. ASSUME NEW c \in Clients, Disconnected(c) PROVE Handles'
  BY <1>8 DEF Disconnected, NULL
<1>9. ASSUME NEW i \in Starts, FirstWait(i) PROVE Handles'
  BY <1>9 DEF FirstWait, NULL
<1>10. ASSUME NEW i \in Starts, PublishCheck(i) PROVE Handles'
  BY <1>10 DEF PublishCheck, NULL, NextRound
<1>11. ASSUME NEW i \in Starts, PublishReceive(i) PROVE Handles'
  BY <1>11 DEF PublishReceive, NULL
<1>12. ASSUME NEW i \in Starts, Reconnect(i) PROVE Handles'
  BY <1>12 DEF Reconnect, NULL
<1>13. ASSUME NEW i \in Starts, PublishCall(i) PROVE Handles'
  BY <1>13 DEF PublishCall, NULL
<1>14. ASSUME NEW i \in Starts, Publish(i) PROVE Handles'
  BY <1>14 DEF Publish, NULL
<1>15. ASSUME NEW i \in Starts, PublishExit(i) PROVE Handles'
  BY <1>15 DEF PublishExit, NULL
<1>16. ASSUME NEW i \in Starts, ConfigCheck(i) PROVE Handles'
  BY <1>16 DEF ConfigCheck, NULL
<1>17. ASSUME NEW i \in Starts, ConfigReceive(i) PROVE Handles'
  BY <1>17 DEF ConfigReceive, NULL
<1>18. ASSUME NEW i \in Starts, ReinitOffline(i) PROVE Handles'
  BY <1>18 DEF ReinitOffline, NULL
<1>19. ASSUME NEW i \in Starts, ReinitStop(i) PROVE Handles'
  BY <1>19 DEF ReinitStop, NULL, StopCall
<1>20. ASSUME NEW i \in Starts, ReinitDestroy(i) PROVE Handles'
  BY <1>20 DEF ReinitDestroy, NULL, Destroy
<1>21. ASSUME NEW i \in Starts, ReinitNew(i) PROVE Handles'
  BY <1>21 DEF ReinitNew, NULL, NewClient
<1>22. CASE SendConfig
  BY <1>22 DEF SendConfig, NULL
<1>23. CASE EnqueueCheck
  BY <1>23 DEF EnqueueCheck, NULL
<1>24. CASE EnqueueCall
  BY <1>24 DEF EnqueueCall, NULL
<1>25. CASE EnqueueSend
  BY <1>25 DEF EnqueueSend, NULL
<1>26. CASE UNCHANGED vars
  BY <1>26 DEF vars
<1> QED
  BY <1>1, <1>2, <1>3, <1>4, <1>5, <1>6, <1>7, <1>8, <1>9, <1>10, <1>11,
     <1>12, <1>13, <1>14, <1>15, <1>16, <1>17, <1>18, <1>19, <1>20, <1>21,
     <1>22, <1>23, <1>24, <1>25, <1>26
  DEF Next, Publishing, Configuring

(* Every step of a stop is of a handler that was started, and after its    *)
(* wait nobody is in xQueueReceive.                                        *)
LEMMA StopsStep ==
  ASSUME Control, Flags, Numbers, Handles, Stops, [Next]_vars PROVE Stops'
<1> USE DEF Control, Flags, Numbers, Stops, Stopped, cliVars, queVars,
            pubVars, cfgVars, ctlVars, enqVars, histVars
<1>1. CASE mqtt_handler_task_start
  <2>1. starts \in Nat /\ Starts \subseteq Nat
    BY BoundsAssumption DEF Starts
  <2>2. /\ starts' = starts + 1 /\ ctl' = "idle" /\ mqtt_task_close' = FALSE
        /\ pub' = pub \/ pub' = [pub EXCEPT ![starts + 1] = "first"]
        /\ cfg' = cfg \/ cfg' = [cfg EXCEPT ![starts + 1] = "check"]
    BY <1>1, StartEffect
  <2>3. \A i \in Starts : i > starts' => pub'[i] = "none" /\ cfg'[i] = "none"
    BY <2>1, <2>2
  <2>4. starts' # 0
    BY <2>1, <2>2
  <2> QED BY <2>2, <2>3, <2>4
<1>2. CASE StopFlags
  BY <1>2 DEF StopFlags, NULL
<1>3. CASE StopWait
  BY <1>3 DEF StopWait, NULL, Waited
<1>4. CASE StopClient
  BY <1>4 DEF StopClient, NULL
<1>5. CASE StopDestroy
  BY <1>5 DEF StopDestroy, NULL
<1>6. CASE StopQueue
  BY <1>6 DEF StopQueue, NULL
<1>7. ASSUME NEW c \in Clients, Connected(c) PROVE Stops'
  BY <1>7 DEF Connected, NULL
<1>8. ASSUME NEW c \in Clients, Disconnected(c) PROVE Stops'
  BY <1>8 DEF Disconnected, NULL
<1>9. ASSUME NEW i \in Starts, FirstWait(i) PROVE Stops'
  BY <1>9 DEF FirstWait, NULL
<1>10. ASSUME NEW i \in Starts, PublishCheck(i) PROVE Stops'
  BY <1>10 DEF PublishCheck, NULL, NextRound
<1>11. ASSUME NEW i \in Starts, PublishReceive(i) PROVE Stops'
  BY <1>11 DEF PublishReceive, NULL
<1>12. ASSUME NEW i \in Starts, Reconnect(i) PROVE Stops'
  BY <1>12 DEF Reconnect, NULL
<1>13. ASSUME NEW i \in Starts, PublishCall(i) PROVE Stops'
  BY <1>13 DEF PublishCall, NULL
<1>14. ASSUME NEW i \in Starts, Publish(i) PROVE Stops'
  BY <1>14 DEF Publish, NULL
<1>15. ASSUME NEW i \in Starts, PublishExit(i) PROVE Stops'
  BY <1>15 DEF PublishExit, NULL
<1>16. ASSUME NEW i \in Starts, ConfigCheck(i) PROVE Stops'
  BY <1>16 DEF ConfigCheck, NULL
<1>17. ASSUME NEW i \in Starts, ConfigReceive(i) PROVE Stops'
  BY <1>17 DEF ConfigReceive, NULL
<1>18. ASSUME NEW i \in Starts, ReinitOffline(i) PROVE Stops'
  BY <1>18 DEF ReinitOffline, NULL
<1>19. ASSUME NEW i \in Starts, ReinitStop(i) PROVE Stops'
  BY <1>19 DEF ReinitStop, NULL
<1>20. ASSUME NEW i \in Starts, ReinitDestroy(i) PROVE Stops'
  BY <1>20 DEF ReinitDestroy, NULL
<1>21. ASSUME NEW i \in Starts, ReinitNew(i) PROVE Stops'
  BY <1>21 DEF ReinitNew, NULL
<1>22. CASE SendConfig
  BY <1>22 DEF SendConfig, NULL
<1>23. CASE EnqueueCheck
  BY <1>23 DEF EnqueueCheck, NULL
<1>24. CASE EnqueueCall
  BY <1>24 DEF EnqueueCall, NULL
<1>25. CASE EnqueueSend
  BY <1>25 DEF EnqueueSend, NULL
<1>26. CASE UNCHANGED vars
  BY <1>26 DEF vars
<1> QED
  BY <1>1, <1>2, <1>3, <1>4, <1>5, <1>6, <1>7, <1>8, <1>9, <1>10, <1>11,
     <1>12, <1>13, <1>14, <1>15, <1>16, <1>17, <1>18, <1>19, <1>20, <1>21,
     <1>22, <1>23, <1>24, <1>25, <1>26
  DEF Next, Publishing, Configuring

(* Every handle in hand is of what exists, or its user has been caught.    *)
LEMMA UsersStep ==
  ASSUME Control, Flags, Numbers, Handles, Stops, Users,
         [Next]_vars
  PROVE  Users'
<1> USE DEF Control, Flags, Numbers, Handles, Stops, Users, Stopped, NULL,
            cliVars, queVars, pubVars, cfgVars, ctlVars, enqVars, histVars
<1>1. CASE mqtt_handler_task_start
  BY <1>1 DEF mqtt_handler_task_start, NewClient
<1>2. CASE StopFlags
  BY <1>2 DEF StopFlags
<1>3. CASE StopWait
  BY <1>3 DEF StopWait
<1>4. CASE StopClient
  BY <1>4 DEF StopClient, StopCall
<1>5. CASE StopDestroy
  BY <1>5 DEF StopDestroy, Destroy, InHand
<1>6. CASE StopQueue
  BY <1>6 DEF StopQueue
<1>7. ASSUME NEW c \in Clients, Connected(c) PROVE Users'
  BY <1>7 DEF Connected
<1>8. ASSUME NEW c \in Clients, Disconnected(c) PROVE Users'
  BY <1>8 DEF Disconnected
<1>9. ASSUME NEW i \in Starts, FirstWait(i) PROVE Users'
  BY <1>9 DEF FirstWait
<1>10. ASSUME NEW i \in Starts, PublishCheck(i) PROVE Users'
  BY <1>10 DEF PublishCheck, NextRound
<1>11. ASSUME NEW i \in Starts, PublishReceive(i) PROVE Users'
  BY <1>11 DEF PublishReceive
<1>12. ASSUME NEW i \in Starts, Reconnect(i) PROVE Users'
  BY <1>12 DEF Reconnect
<1>13. ASSUME NEW i \in Starts, PublishCall(i) PROVE Users'
  BY <1>13 DEF PublishCall
<1>14. ASSUME NEW i \in Starts, Publish(i) PROVE Users'
  BY <1>14 DEF Publish
<1>15. ASSUME NEW i \in Starts, PublishExit(i) PROVE Users'
  BY <1>15 DEF PublishExit
<1>16. ASSUME NEW i \in Starts, ConfigCheck(i) PROVE Users'
  BY <1>16 DEF ConfigCheck
<1>17. ASSUME NEW i \in Starts, ConfigReceive(i) PROVE Users'
  BY <1>17 DEF ConfigReceive
<1>18. ASSUME NEW i \in Starts, ReinitOffline(i) PROVE Users'
  BY <1>18 DEF ReinitOffline
<1>19. ASSUME NEW i \in Starts, ReinitStop(i) PROVE Users'
  BY <1>19 DEF ReinitStop, StopCall
<1>20. ASSUME NEW i \in Starts, ReinitDestroy(i) PROVE Users'
  BY <1>20 DEF ReinitDestroy, Destroy, InHand
<1>21. ASSUME NEW i \in Starts, ReinitNew(i) PROVE Users'
  BY <1>21 DEF ReinitNew, NewClient
<1>22. CASE SendConfig
  BY <1>22 DEF SendConfig
<1>23. CASE EnqueueCheck
  BY <1>23 DEF EnqueueCheck
<1>24. CASE EnqueueCall
  BY <1>24 DEF EnqueueCall
<1>25. CASE EnqueueSend
  BY <1>25 DEF EnqueueSend
<1>26. CASE UNCHANGED vars
  BY <1>26 DEF vars
<1> QED
  BY <1>1, <1>2, <1>3, <1>4, <1>5, <1>6, <1>7, <1>8, <1>9, <1>10, <1>11,
     <1>12, <1>13, <1>14, <1>15, <1>16, <1>17, <1>18, <1>19, <1>20, <1>21,
     <1>22, <1>23, <1>24, <1>25, <1>26
  DEF Next, Publishing, Configuring

(* m_pub_task is the publishing task, and there is no other.               *)
LEMMA PublisherStep ==
  ASSUME Control, Flags, Numbers, Handles, Publisher,
         [Next]_vars
  PROVE  Publisher'
<1> USE DEF Control, Flags, Numbers, Publisher, Alive, Stopped, NULL,
            cliVars, queVars, pubVars, cfgVars, ctlVars, enqVars, histVars
<1>1. CASE mqtt_handler_task_start
  <2>1. CASE UNCHANGED <<m_pub_task, pub>> /\ (m_pub_task # NULL \/ short')
    BY <1>1, <2>1, StartEffect
  <2>2. CASE /\ m_pub_task = NULL /\ m_pub_task' = starts + 1
             /\ pub' = [pub EXCEPT ![starts + 1] = "first"]
    <3>1. starts + 1 \in Starts
      BY <1>1, StartEffect
    <3>2. Alive(pub) = {}
      BY <2>2
    <3>3. Alive(pub)' = {starts + 1}
      BY <2>2, <3>1, <3>2
    <3>4. \A i \in Starts : pub'[i] # "exit"
      BY <2>2, <3>2
    <3> QED BY <2>2, <3>3, <3>4
  <2> QED BY <1>1, <2>1, <2>2, StartEffect
<1>2. CASE StopFlags
  BY <1>2 DEF StopFlags
<1>3. CASE StopWait
  BY <1>3 DEF StopWait
<1>4. CASE StopClient
  BY <1>4 DEF StopClient
<1>5. CASE StopDestroy
  BY <1>5 DEF StopDestroy
<1>6. CASE StopQueue
  BY <1>6 DEF StopQueue
<1>7. ASSUME NEW c \in Clients, Connected(c) PROVE Publisher'
  BY <1>7 DEF Connected
<1>8. ASSUME NEW c \in Clients, Disconnected(c) PROVE Publisher'
  BY <1>8 DEF Disconnected
<1>9. ASSUME NEW i \in Starts, FirstWait(i) PROVE Publisher'
  BY <1>9 DEF FirstWait
<1>10. ASSUME NEW i \in Starts, PublishCheck(i) PROVE Publisher'
  BY <1>10 DEF PublishCheck, NextRound
<1>11. ASSUME NEW i \in Starts, PublishReceive(i) PROVE Publisher'
  BY <1>11 DEF PublishReceive
<1>12. ASSUME NEW i \in Starts, Reconnect(i) PROVE Publisher'
  BY <1>12 DEF Reconnect
<1>13. ASSUME NEW i \in Starts, PublishCall(i) PROVE Publisher'
  BY <1>13 DEF PublishCall
<1>14. ASSUME NEW i \in Starts, Publish(i) PROVE Publisher'
  BY <1>14 DEF Publish
<1>15. ASSUME NEW i \in Starts, PublishExit(i) PROVE Publisher'
  BY <1>15 DEF PublishExit
<1>16. ASSUME NEW i \in Starts, ConfigCheck(i) PROVE Publisher'
  BY <1>16 DEF ConfigCheck
<1>17. ASSUME NEW i \in Starts, ConfigReceive(i) PROVE Publisher'
  BY <1>17 DEF ConfigReceive
<1>18. ASSUME NEW i \in Starts, ReinitOffline(i) PROVE Publisher'
  BY <1>18 DEF ReinitOffline
<1>19. ASSUME NEW i \in Starts, ReinitStop(i) PROVE Publisher'
  BY <1>19 DEF ReinitStop
<1>20. ASSUME NEW i \in Starts, ReinitDestroy(i) PROVE Publisher'
  BY <1>20 DEF ReinitDestroy
<1>21. ASSUME NEW i \in Starts, ReinitNew(i) PROVE Publisher'
  BY <1>21 DEF ReinitNew
<1>22. CASE SendConfig
  BY <1>22 DEF SendConfig
<1>23. CASE EnqueueCheck
  BY <1>23 DEF EnqueueCheck
<1>24. CASE EnqueueCall
  BY <1>24 DEF EnqueueCall
<1>25. CASE EnqueueSend
  BY <1>25 DEF EnqueueSend
<1>26. CASE UNCHANGED vars
  BY <1>26 DEF vars
<1> QED
  BY <1>1, <1>2, <1>3, <1>4, <1>5, <1>6, <1>7, <1>8, <1>9, <1>10, <1>11,
     <1>12, <1>13, <1>14, <1>15, <1>16, <1>17, <1>18, <1>19, <1>20, <1>21,
     <1>22, <1>23, <1>24, <1>25, <1>26
  DEF Next, Publishing, Configuring

(* There is one client and one configuration task, or a replacement met a  *)
(* stop or a start.                                                        *)
LEMMA ClientStep ==
  ASSUME Control, Flags, Numbers, Handles, Stops, OneClient,
         [Next]_vars
  PROVE  OneClient'
<1> USE DEF Control, Flags, Numbers, Handles, Stops, OneClient, Alive,
            Stopped, NULL, Replacing, cliVars, queVars, pubVars, cfgVars,
            ctlVars, enqVars, histVars
<1>1. CASE mqtt_handler_task_start
  <2> SUFFICES ASSUME ~crossed, ~Replacing PROVE OneClient'
    BY <1>1, StartEffect
  <2>0. starts \in Nat /\ \A i \in Starts : i \in Nat /\ i > 0
    BY BoundsAssumption DEF Starts
  <2>1. clients = {} /\ clients' \subseteq {m_client'}
    BY <1>1, StartEffect
  <2>2. ctl' # "queue" /\ ~(Stopped' /\ ctl' = "idle")
    <3>1. starts' = starts + 1 /\ ctl' = "idle" /\ mqtt_task_close' = FALSE
      BY <1>1, StartEffect
    <3> QED BY <2>0, <3>1
  <2>3. Alive(cfg) = {}
    <3>1. ctl = "idle" /\ (starts = 0 \/ mqtt_task_close)
      BY <1>1, StartEffect
    <3>2. CASE starts = 0
      BY <2>0, <3>2
    <3>3. CASE mqtt_task_close
      BY <3>1, <3>3
    <3> QED BY <3>1, <3>2, <3>3
  <2>4. Alive(cfg)' \subseteq {starts + 1}
    <3>1. cfg' = cfg \/ cfg' = [cfg EXCEPT ![starts + 1] = "check"]
      BY <1>1, StartEffect
    <3> QED BY <2>3, <3>1
  <2>5. (\A i \in Starts : cfg'[i] # "delay") /\ ~mqtt_task_close'
    <3>1. mqtt_task_close' = FALSE
      BY <1>1, StartEffect
    <3>2. cfg' = cfg \/ cfg' = [cfg EXCEPT ![starts + 1] = "check"]
      BY <1>1, StartEffect
    <3>3. \A i \in Starts : cfg[i] # "delay"
      BY <2>3
    <3> QED BY <3>1, <3>2, <3>3
  <2>6. \A i, j \in Alive(cfg)' : i = j
    BY <2>4
  <2> QED BY <2>1, <2>2, <2>5, <2>6
<1>2. CASE StopFlags
  BY <1>2 DEF StopFlags
<1>3. CASE StopWait
  BY <1>3 DEF StopWait, Waited
<1>4. CASE StopClient
  BY <1>4 DEF StopClient, StopCall
<1>5. CASE StopDestroy
  BY <1>5 DEF StopDestroy, Destroy
<1>6. CASE StopQueue
  BY <1>6 DEF StopQueue
<1>7. ASSUME NEW c \in Clients, Connected(c) PROVE OneClient'
  BY <1>7 DEF Connected
<1>8. ASSUME NEW c \in Clients, Disconnected(c) PROVE OneClient'
  BY <1>8 DEF Disconnected
<1>9. ASSUME NEW i \in Starts, FirstWait(i) PROVE OneClient'
  BY <1>9 DEF FirstWait
<1>10. ASSUME NEW i \in Starts, PublishCheck(i) PROVE OneClient'
  BY <1>10 DEF PublishCheck, NextRound
<1>11. ASSUME NEW i \in Starts, PublishReceive(i) PROVE OneClient'
  BY <1>11 DEF PublishReceive
<1>12. ASSUME NEW i \in Starts, Reconnect(i) PROVE OneClient'
  BY <1>12 DEF Reconnect
<1>13. ASSUME NEW i \in Starts, PublishCall(i) PROVE OneClient'
  BY <1>13 DEF PublishCall
<1>14. ASSUME NEW i \in Starts, Publish(i) PROVE OneClient'
  BY <1>14 DEF Publish
<1>15. ASSUME NEW i \in Starts, PublishExit(i) PROVE OneClient'
  BY <1>15 DEF PublishExit
<1>16. ASSUME NEW i \in Starts, ConfigCheck(i) PROVE OneClient'
  BY <1>16 DEF ConfigCheck
<1>17. ASSUME NEW i \in Starts, ConfigReceive(i) PROVE OneClient'
  BY <1>17 DEF ConfigReceive
<1>18. ASSUME NEW i \in Starts, ReinitOffline(i) PROVE OneClient'
  BY <1>18 DEF ReinitOffline
<1>19. ASSUME NEW i \in Starts, ReinitStop(i) PROVE OneClient'
  BY <1>19 DEF ReinitStop, StopCall
<1>20. ASSUME NEW i \in Starts, ReinitDestroy(i) PROVE OneClient'
  BY <1>20 DEF ReinitDestroy, Destroy
<1>21. ASSUME NEW i \in Starts, ReinitNew(i) PROVE OneClient'
  <2> SUFFICES ASSUME ~crossed PROVE OneClient'
    BY <1>21 DEF ReinitNew
  <2>1. cfg[i] = "delay" /\ m_client = NULL /\ clients = {}
    BY <1>21 DEF ReinitNew
  <2>2. clients' \subseteq {m_client'}
    BY <1>21, <2>1 DEF ReinitNew, NewClient
  <2>3. UNCHANGED <<ctl, mqtt_task_close, starts>> /\ ~mqtt_task_close
    BY <1>21, <2>1 DEF ReinitNew
  <2>4. ~Stopped'
    BY <2>1, <2>3, BoundsAssumption DEF Starts
  <2>5. Alive(cfg) = {i} /\ cfg' = [cfg EXCEPT ![i] = "check"]
    BY <1>21, <2>1 DEF ReinitNew
  <2>6. Alive(cfg)' \subseteq {i}
    BY <2>5
  <2> QED BY <2>2, <2>3, <2>4, <2>5, <2>6
<1>22. CASE SendConfig
  BY <1>22 DEF SendConfig
<1>23. CASE EnqueueCheck
  BY <1>23 DEF EnqueueCheck
<1>24. CASE EnqueueCall
  BY <1>24 DEF EnqueueCall
<1>25. CASE EnqueueSend
  BY <1>25 DEF EnqueueSend
<1>26. CASE UNCHANGED vars
  BY <1>26 DEF vars
<1> QED
  BY <1>1, <1>2, <1>3, <1>4, <1>5, <1>6, <1>7, <1>8, <1>9, <1>10, <1>11,
     <1>12, <1>13, <1>14, <1>15, <1>16, <1>17, <1>18, <1>19, <1>20, <1>21,
     <1>22, <1>23, <1>24, <1>25, <1>26
  DEF Next, Publishing, Configuring

(* The flag is of the client in use, and down while that is stopped or     *)
(* replaced.                                                               *)
LEMMA FlagStep ==
  ASSUME Control, Flags, Numbers, Handles, Stops, OneClient, FlagDown,
         [Next]_vars
  PROVE  FlagDown'
<1> USE DEF Control, Flags, Numbers, Handles, Stops, OneClient, FlagDown,
            Stopped, NULL, Replacing, cliVars, queVars, pubVars, cfgVars,
            ctlVars, enqVars, histVars
<1>1. CASE mqtt_handler_task_start
  BY <1>1 DEF mqtt_handler_task_start, NewClient
<1>2. CASE StopFlags
  BY <1>2 DEF StopFlags
<1>3. CASE StopWait
  BY <1>3 DEF StopWait, Waited
<1>4. CASE StopClient
  BY <1>4 DEF StopClient, StopCall
<1>5. CASE StopDestroy
  BY <1>5 DEF StopDestroy, Destroy
<1>6. CASE StopQueue
  BY <1>6 DEF StopQueue
<1>7. ASSUME NEW c \in Clients, Connected(c) PROVE FlagDown'
  BY <1>7 DEF Connected
<1>8. ASSUME NEW c \in Clients, Disconnected(c) PROVE FlagDown'
  BY <1>8 DEF Disconnected
<1>9. ASSUME NEW i \in Starts, FirstWait(i) PROVE FlagDown'
  BY <1>9 DEF FirstWait
<1>10. ASSUME NEW i \in Starts, PublishCheck(i) PROVE FlagDown'
  BY <1>10 DEF PublishCheck, NextRound
<1>11. ASSUME NEW i \in Starts, PublishReceive(i) PROVE FlagDown'
  BY <1>11 DEF PublishReceive
<1>12. ASSUME NEW i \in Starts, Reconnect(i) PROVE FlagDown'
  BY <1>12 DEF Reconnect
<1>13. ASSUME NEW i \in Starts, PublishCall(i) PROVE FlagDown'
  BY <1>13 DEF PublishCall
<1>14. ASSUME NEW i \in Starts, Publish(i) PROVE FlagDown'
  BY <1>14 DEF Publish
<1>15. ASSUME NEW i \in Starts, PublishExit(i) PROVE FlagDown'
  BY <1>15 DEF PublishExit
<1>16. ASSUME NEW i \in Starts, ConfigCheck(i) PROVE FlagDown'
  BY <1>16 DEF ConfigCheck
<1>17. ASSUME NEW i \in Starts, ConfigReceive(i) PROVE FlagDown'
  BY <1>17 DEF ConfigReceive
<1>18. ASSUME NEW i \in Starts, ReinitOffline(i) PROVE FlagDown'
  BY <1>18 DEF ReinitOffline
<1>19. ASSUME NEW i \in Starts, ReinitStop(i) PROVE FlagDown'
  BY <1>19 DEF ReinitStop, StopCall
<1>20. ASSUME NEW i \in Starts, ReinitDestroy(i) PROVE FlagDown'
  BY <1>20 DEF ReinitDestroy, Destroy
<1>21. ASSUME NEW i \in Starts, ReinitNew(i) PROVE FlagDown'
  BY <1>21 DEF ReinitNew, NewClient
<1>22. CASE SendConfig
  BY <1>22 DEF SendConfig
<1>23. CASE EnqueueCheck
  BY <1>23 DEF EnqueueCheck
<1>24. CASE EnqueueCall
  BY <1>24 DEF EnqueueCall
<1>25. CASE EnqueueSend
  BY <1>25 DEF EnqueueSend
<1>26. CASE UNCHANGED vars
  BY <1>26 DEF vars
<1> QED
  BY <1>1, <1>2, <1>3, <1>4, <1>5, <1>6, <1>7, <1>8, <1>9, <1>10, <1>11,
     <1>12, <1>13, <1>14, <1>15, <1>16, <1>17, <1>18, <1>19, <1>20, <1>21,
     <1>22, <1>23, <1>24, <1>25, <1>26
  DEF Next, Publishing, Configuring

(* The tasks that hold settings are finitely many.                         *)
LEMMA HoldersFinite == IsFiniteSet(Holders)
<1>1. IsFiniteSet(Starts)
  BY BoundsAssumption, FS_Interval DEF Starts
<1>2. Holders \subseteq Starts
  BY DEF Holders
<1> QED BY <1>1, <1>2, FS_Subset

(* Every client that is made uses up a start or settings that were sent.   *)
LEMMA BudgetStep ==
  ASSUME Control, Flags, Numbers, Handles, Budget, [Next]_vars PROVE Budget'
<1> USE DEF Control, Numbers, Handles, Budget, cliVars, queVars, pubVars,
            cfgVars, ctlVars, enqVars, histVars
<1>1. CASE mqtt_handler_task_start
  <2>1. Holders' \subseteq Holders /\ IsFiniteSet(Holders)
    BY <1>1, StartEffect, HoldersFinite DEF Holders
  <2>2. Cardinality(Holders') <= Cardinality(Holders)
    BY <2>1, FS_Subset
  <2>3. made' = made + 1 /\ UNCHANGED <<g_mqtt_config_queue, configs>>
    BY <1>1 DEF mqtt_handler_task_start, NewClient
  <2>4. starts' = starts + 1
    BY <1>1 DEF mqtt_handler_task_start
  <2>5. Cardinality(Holders) \in Nat /\ Cardinality(Holders') \in Nat
    BY <2>1, FS_Subset, FS_CardinalityType
  <2> QED BY <2>2, <2>3, <2>4, <2>5
<1>2. CASE StopFlags
  BY <1>2 DEF StopFlags, Holders
<1>3. CASE StopWait
  BY <1>3 DEF StopWait, Holders
<1>4. CASE StopClient
  BY <1>4 DEF StopClient, Holders, StopCall
<1>5. CASE StopDestroy
  BY <1>5 DEF StopDestroy, Holders, Destroy
<1>6. CASE StopQueue
  BY <1>6 DEF StopQueue, Holders
<1>7. ASSUME NEW c \in Clients, Connected(c) PROVE Budget'
  BY <1>7 DEF Connected, Holders
<1>8. ASSUME NEW c \in Clients, Disconnected(c) PROVE Budget'
  BY <1>8 DEF Disconnected, Holders
<1>9. ASSUME NEW i \in Starts, FirstWait(i) PROVE Budget'
  BY <1>9 DEF FirstWait, Holders
<1>10. ASSUME NEW i \in Starts, PublishCheck(i) PROVE Budget'
  BY <1>10 DEF PublishCheck, Holders
<1>11. ASSUME NEW i \in Starts, PublishReceive(i) PROVE Budget'
  BY <1>11 DEF PublishReceive, Holders
<1>12. ASSUME NEW i \in Starts, Reconnect(i) PROVE Budget'
  BY <1>12 DEF Reconnect, Holders
<1>13. ASSUME NEW i \in Starts, PublishCall(i) PROVE Budget'
  BY <1>13 DEF PublishCall, Holders
<1>14. ASSUME NEW i \in Starts, Publish(i) PROVE Budget'
  BY <1>14 DEF Publish, Holders
<1>15. ASSUME NEW i \in Starts, PublishExit(i) PROVE Budget'
  BY <1>15 DEF PublishExit, Holders
<1>16. ASSUME NEW i \in Starts, ConfigCheck(i) PROVE Budget'
  <2>1. Holders' = Holders
    BY <1>16 DEF ConfigCheck, Holders
  <2> QED BY <1>16, <2>1 DEF ConfigCheck
<1>17. ASSUME NEW i \in Starts, ConfigReceive(i) PROVE Budget'
  <2>1. CASE /\ cfg' = [cfg EXCEPT ![i] = "check"]
             /\ UNCHANGED g_mqtt_config_queue
    <3>1. Holders' = Holders
      BY <1>17, <2>1 DEF ConfigReceive, Holders
    <3> QED BY <1>17, <2>1, <3>1 DEF ConfigReceive
  <2>2. CASE /\ g_mqtt_config_queue > 0
             /\ g_mqtt_config_queue' = g_mqtt_config_queue - 1
             /\ cfg' = [cfg EXCEPT ![i] = "offline"]
    <3>1. i \notin Holders /\ Holders' = Holders \cup {i}
      BY <1>17, <2>2 DEF ConfigReceive, Holders
    <3>2. Cardinality(Holders') = Cardinality(Holders) + 1
      BY <3>1, HoldersFinite, FS_AddElement
    <3>3. UNCHANGED <<made, starts, configs>>
      BY <1>17 DEF ConfigReceive
    <3>4. Cardinality(Holders) \in Nat
      BY HoldersFinite, FS_CardinalityType
    <3> QED BY <2>2, <3>2, <3>3, <3>4
  <2> QED BY <1>17, <2>1, <2>2 DEF ConfigReceive
<1>18. ASSUME NEW i \in Starts, ReinitOffline(i) PROVE Budget'
  <2>1. Holders' = Holders
    BY <1>18 DEF ReinitOffline, Holders
  <2> QED BY <1>18, <2>1 DEF ReinitOffline
<1>19. ASSUME NEW i \in Starts, ReinitStop(i) PROVE Budget'
  <2>1. Holders' = Holders
    BY <1>19 DEF ReinitStop, Holders
  <2> QED BY <1>19, <2>1 DEF ReinitStop, StopCall
<1>20. ASSUME NEW i \in Starts, ReinitDestroy(i) PROVE Budget'
  <2>1. Holders' = Holders
    BY <1>20 DEF ReinitDestroy, Holders
  <2> QED BY <1>20, <2>1 DEF ReinitDestroy, Destroy
<1>21. ASSUME NEW i \in Starts, ReinitNew(i) PROVE Budget'
  <2>1. i \in Holders /\ Holders' = Holders \ {i}
    BY <1>21 DEF ReinitNew, Holders
  <2>2. Cardinality(Holders') = Cardinality(Holders) - 1
    BY <2>1, HoldersFinite, FS_RemoveElement
  <2>3. made' = made + 1 /\ UNCHANGED <<g_mqtt_config_queue, starts, configs>>
    BY <1>21 DEF ReinitNew, NewClient
  <2>4. Cardinality(Holders) \in Nat
    BY HoldersFinite, FS_CardinalityType
  <2> QED BY <2>2, <2>3, <2>4
<1>22. CASE SendConfig
  <2>1. Holders' = Holders
    BY <1>22 DEF SendConfig, Holders
  <2>2. Cardinality(Holders) \in Nat
    BY HoldersFinite, FS_CardinalityType
  <2> QED BY <1>22, <2>1, <2>2 DEF SendConfig
<1>23. CASE EnqueueCheck
  BY <1>23 DEF EnqueueCheck, Holders
<1>24. CASE EnqueueCall
  BY <1>24 DEF EnqueueCall, Holders
<1>25. CASE EnqueueSend
  BY <1>25 DEF EnqueueSend, Holders
<1>26. CASE UNCHANGED vars
  BY <1>26 DEF vars, Holders
<1> QED
  BY <1>1, <1>2, <1>3, <1>4, <1>5, <1>6, <1>7, <1>8, <1>9, <1>10, <1>11,
     <1>12, <1>13, <1>14, <1>15, <1>16, <1>17, <1>18, <1>19, <1>20, <1>21,
     <1>22, <1>23, <1>24, <1>25, <1>26
  DEF Next, Publishing, Configuring

-----------------------------------------------------------------------------
(* TypeOK from its parts; the clients are bounded by the budget.           *)
LEMMA TypeParts ==
  ASSUME Control, Flags, Numbers, Handles, Budget PROVE TypeOK
<1>1. Cardinality(Holders) \in Nat
  BY HoldersFinite, FS_CardinalityType
<1>2. /\ made \in 0..(MaxStarts + MaxConfigs)
      /\ 1..made \subseteq Clients
  BY <1>1, BoundsAssumption DEF Budget, Numbers, Handles, Clients
<1>3. g_mqtt_config_queue \in 0..MaxConfigs
  BY <1>1, BoundsAssumption DEF Budget, Numbers, Handles
<1>4. {mqtt_task_close, m_mqtt_connected, crossed, late, missed, short,
       caught, fault} \subseteq BOOLEAN
  BY Zenon DEF Flags
<1>5. /\ stopping \in [{0} \cup Starts -> {NULL} \cup Clients]
      /\ using \in [Starts -> {NULL} \cup Clients]
  BY <1>2 DEF Handles
<1>6. /\ g_mqtt_publish_queue \in {NULL} \cup Starts
      /\ m_pub_task \in {NULL} \cup Starts
  BY BoundsAssumption DEF Numbers, Starts
<1> QED BY <1>2, <1>3, <1>4, <1>5, <1>6 DEF TypeOK, Control, Numbers, Handles

(* Before the first start nothing exists and no task is alive.             *)
LEMMA InitInv == Init => Inv
<1> SUFFICES ASSUME Init PROVE Inv
  OBVIOUS
<1> USE DEF Init, NULL
<1>1. Control
  BY DEF Control
<1>2. Flags
  BY Zenon DEF Flags
<1>3. Numbers
  BY DepthAssumption, BoundsAssumption DEF Numbers
<1>4. Handles
  BY DEF Handles
<1>5. Holders = {} /\ Cardinality({}) = 0
  BY FS_EmptySet DEF Holders
<1>6. Budget
  BY <1>5 DEF Budget
<1>7. Stops /\ Users
  BY DEF Stops, Users
<1>8. Publisher
  BY DEF Publisher, Alive, Stopped
<1>9. OneClient /\ FlagDown
  BY DEF OneClient, FlagDown, Alive
<1> QED BY <1>1, <1>2, <1>3, <1>4, <1>6, <1>7, <1>8, <1>9 DEF Inv

(* The invariant holds of every reachable state.                           *)
LEMMA Invariance == Spec => []Inv
<1>1. Inv /\ [Next]_vars => Inv'
  BY ControlStep, FlagsStep, NumbersStep, HandlesStep, BudgetStep, StopsStep,
     UsersStep, PublisherStep, ClientStep, FlagStep
  DEF Inv
<1> QED BY <1>1, InitInv, PTL DEF Spec

(* Every variable keeps its type; in particular no more clients are made   *)
(* than there were starts and new settings.                                *)
THEOREM TypeCorrect == Spec => []TypeOK
<1>1. Inv => TypeOK
  BY TypeParts DEF Inv
<1> QED BY <1>1, Invariance, PTL

(* A set whose members are all equal has at most one.                      *)
LEMMA AtMostOne ==
  ASSUME NEW S, \A i, j \in S : i = j PROVE Cardinality(S) <= 1
<1>1. CASE S = {}
  BY <1>1, FS_EmptySet
<1>2. CASE S # {}
  <2>1. PICK x : S = {x}
    BY <1>2
  <2> QED BY <2>1, FS_Singleton
<1> QED BY <1>1, <1>2

(* No client and no configuration task is left behind or doubled by        *)
(* mqtt_handler_task_start and _stop, unless mqtt_reinit ran across one.   *)
THEOREM NoClientStrays == Spec => []NoStray
<1>1. Inv => NoStray
  BY AtMostOne DEF Inv, OneClient, NoStray
<1> QED BY <1>1, Invariance, PTL

(* m_pub_task is the one publishing task, and a handler that runs without  *)
(* one was started too early or short of memory.                           *)
THEOREM PublisherIsOne == Spec => []OnePublisher
<1>1. ASSUME Inv PROVE OnePublisher
  <2>1. Alive(pub) = {m_pub_task} \ {NULL}
    BY <1>1 DEF Inv, Publisher
  <2>2. Cardinality(Alive(pub)) <= 1
    BY <2>1, AtMostOne
  <2>3. ~Stopped => Alive(pub) # {} \/ missed \/ short
    BY <1>1, <2>1 DEF Inv, Publisher
  <2> QED BY <2>1, <2>2, <2>3 DEF OnePublisher
<1> QED BY <1>1, Invariance, PTL

(* mqtt_handler_task_stop deletes no queue under mqtt_publish_task.        *)
THEOREM ReceiveIsSafe == Spec => []NoFreeUnderReceive
<1>1. Inv => NoFreeUnderReceive
  BY DEF Inv, Stops, NoFreeUnderReceive
<1> QED BY <1>1, Invariance, PTL

(* Freed memory is used only after a stop or mqtt_reinit freed it in       *)
(* another task's hand.                                                    *)
THEOREM FaultsNeedCatches == Spec => []FaultNeedsCatch
<1>1. Inv => FaultNeedsCatch
  BY DEF Inv, Users, FaultNeedsCatch
<1> QED BY <1>1, Invariance, PTL

(* m_mqtt_connected speaks of the client in use, unless a report came late *)
(* or a replacement crossed a stop or a start.                             *)
THEOREM FlagIsOfClient == Spec => []ConnectedIsTrue
<1>1. Inv => ConnectedIsTrue
  BY DEF Inv, FlagDown, ConnectedIsTrue
<1> QED BY <1>1, Invariance, PTL

=============================================================================
