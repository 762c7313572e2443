-------------------------- MODULE WifiStationProofs --------------------------
(***************************************************************************)
(* Proofs for WifiStation, for every number of retries, starts,            *)
(* credentials, openings of the access point and losses of the network.    *)
(***************************************************************************)
EXTENDS WifiStation, SequenceTheorems, TLAPS

Events == {"STA_START", "STA_DISCONNECTED", "STA_GOT_IP"}

(* TypeOK by kind: control points, Booleans, numbers, the event loop's     *)
(* queue.                                                                  *)
Control ==
  /\ init \in [Starts -> {"none", "netif", "driver", "config", "waiting",
                          "mark", "spawn", "done"}]
  /\ conf \in [Starts -> {"none", "loop", "flag", "disconnect", "done"}]
  /\ ctl \in {"idle", "stop", "delete"}
  /\ mode \in Modes /\ seen \in Modes /\ sta \in {"idle", "connecting", "up"}
  /\ fota \in {"idle", "enable", "wait", "clear"}
  /\ bits \subseteq {"CONNECTED", "FAIL"}

Flags ==
  /\ wifi_connect_task_close \in BOOLEAN /\ g_wifi_netif \in BOOLEAN
  /\ s_wifi_event_group \in BOOLEAN /\ s_wifi_connected \in BOOLEAN
  /\ s_reconnect_request \in BOOLEAN /\ started \in BOOLEAN
  /\ net \in BOOLEAN /\ s_fota_ap_running \in BOOLEAN
  /\ s_was_apsta \in BOOLEAN /\ caught \in BOOLEAN /\ mixed \in BOOLEAN
  /\ dormant \in BOOLEAN /\ stale \in BOOLEAN /\ missed \in BOOLEAN
  /\ fault \in BOOLEAN

Numbers ==
  /\ s_retry_num \in 0..WIFI_ESP_MAXIMUM_RETRY
  /\ g_wifi_config_queue \in 0..configs
  /\ drops \in 0..MaxDrops /\ starts \in 0..MaxStarts
  /\ configs \in 0..MaxConfigs /\ aps \in 0..MaxAps

Queue == events \in Seq(Events)

(* event_handler is registered before anything puts the driver into a      *)
(* station mode, and a station that does anything is up.                   *)
Station ==
  /\ HasSta(mode) \/ HasSta(seen) \/ s_was_apsta => g_wifi_netif
  /\ \A i \in Starts : init[i] \in {"driver", "config"} => g_wifi_netif
  /\ sta # "idle" => StaUp

(* The last event of q that is not STA_START agrees with the station s;    *)
(* there is none.                                                          *)
Says(q, s) ==
  \A k \in 1..Len(q) :
    q[k] # "STA_START" /\ (\A j \in (k + 1)..Len(q) : q[j] = "STA_START")
      => (q[k] = "STA_GOT_IP" <=> s = "up")
Silent(q) == \A k \in 1..Len(q) : q[k] = "STA_START"

(* The queue says whether the station is up; if it does not, the flag does *)
(* unless the starting task overwrote it.                                  *)
StatusQueue ==
  /\ Says(events, sta)
  /\ ~stale /\ Silent(events) => (s_wifi_connected <=> sta = "up")

(* A station that is up and idle is about to be connected by an event, has *)
(* used up its retries, or is kept idle by the access point.               *)
IdleQueue ==
  /\ StaUp /\ sta = "idle" /\ ~missed
  /\ s_fota_ap_running => fota = "clear"
  => events # <<>> \/ s_retry_num >= WIFI_ESP_MAXIMUM_RETRY

(* While no change of the connection overlaps the access point, the mode   *)
(* is what fota_ap_start has read, and then what it has set.               *)
Apart ==
  ~mixed =>
    /\ FotaBusy => ctl = "idle" /\ ~UnderWay
    /\ fota = "enable" => seen = mode /\ ~s_fota_ap_running
    /\ fota = "enable" /\ ~dormant => mode = "NULL" \/ started
    /\ fota = "wait" \/ (s_fota_ap_running /\ fota = "idle") =>
         mode \in {"AP", "APSTA"} /\ (~dormant => started)

(* Until a stop catches a starting task or an event, one task at a time is *)
(* on its way, the driver of a registered station stays in a station mode  *)
(* and the event group is there when something may use it.                 *)
Calm ==
  ~mixed /\ ~caught =>
    /\ ~fault
    /\ UnderWay => ~wifi_connect_task_close /\ starts # 0 /\ ctl = "idle"
    /\ ctl # "idle" => g_wifi_netif
    /\ ctl = "delete" => ~started
    /\ \A i, j \in Starts :
         (/\ init[i] \in {"netif", "driver", "config"}
          /\ init[j] \in {"netif", "driver", "config"}) => i = j
    /\ \A i \in Starts :
         /\ init[i] \in {"driver", "config"} => s_wifi_event_group
         /\ init[i] = "driver" => mode = "NULL"
         /\ init[i] = "config" => HasSta(mode)
    /\ g_wifi_netif => HasSta(mode) \/ \E i \in Starts : init[i] = "driver"
    /\ ~HasSta(mode) => events = <<>>
    /\ StaUp \/ events # <<>> => s_wifi_event_group
    /\ s_was_apsta /\ FotaBusy => HasSta(mode)
    /\ (fota \in {"wait", "clear"} \/ s_fota_ap_running) /\ ~s_was_apsta
         => ~HasSta(mode)
    /\ mode = "AP" => fota = "wait" \/ (s_fota_ap_running /\ fota = "idle")

(* The inductive invariant.                                                *)
Inv ==
  /\ Control /\ Flags /\ Numbers /\ Queue
  /\ Station /\ StatusQueue /\ IdleQueue /\ Apart /\ Calm

(* What fota_ap_start does to the driver, with the mode m and the driver   *)
(* on or off.                                                              *)
EnableTo(m, on) ==
  /\ seen = "STA" => m = "APSTA"
  /\ seen = "NULL" => m = "AP"
  /\ seen \in {"AP", "APSTA"} => m = mode
  /\ on <=> started \/ seen = "NULL"
  /\ Drive(m, on, FALSE)
  /\ fault' <=> (seen # "NULL" /\ mode = "NULL") \/ m \notin {"AP", "APSTA"}
  /\ s_was_apsta' <=> seen \in {"STA", "APSTA"}
  /\ fota' = "wait"

-----------------------------------------------------------------------------
(* Opening the access point fails for lack of memory, or sets a mode and   *)
(* the driver on or off.                                                   *)
LEMMA EnableEffect ==
  ASSUME Control, Flags, FotaEnable
  PROVE  \/ /\ seen = "NULL" /\ mode = "NULL" /\ fota' = "idle"
            /\ UNCHANGED <<mode, started, sta, events, s_was_apsta, fault>>
         \/ \E m \in Modes, on \in BOOLEAN : EnableTo(m, on)
<1>1. CASE /\ seen = "NULL" /\ mode = "NULL" /\ fota' = "idle"
           /\ UNCHANGED <<drvVars, s_was_apsta, fault>>
  BY <1>1 DEF drvVars
<1>2. CASE /\ Drive(ModeWithAp, DriverOn, FALSE)
           /\ fault' = \/ seen # "NULL" /\ mode = "NULL"
                       \/ mode' \notin {"AP", "APSTA"}
           /\ s_was_apsta' = (seen \in {"STA", "APSTA"})
           /\ fota' = "wait"
  <2> DEFINE m  == ModeWithAp
             on == DriverOn
  <2>1. /\ m \in Modes
        /\ seen = "STA" => m = "APSTA"
        /\ seen = "NULL" => m = "AP"
        /\ seen \in {"AP", "APSTA"} => m = mode
    BY DEF Control, ModeWithAp, Modes
  <2>2. on \in BOOLEAN /\ (on <=> started \/ seen = "NULL")
    BY DEF Flags, DriverOn
  <2>3. mode' = m
    BY <1>2 DEF Drive
  <2>4. s_was_apsta' <=> seen \in {"STA", "APSTA"}
    BY <1>2
  <2>5. fault' <=> (seen # "NULL" /\ mode = "NULL") \/ m \notin {"AP", "APSTA"}
    <3> HIDE DEF m
    <3> QED BY <1>2, <2>3
  <2>6. EnableTo(m, on)
    <3> HIDE DEF m, on
    <3> Drive(m, on, FALSE)
      BY <1>2 DEF m, on
    <3> QED BY <1>2, <2>1, <2>2, <2>4, <2>5 DEF EnableTo
  <2> HIDE DEF m, on
  <2> QED BY <2>1, <2>2, <2>6
<1> QED
  BY <1>1, <1>2 DEF FotaEnable

(* Handling the first event of a queue takes away what it said.            *)
LEMMA SaysTail ==
  ASSUME NEW q \in Seq(Events), q # <<>>, NEW s, Says(q, s)
  PROVE  /\ Says(Tail(q), s)
         /\ Silent(Tail(q)) /\ Head(q) # "STA_START" =>
              (Head(q) = "STA_GOT_IP" <=> s = "up")
         /\ Silent(Tail(q)) /\ Head(q) = "STA_START" => Silent(q)
<1>1. /\ Len(q) \in Nat /\ Len(q) > 0
      /\ Tail(q) \in Seq(Events) /\ Len(Tail(q)) = Len(q) - 1
      /\ \A k \in 1..Len(Tail(q)) : Tail(q)[k] = q[k + 1]
      /\ Head(q) = q[1]
  OBVIOUS
<1>2. Says(Tail(q), s)
  <2> SUFFICES ASSUME NEW k \in 1..Len(Tail(q)), Tail(q)[k] # "STA_START",
                      \A j \in (k + 1)..Len(Tail(q)) : Tail(q)[j] = "STA_START"
               PROVE  Tail(q)[k] = "STA_GOT_IP" <=> s = "up"
    BY DEF Says
  <2>1. k + 1 \in 1..Len(q) /\ q[k + 1] = Tail(q)[k]
    BY <1>1
  <2>2. ASSUME NEW j \in (k + 2)..Len(q) PROVE q[j] = "STA_START"
    <3>1. j - 1 \in (k + 1)..Len(Tail(q)) /\ j - 1 \in 1..Len(Tail(q))
      BY <1>1
    <3>2. Tail(q)[j - 1] = q[(j - 1) + 1] /\ (j - 1) + 1 = j
      BY <1>1, <3>1
    <3> QED BY <3>1, <3>2
  <2>3. (k + 1) + 1 = k + 2
    BY <1>1
  <2> QED BY <2>1, <2>2, <2>3 DEF Says
<1>3. ASSUME Silent(Tail(q)), NEW j \in 2..Len(q) PROVE q[j] = "STA_START"
  <2>1. j - 1 \in 1..Len(Tail(q)) /\ (j - 1) + 1 = j
    BY <1>1
  <2> QED BY <1>1, <1>3, <2>1 DEF Silent
<1>4. Silent(Tail(q)) /\ Head(q) # "STA_START" =>
        (Head(q) = "STA_GOT_IP" <=> s = "up")
  BY <1>1, <1>3 DEF Says
<1>5. Silent(Tail(q)) /\ Head(q) = "STA_START" => Silent(q)
  <2> SUFFICES ASSUME Silent(Tail(q)), q[1] = "STA_START",
                      NEW j \in 1..Len(q)
               PROVE  q[j] = "STA_START"
    BY <1>1 DEF Silent
  <2> j = 1 \/ j \in 2..Len(q)
    BY <1>1
  <2> QED BY <1>3
<1> QED BY <1>2, <1>4, <1>5

(* What a queue says once the driver has added an event: STA_START adds    *)
(* nothing, the others say what the station is now.                        *)
LEMMA SaysAppend ==
  ASSUME NEW q \in Seq(Events), NEW e \in Events, NEW s
  PROVE  /\ e = "STA_START" /\ Says(q, s) => Says(Append(q, e), s)
         /\ e = "STA_START" /\ Silent(Append(q, e)) => Silent(q)
         /\ e # "STA_START" /\ (e = "STA_GOT_IP" <=> s = "up") =>
              Says(Append(q, e), s)
         /\ e # "STA_START" => ~Silent(Append(q, e))
<1> DEFINE a == Append(q, e)
<1>1. /\ Len(q) \in Nat /\ Len(a) = Len(q) + 1
      /\ \A k \in 1..Len(q) : a[k] = q[k]
      /\ a[Len(q) + 1] = e
      /\ Len(q) + 1 \in 1..Len(a)
  OBVIOUS
<1> HIDE DEF a
<1>2. ASSUME e = "STA_START", Says(q, s) PROVE Says(a, s)
  <2> SUFFICES ASSUME NEW k \in 1..Len(a), a[k] # "STA_START",
                      \A j \in (k + 1)..Len(a) : a[j] = "STA_START"
               PROVE  a[k] = "STA_GOT_IP" <=> s = "up"
    BY DEF Says
  <2>1. k \in 1..Len(q) /\ a[k] = q[k]
    BY <1>1, <1>2
  <2>2. ASSUME NEW j \in (k + 1)..Len(q) PROVE q[j] = "STA_START"
    BY <1>1, <2>1
  <2> QED BY <1>2, <2>1, <2>2 DEF Says
<1>3. ASSUME Silent(a) PROVE Silent(q)
  BY <1>1, <1>3 DEF Silent
<1>4. ASSUME e # "STA_START", e = "STA_GOT_IP" <=> s = "up" PROVE Says(a, s)
  <2> SUFFICES ASSUME NEW k \in 1..Len(a), a[k] # "STA_START",
                      \A j \in (k + 1)..Len(a) : a[j] = "STA_START"
               PROVE  a[k] = "STA_GOT_IP" <=> s = "up"
    BY DEF Says
  <2>1. k = Len(q) + 1
    <3> SUFFICES ASSUME k # Len(q) + 1 PROVE FALSE
      OBVIOUS
    <3>1. Len(q) + 1 \in (k + 1)..Len(a)
      BY <1>1
    <3> QED BY <1>1, <1>4, <3>1
  <2> QED BY <1>1, <1>4, <2>1
<1>5. e # "STA_START" => ~Silent(a)
  BY <1>1 DEF Silent
<1> QED BY <1>2, <1>3, <1>4, <1>5 DEF a

(* A queue that says what the station was says what it is after Drive.     *)
LEMMA DriveSays ==
  ASSUME Control, Flags, Queue, Station, StatusQueue, NEW m \in Modes,
         NEW on \in BOOLEAN, NEW conn \in BOOLEAN, Drive(m, on, conn)
  PROVE  /\ Says(events', sta')
         /\ Silent(events') => Silent(events) /\ (sta = "up" <=> sta' = "up")
<1> USE DEF Control, Flags, Queue, Station, StatusQueue
<1>0. Says(events, sta)
  OBVIOUS
<1>1. \/ events' = events /\ (sta = "up" <=> sta' = "up")
      \/ /\ events' \in {events, Append(events, "STA_START")}
         /\ sta = "up" <=> sta' = "up"
      \/ events' = Append(events, "STA_DISCONNECTED") /\ sta' = "idle"
  BY DEF Drive, StaUp, HasSta, Post
<1>2. CASE events' = events /\ (sta = "up" <=> sta' = "up")
  BY <1>0, <1>2 DEF Says
<1>3. CASE /\ events' = Append(events, "STA_START")
           /\ sta = "up" <=> sta' = "up"
  <2>1. Says(events', sta)
    BY <1>0, <1>3, SaysAppend DEF Events
  <2> QED BY <1>3, <2>1, SaysAppend DEF Events, Says
<1>4. CASE events' = Append(events, "STA_DISCONNECTED") /\ sta' = "idle"
  BY <1>4, SaysAppend DEF Events
<1> QED BY <1>1, <1>2, <1>3, <1>4

(* The control points and the driver keep to their values.                 *)
LEMMA ControlStep ==
  ASSUME Control, Flags, [Next]_vars PROVE Control'
<1> USE DEF Control, Modes, appVars, groupVars, flagVars, confVars, drvVars,
            netVars, fotaVars, countVars, history
<1>1. CASE Associate
  BY <1>1 DEF Associate, Post
<1>2. CASE LoseStation
  BY <1>2 DEF LoseStation, Post
<1>3. CASE Network
  BY <1>3 DEF Network
<1>4. CASE event_handler /\ StationStarted
  BY <1>4 DEF event_handler, StationStarted, esp_wifi_connect, StaUp, HasSta
<1>5. CASE event_handler /\ StationDisconnected
  <2>1. sta' \in {"idle", "connecting", "up"}
    BY <1>5 DEF StationDisconnected, esp_wifi_connect, StaUp, HasSta
  <2>2. bits' \subseteq {"CONNECTED", "FAIL"}
    BY <1>5 DEF StationDisconnected
  <2>3. UNCHANGED <<init, conf, ctl, mode, seen, fota>>
    BY <1>5 DEF event_handler
  <2> QED BY <2>1, <2>2, <2>3
<1>6. CASE event_handler /\ StationGotIp
  BY <1>6 DEF event_handler, StationGotIp
<1>7. ASSUME NEW i \in Starts, wifi_connect_init_task(i), InitNetif(i) PROVE
      Control'
  BY <1>7 DEF wifi_connect_init_task, InitNetif, InitGoto, Group
<1>8. ASSUME NEW i \in Starts, wifi_connect_init_task(i), InitDriver(i) PROVE
      Control'
  BY <1>8
  DEF wifi_connect_init_task, InitDriver, InitGoto, Drive, StaUp, HasSta,
      Post
<1>9. ASSUME NEW i \in Starts, wifi_connect_init_task(i), InitWoken(i) PROVE
      Control'
  BY <1>9 DEF wifi_connect_init_task, InitWoken, InitGoto
<1>10. ASSUME NEW i \in Starts, wifi_connect_init_task(i), InitMark(i) PROVE
      Control'
  BY <1>10 DEF wifi_connect_init_task, InitMark, InitGoto, Spawn
<1>11. ASSUME NEW i \in Starts, wifi_connect_init_task(i), InitSpawn(i) PROVE
      Control'
  BY <1>11 DEF wifi_connect_init_task, InitSpawn, InitGoto, Spawn
<1>12. ASSUME NEW i \in Starts, wifi_config_task(i), ConfReceive(i) PROVE
      Control'
  BY <1>12 DEF wifi_config_task, ConfReceive
<1>13. ASSUME NEW i \in Starts, wifi_config_task(i), ConfFlag(i) PROVE
      Control'
  BY <1>13 DEF wifi_config_task, ConfFlag
<1>14. ASSUME NEW i \in Starts, wifi_config_task(i), ConfDisconnect(i) PROVE
      Control'
  BY <1>14 DEF wifi_config_task, ConfDisconnect, Post
<1>15. ASSUME NEW i \in Starts, wifi_config_task(i), ConfExit(i) PROVE
      Control'
  BY <1>15 DEF wifi_config_task, ConfExit
<1>16. CASE SendConfig
  BY <1>16 DEF SendConfig
<1>17. CASE wifi_connect_task_start
  BY <1>17 DEF wifi_connect_task_start, InitGoto, FotaBusy
<1>18. CASE StopFlag
  BY <1>18 DEF StopFlag, FotaBusy, UnderWay
<1>19. CASE StopDriver
  BY <1>19 DEF StopDriver, Drive, StaUp, HasSta, Post
<1>20. CASE StopDelete
  BY <1>20 DEF StopDelete, UnderWay
<1>21. CASE FotaMode
  BY <1>21 DEF FotaMode, UnderWay
<1>22. CASE FotaEnable
  <2>1. CASE fota' = "idle"
    BY <1>22, <2>1, EnableEffect DEF FotaEnable, EnableTo
  <2>2. ASSUME NEW m \in Modes, NEW on \in BOOLEAN, EnableTo(m, on)
        PROVE  Control'
    BY <1>22, <2>2 DEF FotaEnable, EnableTo, Drive, StaUp, HasSta, Post,
          Modes
  <2> QED BY <1>22, <2>1, <2>2, EnableEffect
<1>23. CASE FotaUp
  BY <1>23 DEF FotaUp
<1>24. CASE FotaStop
  BY <1>24 DEF FotaStop, Drive, StaUp, HasSta, Post, Kick
<1>25. CASE FotaClear
  BY <1>25 DEF FotaClear
<1>26. CASE UNCHANGED vars
  BY <1>26 DEF vars
<1>27. CASE event_handler
  BY <1>27, <1>4, <1>5, <1>6 DEF event_handler
<1>28. ASSUME NEW i \in Starts, wifi_connect_init_task(i) PROVE Control'
  BY <1>28, <1>7, <1>8, <1>9, <1>10, <1>11 DEF wifi_connect_init_task
<1>29. ASSUME NEW i \in Starts, wifi_config_task(i) PROVE Control'
  BY <1>29, <1>12, <1>13, <1>14, <1>15 DEF wifi_config_task
<1> QED
  BY <1>1, <1>2, <1>3, <1>16, <1>17, <1>18, <1>19, <1>20, <1>21, <1>22,
     <1>23, <1>24, <1>25, <1>26, <1>27, <1>28, <1>29
  DEF Next, Stopping, Opening

(* The flags stay Boolean.                                                 *)
LEMMA FlagsStep ==
  ASSUME Control, Flags, [Next]_vars PROVE Flags'
<1> USE DEF Flags, appVars, groupVars, flagVars, confVars, drvVars, netVars,
            fotaVars, countVars, history
<1>1. CASE Associate
  BY <1>1 DEF Associate, Post
<1>2. CASE LoseStation
  BY <1>2 DEF LoseStation, Post
<1>3. CASE Network
  <2>1. net' \in BOOLEAN
    BY <1>3 DEF Network
  <2>2. UNCHANGED <<wifi_connect_task_close, g_wifi_netif,
                    s_wifi_event_group, s_wifi_connected,
                    s_reconnect_request, started, s_fota_ap_running,
                    s_was_apsta, caught, mixed, dormant, stale, missed,
                    fault>>
    BY <1>3 DEF Network
  <2> QED BY <2>1, <2>2
<1>4. CASE event_handler /\ StationStarted
  BY <1>4 DEF event_handler, StationStarted, esp_wifi_connect, StaUp, HasSta
<1>5. CASE event_handler /\ StationDisconnected
  <2>1. s_wifi_connected' \in BOOLEAN
    BY <1>5 DEF event_handler, StationDisconnected, Down
  <2>2. s_reconnect_request' \in BOOLEAN
    BY <1>5 DEF event_handler, StationDisconnected, Down
  <2>3. missed' \in BOOLEAN
    BY <1>5 DEF event_handler, StationDisconnected, Down
  <2>4. fault' \in BOOLEAN
    BY <1>5 DEF event_handler, StationDisconnected, Down
  <2>5. UNCHANGED <<wifi_connect_task_close, g_wifi_netif,
                    s_wifi_event_group, started, net, s_fota_ap_running,
                    s_was_apsta, caught, mixed, dormant, stale>>
    BY <1>5 DEF event_handler, StationDisconnected
  <2> QED BY <2>1, <2>2, <2>3, <2>4, <2>5
<1>6. CASE event_handler /\ StationGotIp
  <2>1. s_wifi_connected' \in BOOLEAN
    BY <1>6 DEF event_handler, StationGotIp
  <2>2. fault' \in BOOLEAN
    BY <1>6 DEF event_handler, StationGotIp
  <2>3. UNCHANGED <<wifi_connect_task_close, g_wifi_netif,
                    s_wifi_event_group, s_reconnect_request, started, net,
                    s_fota_ap_running, s_was_apsta, caught, mixed, dormant,
                    stale, missed>>
    BY <1>6 DEF event_handler, StationGotIp
  <2> QED BY <2>1, <2>2, <2>3
<1>7. ASSUME NEW i \in Starts, wifi_connect_init_task(i), InitNetif(i) PROVE
      Flags'
  <2>1. s_wifi_event_group' \in BOOLEAN
    BY <1>7 DEF wifi_connect_init_task, InitNetif, Group
  <2>2. g_wifi_netif' \in BOOLEAN
    BY <1>7 DEF wifi_connect_init_task, InitNetif, Group
  <2>3. UNCHANGED <<wifi_connect_task_close, s_wifi_connected,
                    s_reconnect_request, started, net, s_fota_ap_running,
                    s_was_apsta, caught, mixed, dormant, stale, missed,
                    fault>>
    BY <1>7 DEF wifi_connect_init_task, InitNetif
  <2> QED BY <2>1, <2>2, <2>3
<1>8. ASSUME NEW i \in Starts, wifi_connect_init_task(i), InitDriver(i) PROVE
      Flags'
  <2>1. fault' \in BOOLEAN
    BY <1>8 DEF wifi_connect_init_task, InitDriver
  <2>2. started' \in BOOLEAN
    BY <1>8 DEF wifi_connect_init_task, InitDriver, Drive
  <2>3. UNCHANGED <<wifi_connect_task_close, g_wifi_netif,
                    s_wifi_event_group, s_wifi_connected,
                    s_reconnect_request, net, s_fota_ap_running, s_was_apsta,
                    caught, mixed, dormant, stale, missed>>
    BY <1>8 DEF wifi_connect_init_task, InitDriver
  <2> QED BY <2>1, <2>2, <2>3
<1>9. ASSUME NEW i \in Starts, wifi_connect_init_task(i), InitWoken(i) PROVE
      Flags'
  BY <1>9 DEF wifi_connect_init_task, InitWoken, InitGoto
<1>10. ASSUME NEW i \in Starts, wifi_connect_init_task(i), InitMark(i) PROVE
      Flags'
  <2>1. s_wifi_connected' \in BOOLEAN
    BY <1>10 DEF wifi_connect_init_task, InitMark
  <2>2. stale' \in BOOLEAN
    BY <1>10 DEF wifi_connect_init_task, InitMark
  <2>3. UNCHANGED <<wifi_connect_task_close, g_wifi_netif,
                    s_wifi_event_group, s_reconnect_request, started, net,
                    s_fota_ap_running, s_was_apsta, caught, mixed, dormant,
                    missed, fault>>
    BY <1>10 DEF wifi_connect_init_task, InitMark
  <2> QED BY <2>1, <2>2, <2>3
<1>11. ASSUME NEW i \in Starts, wifi_connect_init_task(i), InitSpawn(i) PROVE
      Flags'
  BY <1>11 DEF wifi_connect_init_task, InitSpawn, InitGoto, Spawn
<1>12. ASSUME NEW i \in Starts, wifi_config_task(i), ConfReceive(i) PROVE
      Flags'
  BY <1>12 DEF wifi_config_task, ConfReceive
<1>13. ASSUME NEW i \in Starts, wifi_config_task(i), ConfFlag(i) PROVE Flags'
  BY <1>13 DEF wifi_config_task, ConfFlag
<1>14. ASSUME NEW i \in Starts, wifi_config_task(i), ConfDisconnect(i) PROVE
      Flags'
  BY <1>14 DEF wifi_config_task, ConfDisconnect, Post
<1>15. ASSUME NEW i \in Starts, wifi_config_task(i), ConfExit(i) PROVE Flags'
  BY <1>15 DEF wifi_config_task, ConfExit
<1>16. CASE SendConfig
  BY <1>16 DEF SendConfig
<1>17. CASE wifi_connect_task_start
  <2>1. wifi_connect_task_close' \in BOOLEAN
    BY <1>17 DEF wifi_connect_task_start
  <2>2. mixed' \in BOOLEAN
    BY <1>17 DEF wifi_connect_task_start
  <2>3. UNCHANGED <<g_wifi_netif, s_wifi_event_group, s_wifi_connected,
                    s_reconnect_request, started, net, s_fota_ap_running,
                    s_was_apsta, caught, dormant, stale, missed, fault>>
    BY <1>17 DEF wifi_connect_task_start
  <2> QED BY <2>1, <2>2, <2>3
<1>18. CASE StopFlag
  <2>1. wifi_connect_task_close' \in BOOLEAN
    BY <1>18 DEF StopFlag
  <2>2. mixed' \in BOOLEAN
    BY <1>18 DEF StopFlag
  <2>3. caught' \in BOOLEAN
    BY <1>18 DEF StopFlag
  <2>4. UNCHANGED <<g_wifi_netif, s_wifi_event_group, s_wifi_connected,
                    s_reconnect_request, started, net, s_fota_ap_running,
                    s_was_apsta, dormant, stale, missed, fault>>
    BY <1>18 DEF StopFlag
  <2> QED BY <2>1, <2>2, <2>3, <2>4
<1>19. CASE StopDriver
  <2>1. fault' \in BOOLEAN
    BY <1>19 DEF StopDriver
  <2>2. started' \in BOOLEAN
    BY <1>19 DEF StopDriver, Drive
  <2>3. UNCHANGED <<wifi_connect_task_close, g_wifi_netif,
                    s_wifi_event_group, s_wifi_connected,
                    s_reconnect_request, net, s_fota_ap_running, s_was_apsta,
                    caught, mixed, dormant, stale, missed>>
    BY <1>19 DEF StopDriver
  <2> QED BY <2>1, <2>2, <2>3
<1>20. CASE StopDelete
  <2>1. s_wifi_event_group' \in BOOLEAN
    BY <1>20 DEF StopDelete
  <2>2. caught' \in BOOLEAN
    BY <1>20 DEF StopDelete
  <2>3. UNCHANGED <<wifi_connect_task_close, g_wifi_netif, s_wifi_connected,
                    s_reconnect_request, started, net, s_fota_ap_running,
                    s_was_apsta, mixed, dormant, stale, missed, fault>>
    BY <1>20 DEF StopDelete
  <2> QED BY <2>1, <2>2, <2>3
<1>21. CASE FotaMode
  <2>1. mixed' \in BOOLEAN
    BY <1>21 DEF FotaMode
  <2>2. dormant' \in BOOLEAN
    BY <1>21 DEF FotaMode
  <2>3. UNCHANGED <<wifi_connect_task_close, g_wifi_netif,
                    s_wifi_event_group, s_wifi_connected,
                    s_reconnect_request, started, net, s_fota_ap_running,
                    s_was_apsta, caught, stale, missed, fault>>
    BY <1>21 DEF FotaMode
  <2> QED BY <2>1, <2>2, <2>3
<1>22. CASE FotaEnable
  <2>1. CASE fota' = "idle"
    BY <1>22, <2>1, EnableEffect DEF FotaEnable, EnableTo
  <2>2. ASSUME NEW m \in Modes, NEW on \in BOOLEAN, EnableTo(m, on)
        PROVE  Flags'
    BY <1>22, <2>2 DEF FotaEnable, EnableTo, Drive, StaUp, HasSta, Post,
          Modes
  <2> QED BY <1>22, <2>1, <2>2, EnableEffect
<1>23. CASE FotaUp
  BY <1>23 DEF FotaUp
<1>24. CASE FotaStop
  <2>1. started' \in BOOLEAN
    BY <1>24 DEF FotaStop, Drive
  <2>2. UNCHANGED <<wifi_connect_task_close, g_wifi_netif,
                    s_wifi_event_group, s_wifi_connected,
                    s_reconnect_request, net, s_fota_ap_running, s_was_apsta,
                    caught, mixed, dormant, stale, missed, fault>>
    BY <1>24 DEF FotaStop
  <2> QED BY <2>1, <2>2
<1>25. CASE FotaClear
  <2>1. s_fota_ap_running' \in BOOLEAN
    BY <1>25 DEF FotaClear
  <2>2. s_was_apsta' \in BOOLEAN
    BY <1>25 DEF FotaClear
  <2>3. UNCHANGED <<wifi_connect_task_close, g_wifi_netif,
                    s_wifi_event_group, s_wifi_connected,
                    s_reconnect_request, started, net, caught, mixed,
                    dormant, stale, missed, fault>>
    BY <1>25 DEF FotaClear
  <2> QED BY <2>1, <2>2, <2>3
<1>26. CASE UNCHANGED vars
  BY <1>26 DEF vars
<1>27. CASE event_handler
  BY <1>27, <1>4, <1>5, <1>6 DEF event_handler
<1>28. ASSUME NEW i \in Starts, wifi_connect_init_task(i) PROVE Flags'
  BY <1>28, <1>7, <1>8, <1>9, <1>10, <1>11 DEF wifi_connect_init_task
<1>29. ASSUME NEW i \in Starts, wifi_config_task(i) PROVE Flags'
  BY <1>29, <1>12, <1>13, <1>14, <1>15 DEF wifi_config_task
<1> QED
  BY <1>1, <1>2, <1>3, <1>16, <1>17, <1>18, <1>19, <1>20, <1>21, <1>22,
     <1>23, <1>24, <1>25, <1>26, <1>27, <1>28, <1>29
  DEF Next, Stopping, Opening

(* The counters keep to their bounds, and the queue holds no more          *)
(* credentials than were sent.                                             *)
LEMMA NumbersStep ==
  ASSUME Numbers, [Next]_vars PROVE Numbers'
<1> USE DEF Numbers, appVars, groupVars, flagVars, confVars, drvVars,
            netVars, fotaVars, countVars, history
<1>1. CASE Associate
  BY <1>1, RetryAssumption, BoundsAssumption DEF Associate
<1>2. CASE LoseStation
  BY <1>2, RetryAssumption, BoundsAssumption DEF LoseStation
<1>3. CASE Network
  BY <1>3, RetryAssumption, BoundsAssumption DEF Network
<1>4. CASE event_handler /\ StationStarted
  BY <1>4, RetryAssumption, BoundsAssumption
  DEF event_handler, StationStarted
<1>5. CASE event_handler /\ StationDisconnected
  BY <1>5, RetryAssumption, BoundsAssumption
  DEF event_handler, StationDisconnected
<1>6. CASE event_handler /\ StationGotIp
  BY <1>6, RetryAssumption, BoundsAssumption DEF event_handler, StationGotIp
<1>7. ASSUME NEW i \in Starts, wifi_connect_init_task(i), InitNetif(i) PROVE
      Numbers'
  BY <1>7, RetryAssumption, BoundsAssumption
  DEF wifi_connect_init_task, InitNetif
<1>8. ASSUME NEW i \in Starts, wifi_connect_init_task(i), InitDriver(i) PROVE
      Numbers'
  BY <1>8, RetryAssumption, BoundsAssumption
  DEF wifi_connect_init_task, InitDriver
<1>9. ASSUME NEW i \in Starts, wifi_connect_init_task(i), InitWoken(i) PROVE
      Numbers'
  BY <1>9, RetryAssumption, BoundsAssumption
  DEF wifi_connect_init_task, InitWoken
<1>10. ASSUME NEW i \in Starts, wifi_connect_init_task(i), InitMark(i) PROVE
      Numbers'
  BY <1>10, RetryAssumption, BoundsAssumption
  DEF wifi_connect_init_task, InitMark
<1>11. ASSUME NEW i \in Starts, wifi_connect_init_task(i), InitSpawn(i) PROVE
      Numbers'
  BY <1>11, RetryAssumption, BoundsAssumption
  DEF wifi_connect_init_task, InitSpawn
<1>12. ASSUME NEW i \in Starts, wifi_config_task(i), ConfReceive(i) PROVE
      Numbers'
  BY <1>12, RetryAssumption, BoundsAssumption
  DEF wifi_config_task, ConfReceive
<1>13. ASSUME NEW i \in Starts, wifi_config_task(i), ConfFlag(i) PROVE
      Numbers'
  BY <1>13, RetryAssumption, BoundsAssumption DEF wifi_config_task, ConfFlag
<1>14. ASSUME NEW i \in Starts, wifi_config_task(i), ConfDisconnect(i) PROVE
      Numbers'
  BY <1>14, RetryAssumption, BoundsAssumption
  DEF wifi_config_task, ConfDisconnect
<1>15. ASSUME NEW i \in Starts, wifi_config_task(i), ConfExit(i) PROVE
      Numbers'
  BY <1>15, RetryAssumption, BoundsAssumption DEF wifi_config_task, ConfExit
<1>16. CASE SendConfig
  BY <1>16, RetryAssumption, BoundsAssumption DEF SendConfig
<1>17. CASE wifi_connect_task_start
  BY <1>17, RetryAssumption, BoundsAssumption DEF wifi_connect_task_start
<1>18. CASE StopFlag
  BY <1>18, RetryAssumption, BoundsAssumption DEF StopFlag
<1>19. CASE StopDriver
  BY <1>19, RetryAssumption, BoundsAssumption DEF StopDriver
<1>20. CASE StopDelete
  BY <1>20, RetryAssumption, BoundsAssumption DEF StopDelete
<1>21. CASE FotaMode
  BY <1>21, RetryAssumption, BoundsAssumption DEF FotaMode
<1>22. CASE FotaEnable
  BY <1>22, RetryAssumption, BoundsAssumption DEF FotaEnable
<1>23. CASE FotaUp
  BY <1>23, RetryAssumption, BoundsAssumption DEF FotaUp
<1>24. CASE FotaStop
  BY <1>24, RetryAssumption, BoundsAssumption DEF FotaStop
<1>25. CASE FotaClear
  BY <1>25, RetryAssumption, BoundsAssumption DEF FotaClear
<1>26. CASE UNCHANGED vars
  BY <1>26 DEF vars
<1>27. CASE event_handler
  BY <1>27, <1>4, <1>5, <1>6 DEF event_handler
<1>28. ASSUME NEW i \in Starts, wifi_connect_init_task(i) PROVE Numbers'
  BY <1>28, <1>7, <1>8, <1>9, <1>10, <1>11 DEF wifi_connect_init_task
<1>29. ASSUME NEW i \in Starts, wifi_config_task(i) PROVE Numbers'
  BY <1>29, <1>12, <1>13, <1>14, <1>15 DEF wifi_config_task
<1> QED
  BY <1>1, <1>2, <1>3, <1>16, <1>17, <1>18, <1>19, <1>20, <1>21, <1>22,
     <1>23, <1>24, <1>25, <1>26, <1>27, <1>28, <1>29
  DEF Next, Stopping, Opening

(* What Drive posts is an event.                                           *)
LEMMA DriveQueue ==
  ASSUME Queue, NEW m, NEW on, NEW conn, Drive(m, on, conn) PROVE Queue'
<1>1. \/ events' = events
      \/ events' = Append(events, "STA_START")
      \/ events' = Append(events, "STA_DISCONNECTED")
  BY DEF Drive, Post
<1> QED BY <1>1 DEF Queue, Events

(* The event loop's queue is a sequence of events.                         *)
LEMMA QueueStep ==
  ASSUME Control, Flags, Queue, [Next]_vars PROVE Queue'
<1> USE DEF Queue, Events, appVars, groupVars, flagVars, confVars, drvVars,
            netVars, fotaVars, countVars, history
<1>1. CASE Associate
  BY <1>1 DEF Associate, Post
<1>2. CASE LoseStation
  BY <1>2 DEF LoseStation, Post
<1>3. CASE Network
  BY <1>3 DEF Network
<1>4. CASE event_handler /\ StationStarted
  BY <1>4 DEF event_handler, StationStarted, esp_wifi_connect, StaUp, HasSta
<1>5. CASE event_handler /\ StationDisconnected
  BY <1>5
  DEF event_handler, StationDisconnected, esp_wifi_connect, StaUp, HasSta,
      Down
<1>6. CASE event_handler /\ StationGotIp
  BY <1>6 DEF event_handler, StationGotIp
<1>7. ASSUME NEW i \in Starts, wifi_connect_init_task(i), InitNetif(i) PROVE
      Queue'
  BY <1>7 DEF wifi_connect_init_task, InitNetif, InitGoto, Group
<1>8. ASSUME NEW i \in Starts, wifi_connect_init_task(i), InitDriver(i) PROVE
      Queue'
  BY <1>8, DriveQueue DEF InitDriver
<1>9. ASSUME NEW i \in Starts, wifi_connect_init_task(i), InitWoken(i) PROVE
      Queue'
  BY <1>9 DEF wifi_connect_init_task, InitWoken, InitGoto
<1>10. ASSUME NEW i \in Starts, wifi_connect_init_task(i), InitMark(i) PROVE
      Queue'
  BY <1>10 DEF wifi_connect_init_task, InitMark, InitGoto, Spawn
<1>11. ASSUME NEW i \in Starts, wifi_connect_init_task(i), InitSpawn(i) PROVE
      Queue'
  BY <1>11 DEF wifi_connect_init_task, InitSpawn, InitGoto, Spawn
<1>12. ASSUME NEW i \in Starts, wifi_config_task(i), ConfReceive(i) PROVE
      Queue'
  BY <1>12 DEF wifi_config_task, ConfReceive
<1>13. ASSUME NEW i \in Starts, wifi_config_task(i), ConfFlag(i) PROVE Queue'
  BY <1>13 DEF wifi_config_task, ConfFlag
<1>14. ASSUME NEW i \in Starts, wifi_config_task(i), ConfDisconnect(i) PROVE
      Queue'
  BY <1>14 DEF wifi_config_task, ConfDisconnect, Post
<1>15. ASSUME NEW i \in Starts, wifi_config_task(i), ConfExit(i) PROVE Queue'
  BY <1>15 DEF wifi_config_task, ConfExit
<1>16. CASE SendConfig
  BY <1>16 DEF SendConfig
<1>17. CASE wifi_connect_task_start
  BY <1>17 DEF wifi_connect_task_start, InitGoto, FotaBusy
<1>18. CASE StopFlag
  BY <1>18 DEF StopFlag, FotaBusy, UnderWay
<1>19. CASE StopDriver
  BY <1>19, DriveQueue DEF StopDriver
<1>20. CASE StopDelete
  BY <1>20 DEF StopDelete, UnderWay
<1>21. CASE FotaMode
  BY <1>21 DEF FotaMode, UnderWay
<1>22. CASE FotaEnable
  <2>1. CASE fota' = "idle"
    BY <1>22, <2>1, EnableEffect DEF FotaEnable, EnableTo
  <2>2. ASSUME NEW m \in Modes, NEW on \in BOOLEAN, EnableTo(m, on)
        PROVE  Queue'
    BY <2>2, DriveQueue DEF EnableTo
  <2> QED BY <1>22, <2>1, <2>2, EnableEffect
<1>23. CASE FotaUp
  BY <1>23 DEF FotaUp
<1>24. CASE FotaStop
  BY <1>24, DriveQueue DEF FotaStop
<1>25. CASE FotaClear
  BY <1>25 DEF FotaClear
<1>26. CASE UNCHANGED vars
  BY <1>26 DEF vars
<1>27. CASE event_handler
  BY <1>27, <1>4, <1>5, <1>6 DEF event_handler
<1>28. ASSUME NEW i \in Starts, wifi_connect_init_task(i) PROVE Queue'
  BY <1>28, <1>7, <1>8, <1>9, <1>10, <1>11 DEF wifi_connect_init_task
<1>29. ASSUME NEW i \in Starts, wifi_config_task(i) PROVE Queue'
  BY <1>29, <1>12, <1>13, <1>14, <1>15 DEF wifi_config_task
<1> QED
  BY <1>1, <1>2, <1>3, <1>16, <1>17, <1>18, <1>19, <1>20, <1>21, <1>22,
     <1>23, <1>24, <1>25, <1>26, <1>27, <1>28, <1>29
  DEF Next, Stopping, Opening

(* The handler is registered before the driver has a station.              *)
LEMMA StationStep ==
  ASSUME Control, Flags, Queue, Station, [Next]_vars PROVE Station'
<1> USE DEF Control, Flags, Station, HasSta, StaUp, appVars, groupVars,
            flagVars, confVars, drvVars, netVars, fotaVars, countVars,
            history
<1>1. CASE Associate
  BY <1>1 DEF Associate, Post
<1>2. CASE LoseStation
  BY <1>2 DEF LoseStation, Post
<1>3. CASE Network
  BY <1>3 DEF Network
<1>4. CASE event_handler /\ StationStarted
  BY <1>4 DEF event_handler, StationStarted, esp_wifi_connect, StaUp, HasSta
<1>5. CASE event_handler /\ StationDisconnected
  BY <1>5
  DEF event_handler, StationDisconnected, esp_wifi_connect, StaUp, HasSta,
      Down
<1>6. CASE event_handler /\ StationGotIp
  BY <1>6 DEF event_handler, StationGotIp
<1>7. ASSUME NEW i \in Starts, wifi_connect_init_task(i), InitNetif(i) PROVE
      Station'
  BY <1>7 DEF wifi_connect_init_task, InitNetif, InitGoto, Group
<1>8. ASSUME NEW i \in Starts, wifi_connect_init_task(i), InitDriver(i) PROVE
      Station'
  BY <1>8
  DEF wifi_connect_init_task, InitDriver, InitGoto, Drive, StaUp, HasSta,
      Post
<1>9. ASSUME NEW i \in Starts, wifi_connect_init_task(i), InitWoken(i) PROVE
      Station'
  BY <1>9 DEF wifi_connect_init_task, InitWoken, InitGoto
<1>10. ASSUME NEW i \in Starts, wifi_connect_init_task(i), InitMark(i) PROVE
      Station'
  BY <1>10 DEF wifi_connect_init_task, InitMark, InitGoto, Spawn
<1>11. ASSUME NEW i \in Starts, wifi_connect_init_task(i), InitSpawn(i) PROVE
      Station'
  BY <1>11 DEF wifi_connect_init_task, InitSpawn, InitGoto, Spawn
<1>12. ASSUME NEW i \in Starts, wifi_config_task(i), ConfReceive(i) PROVE
      Station'
  BY <1>12 DEF wifi_config_task, ConfReceive
<1>13. ASSUME NEW i \in Starts, wifi_config_task(i), ConfFlag(i) PROVE
      Station'
  BY <1>13 DEF wifi_config_task, ConfFlag
<1>14. ASSUME NEW i \in Starts, wifi_config_task(i), ConfDisconnect(i) PROVE
      Station'
  BY <1>14 DEF wifi_config_task, ConfDisconnect, Post
<1>15. ASSUME NEW i \in Starts, wifi_config_task(i), ConfExit(i) PROVE
      Station'
  BY <1>15 DEF wifi_config_task, ConfExit
<1>16. CASE SendConfig
  BY <1>16 DEF SendConfig
<1>17. CASE wifi_connect_task_start
  BY <1>17 DEF wifi_connect_task_start, InitGoto, FotaBusy
<1>18. CASE StopFlag
  BY <1>18 DEF StopFlag, FotaBusy, UnderWay
<1>19. CASE StopDriver
  BY <1>19 DEF StopDriver, Drive, StaUp, HasSta, Post
<1>20. CASE StopDelete
  BY <1>20 DEF StopDelete, UnderWay
<1>21. CASE FotaMode
  BY <1>21 DEF FotaMode, UnderWay
<1>22. CASE FotaEnable
  <2>1. CASE fota' = "idle"
    BY <1>22, <2>1, EnableEffect DEF FotaEnable, EnableTo
  <2>2. ASSUME NEW m \in Modes, NEW on \in BOOLEAN, EnableTo(m, on)
        PROVE  Station'
    BY <1>22, <2>2 DEF FotaEnable, EnableTo, Drive, StaUp, HasSta, Post,
          Modes
  <2> QED BY <1>22, <2>1, <2>2, EnableEffect
<1>23. CASE FotaUp
  BY <1>23 DEF FotaUp
<1>24. CASE FotaStop
  BY <1>24 DEF FotaStop, Drive, StaUp, HasSta, Post, Kick
<1>25. CASE FotaClear
  BY <1>25 DEF FotaClear
<1>26. CASE UNCHANGED vars
  BY <1>26 DEF vars
<1>27. CASE event_handler
  BY <1>27, <1>4, <1>5, <1>6 DEF event_handler
<1>28. ASSUME NEW i \in Starts, wifi_connect_init_task(i) PROVE Station'
  BY <1>28, <1>7, <1>8, <1>9, <1>10, <1>11 DEF wifi_connect_init_task
<1>29. ASSUME NEW i \in Starts, wifi_config_task(i) PROVE Station'
  BY <1>29, <1>12, <1>13, <1>14, <1>15 DEF wifi_config_task
<1> QED
  BY <1>1, <1>2, <1>3, <1>16, <1>17, <1>18, <1>19, <1>20, <1>21, <1>22,
     <1>23, <1>24, <1>25, <1>26, <1>27, <1>28, <1>29
  DEF Next, Stopping, Opening

(* Alone with the driver, the access point finds the mode it has read and  *)
(* keeps the one it has set.                                               *)
LEMMA ApartStep ==
  ASSUME Control, Flags, Apart, [Next]_vars PROVE Apart'
<1> USE DEF Control, Flags, Apart, FotaBusy, UnderWay, appVars, groupVars,
            flagVars, confVars, drvVars, netVars, fotaVars, countVars,
            history
<1>1. CASE Associate
  BY <1>1 DEF Associate, Post
<1>2. CASE LoseStation
  BY <1>2 DEF LoseStation, Post
<1>3. CASE Network
  BY <1>3 DEF Network
<1>4. CASE event_handler /\ StationStarted
  BY <1>4 DEF event_handler, StationStarted, esp_wifi_connect, StaUp, HasSta
<1>5. CASE event_handler /\ StationDisconnected
  BY <1>5
  DEF event_handler, StationDisconnected, esp_wifi_connect, StaUp, HasSta,
      Down
<1>6. CASE event_handler /\ StationGotIp
  BY <1>6 DEF event_handler, StationGotIp
<1>7. ASSUME NEW i \in Starts, wifi_connect_init_task(i), InitNetif(i) PROVE
      Apart'
  BY <1>7 DEF wifi_connect_init_task, InitNetif, InitGoto, Group
<1>8. ASSUME NEW i \in Starts, wifi_connect_init_task(i), InitDriver(i) PROVE
      Apart'
  BY <1>8
  DEF wifi_connect_init_task, InitDriver, InitGoto, Drive, StaUp, HasSta,
      Post
<1>9. ASSUME NEW i \in Starts, wifi_connect_init_task(i), InitWoken(i) PROVE
      Apart'
  BY <1>9 DEF wifi_connect_init_task, InitWoken, InitGoto
<1>10. ASSUME NEW i \in Starts, wifi_connect_init_task(i), InitMark(i) PROVE
      Apart'
  BY <1>10 DEF wifi_connect_init_task, InitMark, InitGoto, Spawn
<1>11. ASSUME NEW i \in Starts, wifi_connect_init_task(i), InitSpawn(i) PROVE
      Apart'
  BY <1>11 DEF wifi_connect_init_task, InitSpawn, InitGoto, Spawn
<1>12. ASSUME NEW i \in Starts, wifi_config_task(i), ConfReceive(i) PROVE
      Apart'
  BY <1>12 DEF wifi_config_task, ConfReceive
<1>13. ASSUME NEW i \in Starts, wifi_config_task(i), ConfFlag(i) PROVE Apart'
  BY <1>13 DEF wifi_config_task, ConfFlag
<1>14. ASSUME NEW i \in Starts, wifi_config_task(i), ConfDisconnect(i) PROVE
      Apart'
  BY <1>14 DEF wifi_config_task, ConfDisconnect, Post
<1>15. ASSUME NEW i \in Starts, wifi_config_task(i), ConfExit(i) PROVE Apart'
  BY <1>15 DEF wifi_config_task, ConfExit
<1>16. CASE SendConfig
  BY <1>16 DEF SendConfig
<1>17. CASE wifi_connect_task_start
  BY <1>17 DEF wifi_connect_task_start, InitGoto, FotaBusy
<1>18. CASE StopFlag
  BY <1>18 DEF StopFlag, FotaBusy, UnderWay
<1>19. CASE StopDriver
  BY <1>19 DEF StopDriver, Drive, StaUp, HasSta, Post
<1>20. CASE StopDelete
  BY <1>20 DEF StopDelete, UnderWay
<1>21. CASE FotaMode
  BY <1>21 DEF FotaMode, UnderWay
<1>22. CASE FotaEnable
  <2>1. CASE fota' = "idle"
    BY <1>22, <2>1, EnableEffect DEF FotaEnable, EnableTo
  <2>2. ASSUME NEW m \in Modes, NEW on \in BOOLEAN, EnableTo(m, on)
        PROVE  Apart'
    BY <1>22, <2>2 DEF FotaEnable, EnableTo, Drive, StaUp, HasSta, Post,
          Modes
  <2> QED BY <1>22, <2>1, <2>2, EnableEffect
<1>23. CASE FotaUp
  BY <1>23 DEF FotaUp
<1>24. CASE FotaStop
  BY <1>24 DEF FotaStop, Drive, StaUp, HasSta, Post, Kick
<1>25. CASE FotaClear
  BY <1>25 DEF FotaClear
<1>26. CASE UNCHANGED vars
  BY <1>26 DEF vars
<1>27. CASE event_handler
  BY <1>27, <1>4, <1>5, <1>6 DEF event_handler
<1>28. ASSUME NEW i \in Starts, wifi_connect_init_task(i) PROVE Apart'
  BY <1>28, <1>7, <1>8, <1>9, <1>10, <1>11 DEF wifi_connect_init_task
<1>29. ASSUME NEW i \in Starts, wifi_config_task(i) PROVE Apart'
  BY <1>29, <1>12, <1>13, <1>14, <1>15 DEF wifi_config_task
<1> QED
  BY <1>1, <1>2, <1>3, <1>16, <1>17, <1>18, <1>19, <1>20, <1>21, <1>22,
     <1>23, <1>24, <1>25, <1>26, <1>27, <1>28, <1>29
  DEF Next, Stopping, Opening

(* Before a stop catches anyone the driver, the event group and the        *)
(* starting task agree.                                                    *)
LEMMA CalmStep ==
  ASSUME Control, Flags, Numbers, Queue, Station, Apart, Calm,
         [Next]_vars
  PROVE  Calm'
<1> USE DEF Control, Flags, Numbers, Queue, Station, Calm, Apart, FotaBusy,
            UnderWay, HasSta, StaUp, appVars, groupVars, flagVars, confVars,
            drvVars, netVars, fotaVars, countVars, history
<1>1. CASE Associate
  BY <1>1 DEF Associate, Post
<1>2. CASE LoseStation
  BY <1>2 DEF LoseStation, Post
<1>3. CASE Network
  BY <1>3 DEF Network
<1>4. CASE event_handler /\ StationStarted
  BY <1>4 DEF event_handler, StationStarted, esp_wifi_connect, StaUp, HasSta
<1>5. CASE event_handler /\ StationDisconnected
  BY <1>5
  DEF event_handler, StationDisconnected, esp_wifi_connect, StaUp, HasSta,
      Down
<1>6. CASE event_handler /\ StationGotIp
  BY <1>6 DEF event_handler, StationGotIp
<1>7. ASSUME NEW i \in Starts, wifi_connect_init_task(i), InitNetif(i) PROVE
      Calm'
  <2> SUFFICES ASSUME ~mixed, ~caught PROVE Calm'
    BY <1>7 DEF wifi_connect_init_task
  <2>1. /\ init[i] = "netif" /\ UnderWay
        /\ \A j \in Starts : j # i =>
             init[j] \notin {"netif", "driver", "config"}
    BY <1>7 DEF InitNetif
  <2>2. IF g_wifi_netif THEN HasSta(mode) ELSE mode = "NULL"
    BY <2>1 DEF Modes
  <2>3. /\ \A j \in Starts : j # i => init'[j] = init[j]
        /\ init'[i] = IF g_wifi_netif THEN "config" ELSE "driver"
        /\ g_wifi_netif' /\ s_wifi_event_group'
    BY <1>7 DEF InitNetif, InitGoto, Group
  <2>4. UNCHANGED <<mode, started, sta, events, fault, mixed, caught, fota,
                    s_fota_ap_running, s_was_apsta, ctl, starts,
                    wifi_connect_task_close>>
    BY <1>7 DEF InitNetif, wifi_connect_init_task
  <2> QED BY <2>1, <2>2, <2>3, <2>4
<1>8. ASSUME NEW i \in Starts, wifi_connect_init_task(i), InitDriver(i) PROVE
      Calm'
  BY <1>8
  DEF wifi_connect_init_task, InitDriver, InitGoto, Drive, StaUp, HasSta,
      Post
<1>9. ASSUME NEW i \in Starts, wifi_connect_init_task(i), InitWoken(i) PROVE
      Calm'
  BY <1>9 DEF wifi_connect_init_task, InitWoken, InitGoto
<1>10. ASSUME NEW i \in Starts, wifi_connect_init_task(i), InitMark(i) PROVE
      Calm'
  BY <1>10 DEF wifi_connect_init_task, InitMark, InitGoto, Spawn
<1>11. ASSUME NEW i \in Starts, wifi_connect_init_task(i), InitSpawn(i) PROVE
      Calm'
  BY <1>11 DEF wifi_connect_init_task, InitSpawn, InitGoto, Spawn
<1>12. ASSUME NEW i \in Starts, wifi_config_task(i), ConfReceive(i) PROVE
      Calm'
  BY <1>12 DEF wifi_config_task, ConfReceive
<1>13. ASSUME NEW i \in Starts, wifi_config_task(i), ConfFlag(i) PROVE Calm'
  BY <1>13 DEF wifi_config_task, ConfFlag
<1>14. ASSUME NEW i \in Starts, wifi_config_task(i), ConfDisconnect(i) PROVE
      Calm'
  BY <1>14 DEF wifi_config_task, ConfDisconnect, Post
<1>15. ASSUME NEW i \in Starts, wifi_config_task(i), ConfExit(i) PROVE Calm'
  BY <1>15 DEF wifi_config_task, ConfExit
<1>16. CASE SendConfig
  BY <1>16 DEF SendConfig
<1>17. CASE wifi_connect_task_start
  BY <1>17 DEF wifi_connect_task_start, InitGoto, FotaBusy
<1>18. CASE StopFlag
  BY <1>18 DEF StopFlag, FotaBusy, UnderWay
<1>19. CASE StopDriver
  BY <1>19 DEF StopDriver, Drive, StaUp, HasSta, Post
<1>20. CASE StopDelete
  BY <1>20 DEF StopDelete, UnderWay
<1>21. CASE FotaMode
  BY <1>21 DEF FotaMode, UnderWay
<1>22. CASE FotaEnable
  <2>1. CASE fota' = "idle"
    BY <1>22, <2>1, EnableEffect DEF FotaEnable, EnableTo
  <2>2. ASSUME NEW m \in Modes, NEW on \in BOOLEAN, EnableTo(m, on)
        PROVE  Calm'
    BY <1>22, <2>2 DEF FotaEnable, EnableTo, Drive, StaUp, HasSta, Post,
          Modes
  <2> QED BY <1>22, <2>1, <2>2, EnableEffect
<1>23. CASE FotaUp
  BY <1>23 DEF FotaUp
<1>24. CASE FotaStop
  BY <1>24 DEF FotaStop, Drive, StaUp, HasSta, Post, Kick
<1>25. CASE FotaClear
  BY <1>25 DEF FotaClear
<1>26. CASE UNCHANGED vars
  BY <1>26 DEF vars
<1>27. CASE event_handler
  BY <1>27, <1>4, <1>5, <1>6 DEF event_handler
<1>28. ASSUME NEW i \in Starts, wifi_connect_init_task(i) PROVE Calm'
  BY <1>28, <1>7, <1>8, <1>9, <1>10, <1>11 DEF wifi_connect_init_task
<1>29. ASSUME NEW i \in Starts, wifi_config_task(i) PROVE Calm'
  BY <1>29, <1>12, <1>13, <1>14, <1>15 DEF wifi_config_task
<1> QED
  BY <1>1, <1>2, <1>3, <1>16, <1>17, <1>18, <1>19, <1>20, <1>21, <1>22,
     <1>23, <1>24, <1>25, <1>26, <1>27, <1>28, <1>29
  DEF Next, Stopping, Opening

(* An idle station is remembered by the queue, by the retries or by the    *)
(* access point.                                                           *)
LEMMA IdleStep ==
  ASSUME Control, Flags, Numbers, Queue, Station, StatusQueue, IdleQueue,
         [Next]_vars
  PROVE  IdleQueue'
<1> USE DEF Control, Flags, Numbers, Queue, Station, IdleQueue, HasSta,
            StaUp, appVars, groupVars, flagVars, confVars, drvVars, netVars,
            fotaVars, countVars, history
<1>1. CASE Associate
  BY <1>1 DEF Associate, Post
<1>2. CASE LoseStation
  BY <1>2 DEF LoseStation, Post
<1>3. CASE Network
  BY <1>3 DEF Network
<1>4. CASE event_handler /\ StationStarted
  BY <1>4 DEF event_handler, StationStarted, esp_wifi_connect, StaUp, HasSta
<1>5. CASE event_handler /\ StationDisconnected
  BY <1>5
  DEF event_handler, StationDisconnected, esp_wifi_connect, StaUp, HasSta,
      Down
<1>6. CASE event_handler /\ StationGotIp
  <2>1. Says(events, sta)
    BY DEF StatusQueue
  <2>2. Tail(events) = <<>> => Silent(Tail(events))
    BY DEF Silent
  <2>3. Tail(events) = <<>> => sta = "up"
    BY <1>6, <2>1, <2>2, SaysTail DEF event_handler, StationGotIp
  <2> QED BY <1>6, <2>3 DEF event_handler, StationGotIp
<1>7. ASSUME NEW i \in Starts, wifi_connect_init_task(i), InitNetif(i) PROVE
      IdleQueue'
  BY <1>7 DEF wifi_connect_init_task, InitNetif, InitGoto, Group
<1>8. ASSUME NEW i \in Starts, wifi_connect_init_task(i), InitDriver(i) PROVE
      IdleQueue'
  <2>1. g_wifi_netif
    BY <1>8 DEF InitDriver
  <2>2. UNCHANGED <<missed, fota, s_fota_ap_running, s_retry_num>>
    BY <1>8 DEF wifi_connect_init_task, InitDriver
  <2>3. \/ UNCHANGED <<mode, started, sta, events>>
        \/ \E on \in BOOLEAN : Drive("STA", on, FALSE)
    BY <1>8 DEF InitDriver
  <2>4. CASE UNCHANGED <<mode, started, sta, events>>
    BY <2>2, <2>4
  <2>5. ASSUME NEW on \in BOOLEAN, Drive("STA", on, FALSE) PROVE IdleQueue'
    BY <2>1, <2>2, <2>5 DEF Drive, Post
  <2> QED BY <2>3, <2>4, <2>5
<1>9. ASSUME NEW i \in Starts, wifi_connect_init_task(i), InitWoken(i) PROVE
      IdleQueue'
  BY <1>9 DEF wifi_connect_init_task, InitWoken, InitGoto
<1>10. ASSUME NEW i \in Starts, wifi_connect_init_task(i), InitMark(i) PROVE
      IdleQueue'
  BY <1>10 DEF wifi_connect_init_task, InitMark, InitGoto, Spawn
<1>11. ASSUME NEW i \in Starts, wifi_connect_init_task(i), InitSpawn(i) PROVE
      IdleQueue'
  BY <1>11 DEF wifi_connect_init_task, InitSpawn, InitGoto, Spawn
<1>12. ASSUME NEW i \in Starts, wifi_config_task(i), ConfReceive(i) PROVE
      IdleQueue'
  BY <1>12 DEF wifi_config_task, ConfReceive
<1>13. ASSUME NEW i \in Starts, wifi_config_task(i), ConfFlag(i) PROVE
      IdleQueue'
  BY <1>13 DEF wifi_config_task, ConfFlag
<1>14. ASSUME NEW i \in Starts, wifi_config_task(i), ConfDisconnect(i) PROVE
      IdleQueue'
  BY <1>14 DEF wifi_config_task, ConfDisconnect, Post
<1>15. ASSUME NEW i \in Starts, wifi_config_task(i), ConfExit(i) PROVE
      IdleQueue'
  BY <1>15 DEF wifi_config_task, ConfExit
<1>16. CASE SendConfig
  BY <1>16 DEF SendConfig
<1>17. CASE wifi_connect_task_start
  BY <1>17 DEF wifi_connect_task_start, InitGoto, FotaBusy
<1>18. CASE StopFlag
  BY <1>18 DEF StopFlag, FotaBusy, UnderWay
<1>19. CASE StopDriver
  BY <1>19 DEF StopDriver, Drive, StaUp, HasSta, Post
<1>20. CASE StopDelete
  BY <1>20 DEF StopDelete, UnderWay
<1>21. CASE FotaMode
  BY <1>21 DEF FotaMode, UnderWay
<1>22. CASE FotaEnable
  <2>1. CASE fota' = "idle"
    BY <1>22, <2>1, EnableEffect DEF FotaEnable, EnableTo
  <2>2. ASSUME NEW m \in Modes, NEW on \in BOOLEAN, EnableTo(m, on)
        PROVE  IdleQueue'
    BY <1>22, <2>2 DEF FotaEnable, EnableTo, Drive, StaUp, HasSta, Post,
          Modes
  <2> QED BY <1>22, <2>1, <2>2, EnableEffect
<1>23. CASE FotaUp
  BY <1>23 DEF FotaUp
<1>24. CASE FotaStop
  BY <1>24 DEF FotaStop, Drive, StaUp, HasSta, Post, Kick
<1>25. CASE FotaClear
  BY <1>25 DEF FotaClear
<1>26. CASE UNCHANGED vars
  BY <1>26 DEF vars
<1>27. CASE event_handler
  BY <1>27, <1>4, <1>5, <1>6 DEF event_handler
<1>28. ASSUME NEW i \in Starts, wifi_connect_init_task(i) PROVE IdleQueue'
  BY <1>28, <1>7, <1>8, <1>9, <1>10, <1>11 DEF wifi_connect_init_task
<1>29. ASSUME NEW i \in Starts, wifi_config_task(i) PROVE IdleQueue'
  BY <1>29, <1>12, <1>13, <1>14, <1>15 DEF wifi_config_task
<1> QED
  BY <1>1, <1>2, <1>3, <1>16, <1>17, <1>18, <1>19, <1>20, <1>21, <1>22,
     <1>23, <1>24, <1>25, <1>26, <1>27, <1>28, <1>29
  DEF Next, Stopping, Opening

(* The queue and the flag together know whether the station is up.         *)
LEMMA StatusStep ==
  ASSUME Control, Flags, Numbers, Queue, Station, StatusQueue,
         [Next]_vars
  PROVE  StatusQueue'
<1> USE DEF Control, Flags, Queue, Station, StatusQueue, appVars, groupVars,
            flagVars, confVars, drvVars, netVars, fotaVars, countVars,
            history
<1>1. CASE Associate
  <2>1. \/ UNCHANGED <<events, sta>>
        \/ \E e \in Events :
             /\ events' = Append(events, e) /\ e # "STA_START"
             /\ e = "STA_GOT_IP" <=> sta' = "up"
    BY <1>1 DEF Associate, Post, Events, HasSta, StaUp
  <2>2. UNCHANGED <<s_wifi_connected, stale>>
    BY <1>1 DEF Associate
  <2>3. CASE UNCHANGED <<events, sta>>
    BY <2>2, <2>3 DEF Says, Silent
  <2>4. ASSUME NEW e \in Events, events' = Append(events, e),
               e # "STA_START", e = "STA_GOT_IP" <=> sta' = "up"
        PROVE  StatusQueue'
    BY <2>4, SaysAppend
  <2> QED BY <2>1, <2>3, <2>4
<1>2. CASE LoseStation
  <2>1. \/ UNCHANGED <<events, sta>>
        \/ \E e \in Events :
             /\ events' = Append(events, e) /\ e # "STA_START"
             /\ e = "STA_GOT_IP" <=> sta' = "up"
    BY <1>2 DEF LoseStation, Post, Events, HasSta, StaUp
  <2>2. UNCHANGED <<s_wifi_connected, stale>>
    BY <1>2 DEF LoseStation
  <2>3. CASE UNCHANGED <<events, sta>>
    BY <2>2, <2>3 DEF Says, Silent
  <2>4. ASSUME NEW e \in Events, events' = Append(events, e),
               e # "STA_START", e = "STA_GOT_IP" <=> sta' = "up"
        PROVE  StatusQueue'
    BY <2>4, SaysAppend
  <2> QED BY <2>1, <2>3, <2>4
<1>3. CASE Network
  BY <1>3 DEF Network
<1>4. CASE event_handler /\ StationStarted
  <2>1. /\ events # <<>> /\ events' = Tail(events)
        /\ Head(events) = "STA_START"
        /\ stale' = stale
    BY <1>4 DEF event_handler, StationStarted
  <2>2. Says(events', sta) /\ (sta' = "up" <=> sta = "up")
    BY <1>4, <2>1, SaysTail
    DEF event_handler, StationStarted, esp_wifi_connect
  <2>3. Says(events', sta')
    BY <2>2 DEF Says
  <2>4. Silent(events') /\ ~stale => (s_wifi_connected' <=> sta' = "up")
    BY <1>4, <2>1, <2>2, SaysTail DEF event_handler, StationStarted
  <2> QED BY <2>1, <2>3, <2>4
<1>5. CASE event_handler /\ StationDisconnected
  <2>1. /\ events # <<>> /\ events' = Tail(events)
        /\ Head(events) = "STA_DISCONNECTED"
        /\ stale' = stale
    BY <1>5 DEF event_handler, StationDisconnected
  <2>2. Says(events', sta) /\ (sta' = "up" <=> sta = "up")
    BY <1>5, <2>1, SaysTail
    DEF event_handler, StationDisconnected, esp_wifi_connect
  <2>3. Says(events', sta')
    BY <2>2 DEF Says
  <2>4. Silent(events') /\ ~stale => (s_wifi_connected' <=> sta' = "up")
    BY <1>5, <2>1, <2>2, SaysTail DEF event_handler, StationDisconnected, Down
  <2> QED BY <2>1, <2>3, <2>4
<1>6. CASE event_handler /\ StationGotIp
  <2>1. /\ events # <<>> /\ events' = Tail(events)
        /\ Head(events) = "STA_GOT_IP"
        /\ stale' = stale
    BY <1>6 DEF event_handler, StationGotIp
  <2>2. Says(events', sta) /\ (sta' = "up" <=> sta = "up")
    BY <1>6, <2>1, SaysTail
    DEF event_handler, StationGotIp, esp_wifi_connect
  <2>3. Says(events', sta')
    BY <2>2 DEF Says
  <2>4. Silent(events') /\ ~stale => (s_wifi_connected' <=> sta' = "up")
    BY <1>6, <2>1, <2>2, SaysTail DEF event_handler, StationGotIp
  <2> QED BY <2>1, <2>3, <2>4
<1>7. ASSUME NEW i \in Starts, wifi_connect_init_task(i), InitNetif(i) PROVE
      StatusQueue'
  BY <1>7 DEF wifi_connect_init_task, InitNetif, InitGoto, Group
<1>8. ASSUME NEW i \in Starts, wifi_connect_init_task(i), InitDriver(i) PROVE
      StatusQueue'
  <2>1. \/ UNCHANGED <<events, sta>>
        \/ \E m \in Modes, on \in BOOLEAN, conn \in BOOLEAN :
             Drive(m, on, conn)
    BY <1>8 DEF wifi_connect_init_task, InitDriver, Modes
  <2>2. UNCHANGED <<s_wifi_connected, stale>>
    BY <1>8 DEF wifi_connect_init_task, InitDriver
  <2>3. CASE UNCHANGED <<events, sta>>
    BY <2>2, <2>3 DEF Says, Silent
  <2>4. CASE \E m \in Modes, on \in BOOLEAN, conn \in BOOLEAN :
               Drive(m, on, conn)
    BY <2>2, <2>4, DriveSays
  <2> QED BY <2>1, <2>3, <2>4
<1>9. ASSUME NEW i \in Starts, wifi_connect_init_task(i), InitWoken(i) PROVE
      StatusQueue'
  BY <1>9 DEF wifi_connect_init_task, InitWoken, InitGoto
<1>10. ASSUME NEW i \in Starts, wifi_connect_init_task(i), InitMark(i) PROVE
      StatusQueue'
  BY <1>10 DEF wifi_connect_init_task, InitMark, InitGoto, Spawn
<1>11. ASSUME NEW i \in Starts, wifi_connect_init_task(i), InitSpawn(i) PROVE
      StatusQueue'
  BY <1>11 DEF wifi_connect_init_task, InitSpawn, InitGoto, Spawn
<1>12. ASSUME NEW i \in Starts, wifi_config_task(i), ConfReceive(i) PROVE
      StatusQueue'
  BY <1>12 DEF wifi_config_task, ConfReceive
<1>13. ASSUME NEW i \in Starts, wifi_config_task(i), ConfFlag(i) PROVE
      StatusQueue'
  BY <1>13 DEF wifi_config_task, ConfFlag
<1>14. ASSUME NEW i \in Starts, wifi_config_task(i), ConfDisconnect(i) PROVE
      StatusQueue'
  <2>1. \/ UNCHANGED <<events, sta>>
        \/ \E e \in Events :
             /\ events' = Append(events, e) /\ e # "STA_START"
             /\ e = "STA_GOT_IP" <=> sta' = "up"
    BY <1>14 DEF wifi_config_task, ConfDisconnect, Post, Events, HasSta, StaUp
  <2>2. UNCHANGED <<s_wifi_connected, stale>>
    BY <1>14 DEF wifi_config_task, ConfDisconnect
  <2>3. CASE UNCHANGED <<events, sta>>
    BY <2>2, <2>3 DEF Says, Silent
  <2>4. ASSUME NEW e \in Events, events' = Append(events, e),
               e # "STA_START", e = "STA_GOT_IP" <=> sta' = "up"
        PROVE  StatusQueue'
    BY <2>4, SaysAppend
  <2> QED BY <2>1, <2>3, <2>4
<1>15. ASSUME NEW i \in Starts, wifi_config_task(i), ConfExit(i) PROVE
      StatusQueue'
  BY <1>15 DEF wifi_config_task, ConfExit
<1>16. CASE SendConfig
  BY <1>16 DEF SendConfig
<1>17. CASE wifi_connect_task_start
  BY <1>17 DEF wifi_connect_task_start, InitGoto, FotaBusy
<1>18. CASE StopFlag
  BY <1>18 DEF StopFlag, FotaBusy, UnderWay
<1>19. CASE StopDriver
  <2>1. \/ UNCHANGED <<events, sta>>
        \/ \E m \in Modes, on \in BOOLEAN, conn \in BOOLEAN :
             Drive(m, on, conn)
    BY <1>19 DEF StopDriver, Modes
  <2>2. UNCHANGED <<s_wifi_connected, stale>>
    BY <1>19 DEF StopDriver
  <2>3. CASE UNCHANGED <<events, sta>>
    BY <2>2, <2>3 DEF Says, Silent
  <2>4. CASE \E m \in Modes, on \in BOOLEAN, conn \in BOOLEAN :
               Drive(m, on, conn)
    BY <2>2, <2>4, DriveSays
  <2> QED BY <2>1, <2>3, <2>4
<1>20. CASE StopDelete
  BY <1>20 DEF StopDelete, UnderWay
<1>21. CASE FotaMode
  BY <1>21 DEF FotaMode, UnderWay
<1>22. CASE FotaEnable
  <2>1. \/ UNCHANGED <<events, sta>>
        \/ \E m \in Modes, on \in BOOLEAN, conn \in BOOLEAN :
             Drive(m, on, conn)
    BY <1>22, EnableEffect DEF FotaEnable, Modes, EnableTo
  <2>2. UNCHANGED <<s_wifi_connected, stale>>
    BY <1>22 DEF FotaEnable
  <2>3. CASE UNCHANGED <<events, sta>>
    BY <2>2, <2>3 DEF Says, Silent
  <2>4. CASE \E m \in Modes, on \in BOOLEAN, conn \in BOOLEAN :
               Drive(m, on, conn)
    BY <2>2, <2>4, DriveSays
  <2> QED BY <2>1, <2>3, <2>4
<1>23. CASE FotaUp
  BY <1>23 DEF FotaUp
<1>24. CASE FotaStop
  <2>1. \/ UNCHANGED <<events, sta>>
        \/ \E m \in Modes, on \in BOOLEAN, conn \in BOOLEAN :
             Drive(m, on, conn)
    BY <1>24 DEF FotaStop, Modes, Kick
  <2>2. UNCHANGED <<s_wifi_connected, stale>>
    BY <1>24 DEF FotaStop
  <2>3. CASE UNCHANGED <<events, sta>>
    BY <2>2, <2>3 DEF Says, Silent
  <2>4. CASE \E m \in Modes, on \in BOOLEAN, conn \in BOOLEAN :
               Drive(m, on, conn)
    BY <2>2, <2>4, DriveSays
  <2> QED BY <2>1, <2>3, <2>4
<1>25. CASE FotaClear
  BY <1>25 DEF FotaClear
<1>26. CASE UNCHANGED vars
  BY <1>26 DEF vars
<1>27. CASE event_handler
  BY <1>27, <1>4, <1>5, <1>6 DEF event_handler
<1>28. ASSUME NEW i \in Starts, wifi_connect_init_task(i) PROVE StatusQueue'
  BY <1>28, <1>7, <1>8, <1>9, <1>10, <1>11 DEF wifi_connect_init_task
<1>29. ASSUME NEW i \in Starts, wifi_config_task(i) PROVE StatusQueue'
  BY <1>29, <1>12, <1>13, <1>14, <1>15 DEF wifi_config_task
<1> QED
  BY <1>1, <1>2, <1>3, <1>16, <1>17, <1>18, <1>19, <1>20, <1>21, <1>22,
     <1>23, <1>24, <1>25, <1>26, <1>27, <1>28, <1>29
  DEF Next, Stopping, Opening

(* Boolean typing as TypeOK states it, and the bound of the queue.         *)
LEMMA TypeParts ==
  ASSUME Control, Flags, Numbers, Queue PROVE TypeOK
<1>1. g_wifi_config_queue \in 0..MaxConfigs
  BY BoundsAssumption DEF Numbers
<1>2. {wifi_connect_task_close, g_wifi_netif, s_wifi_event_group,
       s_wifi_connected, s_reconnect_request, started,
       net, s_fota_ap_running, s_was_apsta, caught, mixed, dormant, stale,
       missed, fault} \subseteq BOOLEAN
  BY Zenon DEF Flags
<1> QED BY <1>1, <1>2 DEF TypeOK, Control, Numbers, Queue, Events

(* The invariant holds at the reset.                                       *)
LEMMA InitInv == Init => Inv
<1> SUFFICES ASSUME Init PROVE Inv
  OBVIOUS
<1> USE DEF Init
<1>1. Control
  BY DEF Control, Modes
<1>2. Flags
  BY Zenon DEF Flags
<1>3. Numbers
  BY RetryAssumption, BoundsAssumption DEF Numbers
<1>4. Queue
  BY DEF Queue
<1>5. Station
  BY DEF Station, HasSta
<1>6. StatusQueue
  BY DEF StatusQueue, Says
<1>7. IdleQueue
  BY DEF IdleQueue, StaUp
<1>8. Apart
  BY DEF Apart, FotaBusy
<1>9. Calm
  BY DEF Calm, UnderWay, HasSta, StaUp
<1> QED BY <1>1, <1>2, <1>3, <1>4, <1>5, <1>6, <1>7, <1>8, <1>9 DEF Inv

(* Every step keeps the invariant.                                         *)
LEMMA InvStep == Inv /\ [Next]_vars => Inv'
<1> SUFFICES ASSUME Inv, [Next]_vars PROVE Inv'
  OBVIOUS
<1>1. /\ Control /\ Flags /\ Numbers /\ Queue
      /\ Station /\ StatusQueue /\ IdleQueue /\ Apart /\ Calm
  BY DEF Inv
<1>2. /\ Control' /\ Flags' /\ Numbers' /\ Queue'
  BY <1>1, ControlStep, FlagsStep, NumbersStep, QueueStep
<1>3. Station' /\ StatusQueue'
  BY <1>1, StationStep, StatusStep
<1>4. IdleQueue'
  BY <1>1, IdleStep
<1>5. Apart' /\ Calm'
  BY <1>1, ApartStep, CalmStep
<1> QED BY <1>2, <1>3, <1>4, <1>5 DEF Inv

(* The invariant holds in every state of the station and the access point. *)
LEMMA Invariance == Spec => []Inv
  BY InitInv, InvStep, PTL DEF Spec

(* Every variable keeps to its type.                                       *)
THEOREM TypeCorrect == Spec => []TypeOK
<1>1. Inv => TypeOK
  BY TypeParts DEF Inv
<1> QED BY <1>1, Invariance, PTL

(* ESP_ERROR_CHECK of wifi_connect.c and fota_ap.c never fails, and no     *)
(* NULL event group is used, unless a stop caught a starting task or an    *)
(* event, or a change of the connection met the access point.              *)
THEOREM FaultsNeedCauses == Spec => []FaultNeedsCause
<1>1. Inv => FaultNeedsCause
  BY DEF Inv, Calm, FaultNeedsCause
<1> QED BY <1>1, Invariance, PTL

(* wifi_get_connection_status tells the truth once the events are handled, *)
(* however they interleave with the tasks.                                 *)
THEOREM StatusTellsTruth == Spec => []StatusIsTrue
<1>1. Inv => StatusIsTrue
  BY DEF Inv, Flags, StatusQueue, Silent, StatusIsTrue
<1> QED BY <1>1, Invariance, PTL

(* An access point that fota_ap_is_running reports is on the air.          *)
THEOREM RunningApsServe == Spec => []RunningApServes
<1>1. Inv => RunningApServes
  BY DEF Inv, Apart, RunningApServes, ApUp
<1> QED BY <1>1, Invariance, PTL

(* No loss is forgotten: an idle station has used up its retries, or is    *)
(* kept idle on purpose.                                                   *)
THEOREM IdleStationsHaveCauses == Spec => []IdleHasCause
<1>1. Inv => IdleHasCause
  BY DEF Inv, IdleQueue, IdleHasCause
<1> QED BY <1>1, Invariance, PTL

=============================================================================
