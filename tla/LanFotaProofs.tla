--------------------------- MODULE LanFotaProofs ---------------------------
(***************************************************************************)
(* Proofs about LanFota, for every set of versions, every timeout, every   *)
(* set of commands and every bound.  One lemma per conjunct of the type    *)
(* invariant shows that each step keeps it (the provers handle strings,    *)
(* Booleans and numbers best one kind at a time); the safety invariants    *)
(* and the refinement rest on them.                                        *)
(***************************************************************************)
EXTENDS LanFota, TLAPS

(* Every step keeps the control points and enumerated values in range.     *)
LEMMA ControlStep ==
  ASSUME ControlOK, [Next]_vars PROVE ControlOK'
<1> USE VersionsAssumption
<1> USE DEF ControlOK, UplinkPoints,
            fotaVars, netVars, cfgVars, lanVars, counters
  <1>1. CASE perform_handshake_slave
    BY <1>1 DEF perform_handshake_slave, trigger_lan_fota_if_needed,
                OpenApThenTrigger
  <1>2. CASE LoadHandshakeAck
    BY <1>2 DEF LoadHandshakeAck
  <1>3. CASE AfterHandshake
    BY <1>3 DEF AfterHandshake
  <1>4. CASE CheckTimeout
    BY <1>4 DEF CheckTimeout, EndWait, fota_ap_stop
  <1>5. CASE CheckPendingInternet
    BY <1>5 DEF CheckPendingInternet, OpenApThenTrigger
  <1>6. CASE OpenAp
    BY <1>6 DEF OpenAp, fota_ap_start
  <1>7. CASE SendTrigger
    BY <1>7 DEF SendTrigger, StartTimedWait, AfterTrigger
  <1>8. CASE RememberInternet
    BY <1>8 DEF RememberInternet
  <1>9. CASE ReceiveNothing
    BY <1>9 DEF ReceiveNothing
  <1>10. CASE process_handshake
    BY <1>10 DEF process_handshake, LanUpdated, EndWait, IgnoreHandshake,
                 AnswerHandshake, trigger_lan_fota_if_needed,
                 OpenApThenTrigger
  <1>11. CASE StartWanFota
    BY <1>11 DEF StartWanFota, fota_ap_stop, fota_handler_task_start
  <1>12. CASE process_data_query
    BY <1>12 DEF process_data_query, DataQueryTrigger, DataQueryCache,
                 StartTimedWait, DataQueryOther,
                 downlink_handle_config_request
  <1>13. CASE ConfigRequest
    BY <1>13 DEF ConfigRequest, downlink_handle_config_request
  <1>14. CASE OtherFrame
    BY <1>14 DEF OtherFrame
  <1>15. CASE CffwCommand
    BY <1>15 DEF CffwCommand, ReceiveCommand
  <1>16. CASE CffwOpenAp
    BY <1>16 DEF CffwOpenAp, fota_ap_start
  <1>17. CASE CffwUpdateConfig
    BY <1>17 DEF CffwUpdateConfig
  <1>18. CASE LanCommand
    BY <1>18 DEF LanCommand, ReceiveCommand
  <1>19. CASE FwCommand
    BY <1>19 DEF FwCommand, ReceiveCommand, fota_handler_task_start
  <1>20. CASE Lan
    BY <1>20 DEF Lan, LanReadAck, LanReadTrigger, LanUpdate, LanRestart
  <1>21. CASE mcu_lan_handler_set_internet_status
    BY <1>21 DEF mcu_lan_handler_set_internet_status
  <1>22. CASE Tick
    BY <1>22 DEF Tick
  <1>23. CASE advanced_ota_task
    BY <1>23 DEF advanced_ota_task, RamReset
  <1>24. CASE Restart
    BY <1>24 DEF Restart, RamReset
  <1>25. CASE UNCHANGED vars
    BY <1>25 DEF vars
  <1>26. QED
    BY <1>1, <1>2, <1>3, <1>4, <1>5, <1>6, <1>7, <1>8, <1>9, <1>10, <1>11,
       <1>12, <1>13, <1>14, <1>15, <1>16, <1>17, <1>18, <1>19, <1>20, <1>21,
       <1>22, <1>23, <1>24, <1>25
       DEF Next, Uplink, ConfigTask

(* Every step keeps the flags Boolean.                                     *)
LEMMA FlagsStep ==
  ASSUME FlagsOK, [Next]_vars PROVE FlagsOK'
<1> USE DEF FlagsOK,
            fotaVars, netVars, cfgVars, lanVars, counters
  <1>1. CASE perform_handshake_slave
    BY <1>1, Zenon DEF perform_handshake_slave, trigger_lan_fota_if_needed,
                       OpenApThenTrigger
  <1>2. CASE LoadHandshakeAck
    BY <1>2, Zenon DEF LoadHandshakeAck
  <1>3. CASE AfterHandshake
    BY <1>3, Zenon DEF AfterHandshake
  <1>4. CASE CheckTimeout
    BY <1>4, Zenon DEF CheckTimeout, EndWait, fota_ap_stop
  <1>5. CASE CheckPendingInternet
    BY <1>5, Zenon DEF CheckPendingInternet, OpenApThenTrigger
  <1>6. CASE OpenAp
    BY <1>6, Zenon DEF OpenAp, fota_ap_start
  <1>7. CASE SendTrigger
    BY <1>7, Zenon DEF SendTrigger, StartTimedWait, AfterTrigger
  <1>8. CASE RememberInternet
    BY <1>8, Zenon DEF RememberInternet
  <1>9. CASE ReceiveNothing
    BY <1>9, Zenon DEF ReceiveNothing
  <1>10. CASE process_handshake
    BY <1>10, Zenon DEF process_handshake, LanUpdated, EndWait,
                        IgnoreHandshake, AnswerHandshake,
                        trigger_lan_fota_if_needed, OpenApThenTrigger
  <1>11. CASE StartWanFota
    BY <1>11, Zenon DEF StartWanFota, fota_ap_stop, fota_handler_task_start
  <1>12. CASE process_data_query
    BY <1>12, Zenon DEF process_data_query, DataQueryTrigger, DataQueryCache,
                        StartTimedWait, DataQueryOther,
                        downlink_handle_config_request
  <1>13. CASE ConfigRequest
    BY <1>13, Zenon DEF ConfigRequest, downlink_handle_config_request
  <1>14. CASE OtherFrame
    BY <1>14, Zenon DEF OtherFrame
  <1>15. CASE CffwCommand
    BY <1>15, Zenon DEF CffwCommand, ReceiveCommand
  <1>16. CASE CffwOpenAp
    BY <1>16, Zenon DEF CffwOpenAp, fota_ap_start
  <1>17. CASE CffwUpdateConfig
    BY <1>17, Zenon DEF CffwUpdateConfig
  <1>18. CASE LanCommand
    BY <1>18, Zenon DEF LanCommand, ReceiveCommand
  <1>19. CASE FwCommand
    BY <1>19, Zenon DEF FwCommand, ReceiveCommand, fota_handler_task_start
  <1>20. CASE Lan
    <2>1. CASE LanReadAck
      BY <2>1, Zenon DEF LanReadAck
    <2>2. CASE LanReadTrigger
      BY <2>2, Zenon DEF LanReadTrigger
    <2>3. CASE LanUpdate
      BY <2>3, Zenon DEF LanUpdate
    <2>4. CASE LanRestart
      BY <2>4, Zenon DEF LanRestart
    <2> QED BY <1>20, <2>1, <2>2, <2>3, <2>4 DEF Lan
  <1>21. CASE mcu_lan_handler_set_internet_status
    BY <1>21, Zenon DEF mcu_lan_handler_set_internet_status
  <1>22. CASE Tick
    BY <1>22, Zenon DEF Tick
  <1>23. CASE advanced_ota_task
    BY <1>23, Zenon DEF advanced_ota_task, RamReset
  <1>24. CASE Restart
    BY <1>24, Zenon DEF Restart, RamReset
  <1>25. CASE UNCHANGED vars
    BY <1>25, Zenon DEF vars
  <1>26. QED
    BY <1>1, <1>2, <1>3, <1>4, <1>5, <1>6, <1>7, <1>8, <1>9, <1>10, <1>11,
       <1>12, <1>13, <1>14, <1>15, <1>16, <1>17, <1>18, <1>19, <1>20, <1>21,
       <1>22, <1>23, <1>24, <1>25
       DEF Next, Uplink, ConfigTask

(* Every step keeps the timer and the counters within their bounds.        *)
LEMMA NumbersStep ==
  ASSUME NumbersOK, [Next]_vars PROVE NumbersOK'
<1> USE TimeoutAssumption, BoundsAssumption
<1> USE DEF NumbersOK,
            fotaVars, netVars, cfgVars, lanVars, counters
  <1>1. CASE perform_handshake_slave
    BY <1>1 DEF perform_handshake_slave, trigger_lan_fota_if_needed,
                OpenApThenTrigger
  <1>2. CASE LoadHandshakeAck
    BY <1>2 DEF LoadHandshakeAck
  <1>3. CASE AfterHandshake
    BY <1>3 DEF AfterHandshake
  <1>4. CASE CheckTimeout
    BY <1>4 DEF CheckTimeout, EndWait, fota_ap_stop
  <1>5. CASE CheckPendingInternet
    BY <1>5 DEF CheckPendingInternet, OpenApThenTrigger
  <1>6. CASE OpenAp
    BY <1>6 DEF OpenAp, fota_ap_start
  <1>7. CASE SendTrigger
    BY <1>7 DEF SendTrigger, StartTimedWait, AfterTrigger
  <1>8. CASE RememberInternet
    BY <1>8 DEF RememberInternet
  <1>9. CASE ReceiveNothing
    BY <1>9 DEF ReceiveNothing
  <1>10. CASE process_handshake
    BY <1>10 DEF process_handshake, LanUpdated, EndWait, IgnoreHandshake,
                 AnswerHandshake, trigger_lan_fota_if_needed,
                 OpenApThenTrigger
  <1>11. CASE StartWanFota
    BY <1>11 DEF StartWanFota, fota_ap_stop, fota_handler_task_start
  <1>12. CASE process_data_query
    BY <1>12 DEF process_data_query, DataQueryTrigger, DataQueryCache,
                 StartTimedWait, DataQueryOther,
                 downlink_handle_config_request
  <1>13. CASE ConfigRequest
    BY <1>13 DEF ConfigRequest, downlink_handle_config_request
  <1>14. CASE OtherFrame
    BY <1>14 DEF OtherFrame
  <1>15. CASE CffwCommand
    BY <1>15 DEF CffwCommand, ReceiveCommand
  <1>16. CASE CffwOpenAp
    BY <1>16 DEF CffwOpenAp, fota_ap_start
  <1>17. CASE CffwUpdateConfig
    BY <1>17 DEF CffwUpdateConfig
  <1>18. CASE LanCommand
    BY <1>18 DEF LanCommand, ReceiveCommand
  <1>19. CASE FwCommand
    BY <1>19 DEF FwCommand, ReceiveCommand, fota_handler_task_start
  <1>20. CASE Lan
    BY <1>20 DEF Lan, LanReadAck, LanReadTrigger, LanUpdate, LanRestart
  <1>21. CASE mcu_lan_handler_set_internet_status
    BY <1>21 DEF mcu_lan_handler_set_internet_status
  <1>22. CASE Tick
    BY <1>22 DEF Tick
  <1>23. CASE advanced_ota_task
    BY <1>23 DEF advanced_ota_task, RamReset
  <1>24. CASE Restart
    BY <1>24 DEF Restart, RamReset
  <1>25. CASE UNCHANGED vars
    BY <1>25 DEF vars
  <1>26. QED
    BY <1>1, <1>2, <1>3, <1>4, <1>5, <1>6, <1>7, <1>8, <1>9, <1>10, <1>11,
       <1>12, <1>13, <1>14, <1>15, <1>16, <1>17, <1>18, <1>19, <1>20, <1>21,
       <1>22, <1>23, <1>24, <1>25
       DEF Next, Uplink, ConfigTask

(* The values of all variables stay in their types, whatever the order in  *)
(* which the uplink task, the configuration task, the OTA tasks and the    *)
(* LAN MCU take their steps.                                               *)
THEOREM TypeCorrect == Spec => []TypeOK
<1>1. Init => TypeOK
  <2> SUFFICES ASSUME Init PROVE TypeOK
    OBVIOUS
  <2> USE DEF Init, RamInit
  <2>1. ControlOK
    BY VersionsAssumption DEF ControlOK, UplinkPoints
  <2>2. FlagsOK
    BY Zenon DEF FlagsOK
  <2>3. NumbersOK
    BY TimeoutAssumption, BoundsAssumption DEF NumbersOK
  <2>4. QED
    BY <2>1, <2>2, <2>3 DEF TypeOK
<1>2. TypeOK /\ [Next]_vars => TypeOK'
  BY ControlStep, FlagsStep, NumbersStep DEF TypeOK
<1>3. QED
  BY <1>1, <1>2, PTL DEF Spec

-----------------------------------------------------------------------------
(* The facts that make the owner of the access point, and the guards of    *)
(* trigger_lan_fota_if_needed, inductive together.                         *)
Owned == TimerOnlyWhileWaiting /\ ApHasOwner /\ TriggerSound

(* Every step keeps them.                                                  *)
LEMMA OwnedStep ==
  ASSUME TypeOK, Owned, [Next]_vars PROVE Owned'
<1> USE DEF TypeOK, ControlOK, FlagsOK, Owned, TimerOnlyWhileWaiting,
            ApHasOwner, TriggerSound,
            fotaVars, netVars, cfgVars, lanVars, counters
  <1>1. CASE perform_handshake_slave
    BY <1>1 DEF perform_handshake_slave, trigger_lan_fota_if_needed,
                OpenApThenTrigger
  <1>2. CASE LoadHandshakeAck
    BY <1>2 DEF LoadHandshakeAck
  <1>3. CASE AfterHandshake
    BY <1>3 DEF AfterHandshake
  <1>4. CASE CheckTimeout
    BY <1>4 DEF CheckTimeout, EndWait, fota_ap_stop
  <1>5. CASE CheckPendingInternet
    BY <1>5 DEF CheckPendingInternet, OpenApThenTrigger
  <1>6. CASE OpenAp
    BY <1>6 DEF OpenAp, fota_ap_start
  <1>7. CASE SendTrigger
    BY <1>7 DEF SendTrigger, StartTimedWait, AfterTrigger
  <1>8. CASE RememberInternet
    BY <1>8 DEF RememberInternet
  <1>9. CASE ReceiveNothing
    BY <1>9 DEF ReceiveNothing
  <1>10. CASE process_handshake
    BY <1>10 DEF process_handshake, LanUpdated, EndWait, IgnoreHandshake,
                 AnswerHandshake, trigger_lan_fota_if_needed,
                 OpenApThenTrigger
  <1>11. CASE StartWanFota
    BY <1>11 DEF StartWanFota, fota_ap_stop, fota_handler_task_start
  <1>12. CASE process_data_query
    BY <1>12 DEF process_data_query, DataQueryTrigger, DataQueryCache,
                 StartTimedWait, DataQueryOther,
                 downlink_handle_config_request
  <1>13. CASE ConfigRequest
    BY <1>13 DEF ConfigRequest, downlink_handle_config_request
  <1>14. CASE OtherFrame
    BY <1>14 DEF OtherFrame
  <1>15. CASE CffwCommand
    BY <1>15 DEF CffwCommand, ReceiveCommand
  <1>16. CASE CffwOpenAp
    BY <1>16 DEF CffwOpenAp, fota_ap_start
  <1>17. CASE CffwUpdateConfig
    BY <1>17 DEF CffwUpdateConfig
  <1>18. CASE LanCommand
    BY <1>18 DEF LanCommand, ReceiveCommand
  <1>19. CASE FwCommand
    BY <1>19 DEF FwCommand, ReceiveCommand, fota_handler_task_start
  <1>20. CASE Lan
    BY <1>20 DEF Lan, LanReadAck, LanReadTrigger, LanUpdate, LanRestart
  <1>21. CASE mcu_lan_handler_set_internet_status
    BY <1>21 DEF mcu_lan_handler_set_internet_status
  <1>22. CASE Tick
    BY <1>22 DEF Tick
  <1>23. CASE advanced_ota_task
    BY <1>23 DEF advanced_ota_task, RamReset
  <1>24. CASE Restart
    BY <1>24 DEF Restart, RamReset
  <1>25. CASE UNCHANGED vars
    BY <1>25 DEF vars
  <1>26. QED
    BY <1>1, <1>2, <1>3, <1>4, <1>5, <1>6, <1>7, <1>8, <1>9, <1>10, <1>11,
       <1>12, <1>13, <1>14, <1>15, <1>16, <1>17, <1>18, <1>19, <1>20, <1>21,
       <1>22, <1>23, <1>24, <1>25
       DEF Next, Uplink, ConfigTask

(* Owned is an invariant.                                                  *)
LEMMA OwnedAlways == Spec => []Owned
<1>1. Init => Owned
  BY DEF Init, RamInit, Owned, TimerOnlyWhileWaiting, ApHasOwner,
         TriggerSound
<1>2. TypeOK /\ Owned /\ [Next]_vars => Owned'
  BY OwnedStep
<1>3. QED
  BY <1>1, <1>2, TypeCorrect, PTL DEF Spec

(* The timer of g_lan_fota_wait_start_tick never outlives its wait.        *)
THEOREM TimerStops == Spec => []TimerOnlyWhileWaiting
<1>1. Owned => TimerOnlyWhileWaiting
  BY DEF Owned
<1>2. QED
  BY <1>1, OwnedAlways, PTL

(* An open access point has someone who will call fota_ap_stop, unless     *)
(* mcu_lan_handler_update_config refused the command it was opened for.    *)
THEOREM ApOwned == Spec => []ApHasOwner
<1>1. Owned => ApHasOwner
  BY DEF Owned
<1>2. QED
  BY <1>1, OwnedAlways, PTL

(* The guards of trigger_lan_fota_if_needed still hold when it acts.       *)
THEOREM GuardsNotStale == Spec => []TriggerSound
<1>1. Owned => TriggerSound
  BY DEF Owned
<1>2. QED
  BY <1>1, OwnedAlways, PTL

(* Only a restart ends an update of this MCU.                              *)
THEOREM WanFotaIsFinal == Spec => WanFotaEndsByRestart
<1> DEFINE Step == g_wan_fota_in_progress /\ ~g_wan_fota_in_progress'
                     => pc' = "handshake"
<1>1. Owned /\ [Next]_vars => [Step]_vars
  <2> SUFFICES ASSUME Owned, [Next]_vars PROVE [Step]_vars
    OBVIOUS
  <2> USE DEF Owned, TriggerSound, fotaVars, netVars, cfgVars, lanVars, counters
    <2>1. CASE perform_handshake_slave
      BY <2>1 DEF perform_handshake_slave, trigger_lan_fota_if_needed,
                  OpenApThenTrigger
    <2>2. CASE LoadHandshakeAck
      BY <2>2 DEF LoadHandshakeAck
    <2>3. CASE AfterHandshake
      BY <2>3 DEF AfterHandshake
    <2>4. CASE CheckTimeout
      BY <2>4 DEF CheckTimeout, EndWait, fota_ap_stop
    <2>5. CASE CheckPendingInternet
      BY <2>5 DEF CheckPendingInternet, OpenApThenTrigger
    <2>6. CASE OpenAp
      BY <2>6 DEF OpenAp, fota_ap_start
    <2>7. CASE SendTrigger
      BY <2>7 DEF SendTrigger, StartTimedWait, AfterTrigger
    <2>8. CASE RememberInternet
      BY <2>8 DEF RememberInternet
    <2>9. CASE ReceiveNothing
      BY <2>9 DEF ReceiveNothing
    <2>10. CASE process_handshake
      BY <2>10 DEF process_handshake, LanUpdated, EndWait, IgnoreHandshake,
                   AnswerHandshake, trigger_lan_fota_if_needed,
                   OpenApThenTrigger
    <2>11. CASE StartWanFota
      BY <2>11 DEF StartWanFota, fota_ap_stop, fota_handler_task_start
    <2>12. CASE process_data_query
      BY <2>12 DEF process_data_query, DataQueryTrigger, DataQueryCache,
                   StartTimedWait, DataQueryOther,
                   downlink_handle_config_request
    <2>13. CASE ConfigRequest
      BY <2>13 DEF ConfigRequest, downlink_handle_config_request
    <2>14. CASE OtherFrame
      BY <2>14 DEF OtherFrame
    <2>15. CASE CffwCommand
      BY <2>15 DEF CffwCommand, ReceiveCommand
    <2>16. CASE CffwOpenAp
      BY <2>16 DEF CffwOpenAp, fota_ap_start
    <2>17. CASE CffwUpdateConfig
      BY <2>17 DEF CffwUpdateConfig
    <2>18. CASE LanCommand
      BY <2>18 DEF LanCommand, ReceiveCommand
    <2>19. CASE FwCommand
      BY <2>19 DEF FwCommand, ReceiveCommand, fota_handler_task_start
    <2>20. CASE Lan
      BY <2>20 DEF Lan, LanReadAck, LanReadTrigger, LanUpdate, LanRestart
    <2>21. CASE mcu_lan_handler_set_internet_status
      BY <2>21 DEF mcu_lan_handler_set_internet_status
    <2>22. CASE Tick
      BY <2>22 DEF Tick
    <2>23. CASE advanced_ota_task
      BY <2>23 DEF advanced_ota_task, RamReset
    <2>24. CASE Restart
      BY <2>24 DEF Restart, RamReset
    <2>25. CASE UNCHANGED vars
      BY <2>25 DEF vars
    <2>26. QED
      BY <2>1, <2>2, <2>3, <2>4, <2>5, <2>6, <2>7, <2>8, <2>9, <2>10, <2>11,
         <2>12, <2>13, <2>14, <2>15, <2>16, <2>17, <2>18, <2>19, <2>20,
         <2>21, <2>22, <2>23, <2>24, <2>25
         DEF Next, Uplink, ConfigTask
<1>2. QED
  BY <1>1, OwnedAlways, PTL DEF Spec, WanFotaEndsByRestart

-----------------------------------------------------------------------------
(* Every step keeps MismatchOnly.                                          *)
LEMMA MismatchStep ==
  ASSUME TypeOK, TriggerSound, MismatchOnly, [Next]_vars
  PROVE  MismatchOnly'
<1> USE DEF TypeOK, ControlOK, FlagsOK, TriggerSound, MismatchOnly,
            fotaVars, netVars, cfgVars, lanVars, counters
  <1>1. CASE perform_handshake_slave
    BY <1>1 DEF perform_handshake_slave, trigger_lan_fota_if_needed,
                OpenApThenTrigger
  <1>2. CASE LoadHandshakeAck
    BY <1>2 DEF LoadHandshakeAck
  <1>3. CASE AfterHandshake
    BY <1>3 DEF AfterHandshake
  <1>4. CASE CheckTimeout
    BY <1>4 DEF CheckTimeout, EndWait, fota_ap_stop
  <1>5. CASE CheckPendingInternet
    BY <1>5 DEF CheckPendingInternet, OpenApThenTrigger
  <1>6. CASE OpenAp
    BY <1>6 DEF OpenAp, fota_ap_start
  <1>7. CASE SendTrigger
    BY <1>7 DEF SendTrigger, StartTimedWait, AfterTrigger
  <1>8. CASE RememberInternet
    BY <1>8 DEF RememberInternet
  <1>9. CASE ReceiveNothing
    BY <1>9 DEF ReceiveNothing
  <1>10. CASE process_handshake
    BY <1>10 DEF process_handshake, LanUpdated, EndWait, IgnoreHandshake,
                 AnswerHandshake, trigger_lan_fota_if_needed,
                 OpenApThenTrigger
  <1>11. CASE StartWanFota
    BY <1>11 DEF StartWanFota, fota_ap_stop, fota_handler_task_start
  <1>12. CASE process_data_query
    BY <1>12 DEF process_data_query, DataQueryTrigger, DataQueryCache,
                 StartTimedWait, DataQueryOther,
                 downlink_handle_config_request
  <1>13. CASE ConfigRequest
    BY <1>13 DEF ConfigRequest, downlink_handle_config_request
  <1>14. CASE OtherFrame
    BY <1>14 DEF OtherFrame
  <1>15. CASE CffwCommand
    BY <1>15 DEF CffwCommand, ReceiveCommand
  <1>16. CASE CffwOpenAp
    BY <1>16 DEF CffwOpenAp, fota_ap_start
  <1>17. CASE CffwUpdateConfig
    BY <1>17 DEF CffwUpdateConfig
  <1>18. CASE LanCommand
    BY <1>18 DEF LanCommand, ReceiveCommand
  <1>19. CASE FwCommand
    BY <1>19 DEF FwCommand, ReceiveCommand, fota_handler_task_start
  <1>20. CASE Lan
    BY <1>20 DEF Lan, LanReadAck, LanReadTrigger, LanUpdate, LanRestart
  <1>21. CASE mcu_lan_handler_set_internet_status
    BY <1>21 DEF mcu_lan_handler_set_internet_status
  <1>22. CASE Tick
    BY <1>22 DEF Tick
  <1>23. CASE advanced_ota_task
    BY <1>23 DEF advanced_ota_task, RamReset
  <1>24. CASE Restart
    BY <1>24 DEF Restart, RamReset
  <1>25. CASE UNCHANGED vars
    BY <1>25 DEF vars
  <1>26. QED
    BY <1>1, <1>2, <1>3, <1>4, <1>5, <1>6, <1>7, <1>8, <1>9, <1>10, <1>11,
       <1>12, <1>13, <1>14, <1>15, <1>16, <1>17, <1>18, <1>19, <1>20, <1>21,
       <1>22, <1>23, <1>24, <1>25
       DEF Next, Uplink, ConfigTask

(* MismatchOnly is an invariant.                                           *)
THEOREM MismatchAlways == Spec => []MismatchOnly
<1>1. Init => MismatchOnly
  BY DEF Init, RamInit, MismatchOnly
<1>2. TypeOK /\ TriggerSound /\ MismatchOnly /\ [Next]_vars => MismatchOnly'
  BY MismatchStep
<1>3. QED
  BY <1>1, <1>2, TypeCorrect, GuardsNotStale, PTL DEF Spec

(* An update that version mismatches alone drive goes through the phases   *)
(* of FotaCycle: the LAN MCU is asked first, this MCU follows, and nothing *)
(* but a restart leads from the second half back to the first.             *)
THEOREM CycleRefined == Spec => LanThenWan
<1> DEFINE phase == IF cffw THEN "idle"
                    ELSE IF g_waiting_for_lan_update THEN "lan"
                    ELSE IF g_wan_fota_in_progress THEN "wan" ELSE "idle"
<1>1. Init => Cycle!Init
  BY DEF Init, RamInit, Cycle!Init
<1>2. TypeOK /\ TriggerSound /\ MismatchOnly /\ [Next]_vars
        => [Cycle!Next]_phase
  <2> SUFFICES ASSUME TypeOK, TriggerSound, MismatchOnly, [Next]_vars
               PROVE  [Cycle!Next]_phase
    OBVIOUS
  <2> USE DEF TypeOK, FlagsOK, TriggerSound, MismatchOnly, Cycle!Next,
              Cycle!AskLan, Cycle!GiveUp, Cycle!UpdateWan, Cycle!Restart,
              fotaVars, netVars, cfgVars, lanVars, counters
    <2>1. CASE perform_handshake_slave
      BY <2>1 DEF perform_handshake_slave, trigger_lan_fota_if_needed,
                  OpenApThenTrigger
    <2>2. CASE LoadHandshakeAck
      BY <2>2 DEF LoadHandshakeAck
    <2>3. CASE AfterHandshake
      BY <2>3 DEF AfterHandshake
    <2>4. CASE CheckTimeout
      BY <2>4 DEF CheckTimeout, EndWait, fota_ap_stop
    <2>5. CASE CheckPendingInternet
      BY <2>5 DEF CheckPendingInternet, OpenApThenTrigger
    <2>6. CASE OpenAp
      BY <2>6 DEF OpenAp, fota_ap_start
    <2>7. CASE SendTrigger
      BY <2>7 DEF SendTrigger, StartTimedWait, AfterTrigger
    <2>8. CASE RememberInternet
      BY <2>8 DEF RememberInternet
    <2>9. CASE ReceiveNothing
      BY <2>9 DEF ReceiveNothing
    <2>10. CASE process_handshake
      BY <2>10 DEF process_handshake, LanUpdated, EndWait, IgnoreHandshake,
                   AnswerHandshake, trigger_lan_fota_if_needed,
                   OpenApThenTrigger
    <2>11. CASE StartWanFota
      BY <2>11 DEF StartWanFota, fota_ap_stop, fota_handler_task_start
    <2>12. CASE process_data_query
      BY <2>12 DEF process_data_query, DataQueryTrigger, DataQueryCache,
                   StartTimedWait, DataQueryOther,
                   downlink_handle_config_request
    <2>13. CASE ConfigRequest
      BY <2>13 DEF ConfigRequest, downlink_handle_config_request
    <2>14. CASE OtherFrame
      BY <2>14 DEF OtherFrame
    <2>15. CASE CffwCommand
      BY <2>15 DEF CffwCommand, ReceiveCommand
    <2>16. CASE CffwOpenAp
      BY <2>16 DEF CffwOpenAp, fota_ap_start
    <2>17. CASE CffwUpdateConfig
      BY <2>17 DEF CffwUpdateConfig
    <2>18. CASE LanCommand
      BY <2>18 DEF LanCommand, ReceiveCommand
    <2>19. CASE FwCommand
      BY <2>19 DEF FwCommand, ReceiveCommand, fota_handler_task_start
    <2>20. CASE Lan
      BY <2>20 DEF Lan, LanReadAck, LanReadTrigger, LanUpdate, LanRestart
    <2>21. CASE mcu_lan_handler_set_internet_status
      BY <2>21 DEF mcu_lan_handler_set_internet_status
    <2>22. CASE Tick
      BY <2>22 DEF Tick
    <2>23. CASE advanced_ota_task
      BY <2>23 DEF advanced_ota_task, RamReset
    <2>24. CASE Restart
      BY <2>24 DEF Restart, RamReset
    <2>25. CASE UNCHANGED vars
      BY <2>25 DEF vars
    <2>26. QED
      BY <2>1, <2>2, <2>3, <2>4, <2>5, <2>6, <2>7, <2>8, <2>9, <2>10, <2>11,
         <2>12, <2>13, <2>14, <2>15, <2>16, <2>17, <2>18, <2>19, <2>20,
         <2>21, <2>22, <2>23, <2>24, <2>25
         DEF Next, Uplink, ConfigTask
<1>3. QED
  BY <1>1, <1>2, TypeCorrect, GuardsNotStale, MismatchAlways, PTL
     DEF Spec, LanThenWan, Cycle!Spec
=============================================================================
