------------------------- MODULE LanDownlinkProofs -------------------------
(***************************************************************************)
(* Proofs for LanDownlink, for every size of the queue, every number of    *)
(* retries, every set of payload lengths and any number of downlinks.      *)
(***************************************************************************)
EXTENDS LanDownlink, FiniteSetTheorems, TLAPS

(* Only the uplink task clears the flag, at the end of a service.          *)
ServedIsValid == up \in Sending => g_pending_downlink_valid

(* The downlink that is being accepted, and its copy once it is made.      *)
OwnCopy ==
  /\ enq # "idle" => item.id \in Ids /\ item.len \in Lengths
  /\ enq = "valid" => g_pending_downlink = item

(* Without an overlap the slot is written only while nothing is pending,   *)
(* and what is pending or being sent is one whole downlink.                *)
SlotOwned ==
  ~overlap =>
    /\ enq \in {"copying", "valid"} => ~g_pending_downlink_valid
    /\ g_pending_downlink_valid => g_pending_downlink.id \in Ids
    /\ up = "fill" => alloc = g_pending_downlink.len

(* Past FillPacket the downlink in the slot is in the TX buffer's history. *)
SentIsLoaded ==
  up \in {"waitQueue", "waitGet", "clearValid"} /\ ~overlap /\ ~failed
    => g_pending_downlink.id \in loaded

(* A DT frame is dropped while the TX buffer holds the downlink, and an    *)
(* ACK is loaded only for a DT frame that was not.                         *)
AckDiscipline ==
  /\ up \in {"waitQueue", "waitGet"} => tx = "DT"
  /\ rx = "DT" => ~dt_dropped
  /\ dt_dropped => tx # "ACK"

Safe ==
  /\ ServedIsValid /\ OwnCopy /\ SlotOwned /\ SentIsLoaded
  /\ AcceptedReachesTx /\ AckDiscipline

(* The uplink task has taken a frame off the link and may load an answer:  *)
(* no transaction is queued and the last answer has been clocked out.  A   *)
(* frame received belongs to a queued transaction.                         *)
LinkDiscipline ==
  /\ up \in {"cache", "cfcf", "alloc", "fill"} => ~transaction_queued /\ heard
  /\ rx # "none" => transaction_queued /\ heard
  /\ AnswersHeard

(* Until two payloads meet, each is pending alone, and nothing is pending  *)
(* any more when its service ends.                                         *)
Alone ==
  ~crowded =>
    /\ ~(g_pending_downlink_valid /\ g_config_cache_has_config)
    /\ ~(g_pending_downlink_valid /\ g_config_req_state = "WAIT_DQ")
    /\ ~(g_config_cache_has_config /\ g_config_req_state = "WAIT_DQ")
    /\ up = "cache" => g_config_cache_has_config
    /\ up = "clearLine" /\ ~failed => ~Pending

(* WakeUpKept, also while the answer to a CFCF frame is being loaded.      *)
WakeUp ==
  /\ Pending /\ up \in {"queue", "get", "cfcf"} /\ enq # "signal"
  /\ oth = "idle" /\ ~crowded /\ ~failed
  => edge \/ rx = "DQ"

(* Each accepted downlink, and the one being accepted, took a place in     *)
(* g_downlink_queue.                                                       *)
Budget ==
  /\ IsFiniteSet(accepted)
  /\ Cardinality(accepted)
       + (IF enq \in {"copy", "copying", "valid"} THEN 1 ELSE 0) <= queued

(* The inductive invariant.                                                *)
Inv == TypeOK /\ Safe /\ LinkDiscipline /\ Alone /\ WakeUp /\ Budget

(* TypeOK by kind: control points and frames, Booleans, data.              *)
Control ==
  /\ up \in UplinkPoints
  /\ rx \in Frames \cup {"none"}
  /\ tx \in {"none", "ACK", "RT", "CFCQ", "CF", "DT"}
  /\ enq \in {"idle", "copy", "copying", "valid", "signal"}
  /\ g_config_req_state \in {"IDLE", "WAIT_DQ", "WAIT_RESP"}
  /\ oth \in {"idle", "signal"}

Flags ==
  /\ transaction_queued \in BOOLEAN
  /\ heard \in BOOLEAN /\ line \in BOOLEAN /\ edge \in BOOLEAN
  /\ g_pending_downlink_valid \in BOOLEAN
  /\ g_config_cache_has_config \in BOOLEAN
  /\ dt_dropped \in BOOLEAN
  /\ crowded \in BOOLEAN /\ overlap \in BOOLEAN /\ failed \in BOOLEAN
  /\ overwritten \in BOOLEAN

Data ==
  /\ retry \in 0..(MAX_RETRY_COUNT - 1)
  /\ alloc \in {0} \cup Lengths
  /\ item \in Items
  /\ queued \in 0..DOWNLINK_QUEUE_SIZE
  /\ g_pending_downlink \in Items
  /\ offers \in 0..MaxDownlinks /\ others \in 0..MaxOthers
  /\ accepted \subseteq Ids /\ loaded \subseteq Ids

-----------------------------------------------------------------------------
(* What the parts of the type invariant are parts of.                      *)
LEMMA TypeParts == TypeOK <=> Control /\ Flags /\ Data
  BY DEF TypeOK, Control, Flags, Data

(* The tasks start with an empty slot, an empty queue and nothing to send. *)
LEMMA InitInv == Init => Inv
<1> SUFFICES ASSUME Init PROVE Inv
  OBVIOUS
<1>1. Control
  BY DEF Init, Control, UplinkPoints
<1>2. Flags
  BY Zenon DEF Init, Flags
<1>3. Data
  BY QueueAssumption, RetryAssumption, BoundsAssumption
  DEF Init, Data, Items, NoItem
<1>4. Safe
  BY DEF Init, Safe, ServedIsValid, OwnCopy, SlotOwned, SentIsLoaded,
         AcceptedReachesTx, AckDiscipline, Sending
<1>5. LinkDiscipline /\ Alone /\ WakeUp
  BY DEF Init, LinkDiscipline, AnswersHeard, Alone, WakeUp, Pending
<1>6. Budget
  BY FS_EmptySet DEF Init, Budget
<1> QED BY <1>1, <1>2, <1>3, <1>4, <1>5, <1>6, TypeParts DEF Inv

(* Every step keeps the control points and the frames in their sets.       *)
LEMMA ControlStep ==
  ASSUME Control, [Next]_vars PROVE Control'
<1> USE DEF Control, UplinkPoints, Frames, spiVars, enqVars, pendVars, othVars,
            raceVars
<1>1. CASE \E len \in Lengths : QueueSend(len)
  BY <1>1 DEF QueueSend
<1>2. CASE BeginCopy
  BY <1>2 DEF BeginCopy, Sending
<1>3. CASE EndCopy
  BY <1>3 DEF EndCopy
<1>4. CASE SetPendingValid
  BY <1>4 DEF SetPendingValid
<1>5. CASE SignalDownlink
  BY <1>5 DEF SignalDownlink, signal_data_ready
<1>6. CASE SetOther
  BY <1>6 DEF SetOther
<1>7. CASE SignalOther
  BY <1>7 DEF SignalOther, signal_data_ready
<1>8. CASE EndRequest
  BY <1>8 DEF EndRequest, clear_data_ready
<1>9. CASE QueueReceive
  BY <1>9 DEF QueueReceive, lan_comm_queue_receive
<1>10. CASE ReceiveNothing
  BY <1>10 DEF ReceiveNothing, lan_comm_get_received_packet
<1>11. CASE process_data_from_lan
  BY <1>11
  DEF process_data_from_lan, lan_comm_get_received_packet,
      lan_comm_load_tx_data
<1>12. CASE RtcRequest
  BY <1>12
  DEF RtcRequest, lan_comm_get_received_packet, lan_comm_load_tx_data
<1>13. CASE ConfigRequest
  BY <1>13 DEF ConfigRequest, lan_comm_get_received_packet, clear_data_ready
<1>14. CASE process_data_query
  BY <1>14
  DEF process_data_query, lan_comm_get_received_packet, lan_comm_load_tx_data
<1>15. CASE downlink_handle_config_request
  BY <1>15
  DEF downlink_handle_config_request, lan_comm_load_tx_data, AfterCache
<1>16. CASE AllocPacket
  BY <1>16 DEF AllocPacket, NoMemory
<1>17. CASE FillPacket
  BY <1>17 DEF FillPacket, lan_comm_load_tx_data
<1>18. CASE WaitQueue
  BY <1>18 DEF WaitQueue, lan_comm_queue_receive
<1>19. CASE WaitGet
  BY <1>19 DEF WaitGet, lan_comm_get_received_packet
<1>20. CASE ClearValid
  BY <1>20 DEF ClearValid
<1>21. CASE ClearLine
  BY <1>21 DEF ClearLine, clear_data_ready
<1>22. CASE LanFrame
  BY <1>22 DEF LanFrame, Transaction
<1>23. CASE LanQuery
  BY <1>23 DEF LanQuery, Transaction
<1>24. CASE UNCHANGED vars
  BY <1>24 DEF vars
<1> QED
  BY <1>1, <1>2, <1>3, <1>4, <1>5, <1>6, <1>7, <1>8, <1>9, <1>10, <1>11,
     <1>12, <1>13, <1>14, <1>15, <1>16, <1>17, <1>18, <1>19, <1>20, <1>21,
     <1>22, <1>23, <1>24
  DEF Next, mcu_lan_enqueue_downlink, Uplink

(* Every step keeps the flags Boolean.                                     *)
LEMMA FlagsStep ==
  ASSUME Flags, [Next]_vars PROVE Flags'
<1> USE DEF Flags, spiVars, enqVars, pendVars, othVars, raceVars
<1>1. CASE \E len \in Lengths : QueueSend(len)
  <2>1. UNCHANGED <<transaction_queued, heard, line, edge,
                    g_pending_downlink_valid, g_config_cache_has_config,
                    dt_dropped, crowded, overlap, failed, overwritten>>
    BY <1>1 DEF QueueSend
  <2> QED BY <2>1
<1>2. CASE BeginCopy
  <2>1. overlap' \in BOOLEAN
    BY <1>2 DEF BeginCopy
  <2>2. UNCHANGED <<transaction_queued, heard, line, edge,
                    g_pending_downlink_valid, g_config_cache_has_config,
                    dt_dropped, crowded, failed, overwritten>>
    BY <1>2 DEF BeginCopy
  <2> QED BY <2>1, <2>2
<1>3. CASE EndCopy
  <2>1. UNCHANGED <<transaction_queued, heard, line, edge,
                    g_pending_downlink_valid, g_config_cache_has_config,
                    dt_dropped, crowded, overlap, failed, overwritten>>
    BY <1>3 DEF EndCopy
  <2> QED BY <2>1
<1>4. CASE SetPendingValid
  <2>1. g_pending_downlink_valid' \in BOOLEAN
    BY <1>4 DEF SetPendingValid, NotePending
  <2>2. crowded' \in BOOLEAN
    BY <1>4 DEF SetPendingValid, NotePending
  <2>3. UNCHANGED <<transaction_queued, heard, line, edge,
                    g_config_cache_has_config, dt_dropped, overlap, failed,
                    overwritten>>
    BY <1>4 DEF SetPendingValid
  <2> QED BY <2>1, <2>2, <2>3
<1>5. CASE SignalDownlink
  <2>1. line' \in BOOLEAN
    BY <1>5 DEF SignalDownlink, signal_data_ready
  <2>2. edge' \in BOOLEAN
    BY <1>5 DEF SignalDownlink, signal_data_ready
  <2>3. UNCHANGED <<transaction_queued, heard, g_pending_downlink_valid,
                    g_config_cache_has_config, dt_dropped, crowded, overlap,
                    failed, overwritten>>
    BY <1>5 DEF SignalDownlink
  <2> QED BY <2>1, <2>2, <2>3
<1>6. CASE SetOther
  <2>1. g_config_cache_has_config' \in BOOLEAN
    BY <1>6 DEF SetOther, NotePending
  <2>2. crowded' \in BOOLEAN
    BY <1>6 DEF SetOther, NotePending
  <2>3. UNCHANGED <<transaction_queued, heard, line, edge,
                    g_pending_downlink_valid, dt_dropped, overlap, failed,
                    overwritten>>
    BY <1>6 DEF SetOther
  <2> QED BY <2>1, <2>2, <2>3
<1>7. CASE SignalOther
  <2>1. line' \in BOOLEAN
    BY <1>7 DEF SignalOther, signal_data_ready
  <2>2. edge' \in BOOLEAN
    BY <1>7 DEF SignalOther, signal_data_ready
  <2>3. UNCHANGED <<transaction_queued, heard, g_pending_downlink_valid,
                    g_config_cache_has_config, dt_dropped, crowded, overlap,
                    failed, overwritten>>
    BY <1>7 DEF SignalOther
  <2> QED BY <2>1, <2>2, <2>3
<1>8. CASE EndRequest
  <2>1. line' \in BOOLEAN
    BY <1>8 DEF EndRequest, clear_data_ready
  <2>2. edge' \in BOOLEAN
    BY <1>8 DEF EndRequest, clear_data_ready
  <2>3. UNCHANGED <<transaction_queued, heard, g_pending_downlink_valid,
                    g_config_cache_has_config, dt_dropped, crowded, overlap,
                    failed, overwritten>>
    BY <1>8 DEF EndRequest
  <2> QED BY <2>1, <2>2, <2>3
<1>9. CASE QueueReceive
  <2>1. transaction_queued' \in BOOLEAN
    BY <1>9 DEF QueueReceive, lan_comm_queue_receive
  <2>2. UNCHANGED <<heard, line, edge, g_pending_downlink_valid,
                    g_config_cache_has_config, dt_dropped, crowded, overlap,
                    failed, overwritten>>
    BY <1>9 DEF QueueReceive
  <2> QED BY <2>1, <2>2
<1>10. CASE ReceiveNothing
  <2>1. transaction_queued' \in BOOLEAN
    BY <1>10 DEF ReceiveNothing, lan_comm_get_received_packet
  <2>2. UNCHANGED <<heard, line, edge, g_pending_downlink_valid,
                    g_config_cache_has_config, dt_dropped, crowded, overlap,
                    failed, overwritten>>
    BY <1>10 DEF ReceiveNothing
  <2> QED BY <2>1, <2>2
<1>11. CASE process_data_from_lan
  <2>1. transaction_queued' \in BOOLEAN
    BY <1>11 DEF process_data_from_lan, lan_comm_get_received_packet,
        lan_comm_load_tx_data
  <2>2. heard' \in BOOLEAN
    BY <1>11 DEF process_data_from_lan, lan_comm_get_received_packet,
        lan_comm_load_tx_data
  <2>3. overwritten' \in BOOLEAN
    BY <1>11 DEF process_data_from_lan, lan_comm_get_received_packet,
        lan_comm_load_tx_data
  <2>4. UNCHANGED <<line, edge, g_pending_downlink_valid,
                    g_config_cache_has_config, dt_dropped, crowded, overlap,
                    failed>>
    BY <1>11 DEF process_data_from_lan
  <2> QED BY <2>1, <2>2, <2>3, <2>4
<1>12. CASE RtcRequest
  <2>1. transaction_queued' \in BOOLEAN
    BY <1>12 DEF RtcRequest, lan_comm_get_received_packet,
        lan_comm_load_tx_data
  <2>2. heard' \in BOOLEAN
    BY <1>12 DEF RtcRequest, lan_comm_get_received_packet,
        lan_comm_load_tx_data
  <2>3. overwritten' \in BOOLEAN
    BY <1>12 DEF RtcRequest, lan_comm_get_received_packet,
        lan_comm_load_tx_data
  <2>4. UNCHANGED <<line, edge, g_pending_downlink_valid,
                    g_config_cache_has_config, dt_dropped, crowded, overlap,
                    failed>>
    BY <1>12 DEF RtcRequest
  <2> QED BY <2>1, <2>2, <2>3, <2>4
<1>13. CASE ConfigRequest
  <2>1. transaction_queued' \in BOOLEAN
    BY <1>13 DEF ConfigRequest, lan_comm_get_received_packet, clear_data_ready
  <2>2. line' \in BOOLEAN
    BY <1>13 DEF ConfigRequest, lan_comm_get_received_packet, clear_data_ready
  <2>3. edge' \in BOOLEAN
    BY <1>13 DEF ConfigRequest, lan_comm_get_received_packet, clear_data_ready
  <2>4. UNCHANGED <<heard, g_pending_downlink_valid,
                    g_config_cache_has_config, dt_dropped, crowded, overlap,
                    failed, overwritten>>
    BY <1>13 DEF ConfigRequest
  <2> QED BY <2>1, <2>2, <2>3, <2>4
<1>14. CASE process_data_query
  <2>1. transaction_queued' \in BOOLEAN
    BY <1>14 DEF process_data_query, lan_comm_get_received_packet,
        lan_comm_load_tx_data
  <2>2. heard' \in BOOLEAN
    BY <1>14 DEF process_data_query, lan_comm_get_received_packet,
        lan_comm_load_tx_data
  <2>3. overwritten' \in BOOLEAN
    BY <1>14 DEF process_data_query, lan_comm_get_received_packet,
        lan_comm_load_tx_data
  <2>4. UNCHANGED <<line, edge, g_pending_downlink_valid,
                    g_config_cache_has_config, dt_dropped, crowded, overlap,
                    failed>>
    BY <1>14 DEF process_data_query
  <2> QED BY <2>1, <2>2, <2>3, <2>4
<1>15. CASE downlink_handle_config_request
  <2>1. heard' \in BOOLEAN
    BY <1>15 DEF downlink_handle_config_request, lan_comm_load_tx_data
  <2>2. overwritten' \in BOOLEAN
    BY <1>15 DEF downlink_handle_config_request, lan_comm_load_tx_data
  <2>3. failed' \in BOOLEAN
    BY <1>15 DEF downlink_handle_config_request, lan_comm_load_tx_data
  <2>4. g_config_cache_has_config' \in BOOLEAN
    BY <1>15 DEF downlink_handle_config_request, lan_comm_load_tx_data
  <2>5. UNCHANGED <<transaction_queued, line, edge, g_pending_downlink_valid,
                    dt_dropped, crowded, overlap>>
    BY <1>15 DEF downlink_handle_config_request
  <2> QED BY <2>1, <2>2, <2>3, <2>4, <2>5
<1>16. CASE AllocPacket
  <2>1. failed' \in BOOLEAN
    BY <1>16 DEF AllocPacket
  <2>2. UNCHANGED <<transaction_queued, heard, line, edge,
                    g_pending_downlink_valid, g_config_cache_has_config,
                    dt_dropped, crowded, overlap, overwritten>>
    BY <1>16 DEF AllocPacket
  <2> QED BY <2>1, <2>2
<1>17. CASE FillPacket
  <2>1. heard' \in BOOLEAN
    BY <1>17 DEF FillPacket, lan_comm_load_tx_data
  <2>2. overwritten' \in BOOLEAN
    BY <1>17 DEF FillPacket, lan_comm_load_tx_data
  <2>3. UNCHANGED <<transaction_queued, line, edge, g_pending_downlink_valid,
                    g_config_cache_has_config, dt_dropped, crowded, overlap,
                    failed>>
    BY <1>17 DEF FillPacket
  <2> QED BY <2>1, <2>2, <2>3
<1>18. CASE WaitQueue
  <2>1. transaction_queued' \in BOOLEAN
    BY <1>18 DEF WaitQueue, lan_comm_queue_receive
  <2>2. UNCHANGED <<heard, line, edge, g_pending_downlink_valid,
                    g_config_cache_has_config, dt_dropped, crowded, overlap,
                    failed, overwritten>>
    BY <1>18 DEF WaitQueue
  <2> QED BY <2>1, <2>2
<1>19. CASE WaitGet
  <2>1. transaction_queued' \in BOOLEAN
    BY <1>19 DEF WaitGet, lan_comm_get_received_packet
  <2>2. dt_dropped' \in BOOLEAN
    BY <1>19 DEF WaitGet, lan_comm_get_received_packet
  <2>3. UNCHANGED <<heard, line, edge, g_pending_downlink_valid,
                    g_config_cache_has_config, crowded, overlap, failed,
                    overwritten>>
    BY <1>19 DEF WaitGet
  <2> QED BY <2>1, <2>2, <2>3
<1>20. CASE ClearValid
  <2>1. g_pending_downlink_valid' \in BOOLEAN
    BY <1>20 DEF ClearValid
  <2>2. UNCHANGED <<transaction_queued, heard, line, edge,
                    g_config_cache_has_config, dt_dropped, crowded, overlap,
                    failed, overwritten>>
    BY <1>20 DEF ClearValid
  <2> QED BY <2>1, <2>2
<1>21. CASE ClearLine
  <2>1. line' \in BOOLEAN
    BY <1>21 DEF ClearLine, clear_data_ready
  <2>2. edge' \in BOOLEAN
    BY <1>21 DEF ClearLine, clear_data_ready
  <2>3. UNCHANGED <<transaction_queued, heard, g_pending_downlink_valid,
                    g_config_cache_has_config, dt_dropped, crowded, overlap,
                    failed, overwritten>>
    BY <1>21 DEF ClearLine
  <2> QED BY <2>1, <2>2, <2>3
<1>22. CASE LanFrame
  <2>1. heard' \in BOOLEAN
    BY <1>22 DEF LanFrame, Transaction
  <2>2. dt_dropped' \in BOOLEAN
    BY <1>22 DEF LanFrame, Transaction
  <2>3. UNCHANGED <<transaction_queued, line, edge, g_pending_downlink_valid,
                    g_config_cache_has_config, crowded, overlap, failed,
                    overwritten>>
    BY <1>22 DEF LanFrame, Transaction
  <2> QED BY <2>1, <2>2, <2>3
<1>23. CASE LanQuery
  <2>1. edge' \in BOOLEAN
    BY <1>23 DEF LanQuery, Transaction
  <2>2. heard' \in BOOLEAN
    BY <1>23 DEF LanQuery, Transaction
  <2>3. dt_dropped' \in BOOLEAN
    BY <1>23 DEF LanQuery, Transaction
  <2>4. UNCHANGED <<transaction_queued, line, g_pending_downlink_valid,
                    g_config_cache_has_config, crowded, overlap, failed,
                    overwritten>>
    BY <1>23 DEF LanQuery, Transaction
  <2> QED BY <2>1, <2>2, <2>3, <2>4
<1>24. CASE UNCHANGED vars
  BY <1>24 DEF vars
<1> QED
  BY <1>1, <1>2, <1>3, <1>4, <1>5, <1>6, <1>7, <1>8, <1>9, <1>10, <1>11,
     <1>12, <1>13, <1>14, <1>15, <1>16, <1>17, <1>18, <1>19, <1>20, <1>21,
     <1>22, <1>23, <1>24
  DEF Next, mcu_lan_enqueue_downlink, Uplink

(* Every step keeps the counters, the lengths and the downlinks in range;  *)
(* the downlink that becomes accepted is one the server sent.              *)
LEMMA DataStep ==
  ASSUME Data, OwnCopy, [Next]_vars PROVE Data'
<1> USE DEF Data, spiVars, enqVars, pendVars, othVars, raceVars
<1>1. CASE \E len \in Lengths : QueueSend(len)
  BY <1>1, QueueAssumption, BoundsAssumption DEF QueueSend, Items, Ids
<1>2. CASE BeginCopy
  BY <1>2 DEF BeginCopy, Items
<1>3. CASE EndCopy
  BY <1>3 DEF EndCopy
<1>4. CASE SetPendingValid
  BY <1>4 DEF SetPendingValid, OwnCopy
<1>5. CASE SignalDownlink
  BY <1>5 DEF SignalDownlink, Items, NoItem
<1>6. CASE SetOther
  BY <1>6, BoundsAssumption DEF SetOther
<1>7. CASE SignalOther
  BY <1>7 DEF SignalOther
<1>8. CASE EndRequest
  BY <1>8 DEF EndRequest
<1>9. CASE QueueReceive
  BY <1>9 DEF QueueReceive
<1>10. CASE ReceiveNothing
  BY <1>10 DEF ReceiveNothing
<1>11. CASE process_data_from_lan
  BY <1>11 DEF process_data_from_lan
<1>12. CASE RtcRequest
  BY <1>12 DEF RtcRequest
<1>13. CASE ConfigRequest
  BY <1>13 DEF ConfigRequest
<1>14. CASE process_data_query
  BY <1>14 DEF process_data_query
<1>15. CASE downlink_handle_config_request
  BY <1>15 DEF downlink_handle_config_request
<1>16. CASE AllocPacket
  BY <1>16 DEF AllocPacket, Items
<1>17. CASE FillPacket
  BY <1>17 DEF FillPacket, Items
<1>18. CASE WaitQueue
  BY <1>18 DEF WaitQueue
<1>19. CASE WaitGet
  <2>1. \/ retry' = 0
        \/ retry' = retry + 1 /\ retry + 1 # MAX_RETRY_COUNT
    BY <1>19 DEF WaitGet, LastRetry
  <2>2. retry' \in 0..(MAX_RETRY_COUNT - 1)
    BY <2>1, RetryAssumption
  <2> QED BY <1>19, <2>2 DEF WaitGet
<1>20. CASE ClearValid
  BY <1>20 DEF ClearValid
<1>21. CASE ClearLine
  BY <1>21 DEF ClearLine
<1>22. CASE LanFrame
  BY <1>22 DEF LanFrame, Transaction
<1>23. CASE LanQuery
  BY <1>23 DEF LanQuery, Transaction
<1>24. CASE UNCHANGED vars
  BY <1>24 DEF vars
<1> QED
  BY <1>1, <1>2, <1>3, <1>4, <1>5, <1>6, <1>7, <1>8, <1>9, <1>10, <1>11,
     <1>12, <1>13, <1>14, <1>15, <1>16, <1>17, <1>18, <1>19, <1>20, <1>21,
     <1>22, <1>23, <1>24
  DEF Next, mcu_lan_enqueue_downlink, Uplink

(* Every step keeps the safety part: who owns the slot, what has been      *)
(* loaded, which frame an ACK may answer.                                  *)
LEMMA SafeStep ==
  ASSUME Control, Data, Safe, [Next]_vars PROVE Safe'
<1> USE DEF Safe, ServedIsValid, OwnCopy, SlotOwned, SentIsLoaded,
            AcceptedReachesTx, AckDiscipline, Sending, spiVars, enqVars,
            pendVars, othVars, raceVars
<1>1. CASE \E len \in Lengths : QueueSend(len)
  BY <1>1, BoundsAssumption DEF QueueSend, Data, Ids
<1>2. CASE BeginCopy
  BY <1>2 DEF BeginCopy
<1>3. CASE EndCopy
  BY <1>3 DEF EndCopy
<1>4. CASE SetPendingValid
  BY <1>4 DEF SetPendingValid
<1>5. CASE SignalDownlink
  BY <1>5 DEF SignalDownlink
<1>6. CASE SetOther
  BY <1>6 DEF SetOther
<1>7. CASE SignalOther
  BY <1>7 DEF SignalOther
<1>8. CASE EndRequest
  BY <1>8 DEF EndRequest
<1>9. CASE QueueReceive
  BY <1>9 DEF QueueReceive
<1>10. CASE ReceiveNothing
  BY <1>10 DEF ReceiveNothing, lan_comm_get_received_packet
<1>11. CASE process_data_from_lan
  BY <1>11
  DEF process_data_from_lan, lan_comm_get_received_packet,
      lan_comm_load_tx_data
<1>12. CASE RtcRequest
  BY <1>12
  DEF RtcRequest, lan_comm_get_received_packet, lan_comm_load_tx_data
<1>13. CASE ConfigRequest
  BY <1>13 DEF ConfigRequest, lan_comm_get_received_packet
<1>14. CASE process_data_query
  BY <1>14
  DEF process_data_query, lan_comm_get_received_packet, lan_comm_load_tx_data
<1>15. CASE downlink_handle_config_request
  <2>1. /\ up \in {"cache", "cfcf"} /\ up' \in {"clearLine", "queue"}
        /\ tx' \in {tx, "CF"}
        /\ UNCHANGED <<alloc, rx, enqVars, g_pending_downlink,
                       g_pending_downlink_valid, loaded, dt_dropped, overlap>>
    BY <1>15 DEF downlink_handle_config_request, lan_comm_load_tx_data, AfterCache
  <2>2. failed => failed'
    BY <1>15, Zenon DEF downlink_handle_config_request
  <2> QED BY <2>1, <2>2
<1>16. CASE AllocPacket
  BY <1>16 DEF AllocPacket, NoMemory
<1>17. CASE FillPacket
  BY <1>17 DEF FillPacket, lan_comm_load_tx_data, Ids
<1>18. CASE WaitQueue
  BY <1>18 DEF WaitQueue
<1>19. CASE WaitGet
  BY <1>19 DEF WaitGet, lan_comm_get_received_packet
<1>20. CASE ClearValid
  BY <1>20 DEF ClearValid
<1>21. CASE ClearLine
  BY <1>21 DEF ClearLine
<1>22. CASE LanFrame
  <2>1. /\ dt_dropped' => dt_dropped /\ rx' # "DT"
        /\ UNCHANGED <<up, alloc, tx, enqVars, pendVars, loaded, overlap,
                       failed>>
    BY <1>22 DEF LanFrame, Transaction
  <2> QED BY <2>1
<1>23. CASE LanQuery
  BY <1>23 DEF LanQuery, Transaction
<1>24. CASE UNCHANGED vars
  BY <1>24 DEF vars
<1> QED
  BY <1>1, <1>2, <1>3, <1>4, <1>5, <1>6, <1>7, <1>8, <1>9, <1>10, <1>11,
     <1>12, <1>13, <1>14, <1>15, <1>16, <1>17, <1>18, <1>19, <1>20, <1>21,
     <1>22, <1>23, <1>24
  DEF Next, mcu_lan_enqueue_downlink, Uplink

(* Loading the TX buffer after its last contents were clocked out replaces *)
(* nothing unheard.                                                        *)
LEMMA LoadAfterHeard ==
  ASSUME NEW data, lan_comm_load_tx_data(data), heard, ~overwritten
  PROVE  ~overwritten'
  BY Zenon DEF lan_comm_load_tx_data

(* Every step keeps the discipline of the link: an answer is loaded        *)
(* between two transactions, after the last one was clocked out.           *)
LEMMA LinkStep ==
  ASSUME Control, Flags, LinkDiscipline, [Next]_vars PROVE LinkDiscipline'
<1> USE DEF Control, Flags, LinkDiscipline, AnswersHeard, spiVars, enqVars,
            pendVars, othVars, raceVars
<1>1. CASE \E len \in Lengths : QueueSend(len)
  BY <1>1 DEF QueueSend
<1>2. CASE BeginCopy
  BY <1>2 DEF BeginCopy
<1>3. CASE EndCopy
  BY <1>3 DEF EndCopy
<1>4. CASE SetPendingValid
  BY <1>4 DEF SetPendingValid
<1>5. CASE SignalDownlink
  BY <1>5 DEF SignalDownlink
<1>6. CASE SetOther
  BY <1>6 DEF SetOther
<1>7. CASE SignalOther
  BY <1>7 DEF SignalOther
<1>8. CASE EndRequest
  BY <1>8 DEF EndRequest
<1>9. CASE QueueReceive
  BY <1>9 DEF QueueReceive, lan_comm_queue_receive
<1>10. CASE ReceiveNothing
  BY <1>10 DEF ReceiveNothing, lan_comm_get_received_packet
<1>11. CASE process_data_from_lan
  <2>1. heard
    BY <1>11 DEF process_data_from_lan, lan_comm_get_received_packet
  <2>2. ~overwritten'
    BY <1>11, <2>1, LoadAfterHeard DEF process_data_from_lan
  <2> QED
    BY <1>11, <2>1, <2>2
    DEF process_data_from_lan, lan_comm_get_received_packet,
        lan_comm_load_tx_data
<1>12. CASE RtcRequest
  BY <1>12
  DEF RtcRequest, lan_comm_get_received_packet, lan_comm_load_tx_data
<1>13. CASE ConfigRequest
  BY <1>13 DEF ConfigRequest, lan_comm_get_received_packet
<1>14. CASE process_data_query
  <2>1. heard
    BY <1>14 DEF process_data_query, lan_comm_get_received_packet
  <2>2. ~overwritten'
    BY <1>14, <2>1, LoadAfterHeard DEF process_data_query
  <2> QED
    BY <1>14, <2>1, <2>2 DEF process_data_query, lan_comm_get_received_packet
<1>15. CASE downlink_handle_config_request
  <2>1. heard /\ up' \in {"clearLine", "queue"} /\ rx' = rx
    BY <1>15 DEF downlink_handle_config_request, AfterCache
  <2>2. ~overwritten'
    BY <1>15, <2>1, LoadAfterHeard DEF downlink_handle_config_request
  <2>3. rx = "none"
    BY <1>15 DEF downlink_handle_config_request
  <2> QED BY <2>1, <2>2, <2>3
<1>16. CASE AllocPacket
  BY <1>16 DEF AllocPacket, NoMemory
<1>17. CASE FillPacket
  <2>1. ~overwritten'
    BY <1>17, LoadAfterHeard DEF FillPacket
  <2> QED BY <1>17, <2>1 DEF FillPacket
<1>18. CASE WaitQueue
  BY <1>18 DEF WaitQueue, lan_comm_queue_receive
<1>19. CASE WaitGet
  BY <1>19 DEF WaitGet, lan_comm_get_received_packet
<1>20. CASE ClearValid
  BY <1>20 DEF ClearValid
<1>21. CASE ClearLine
  BY <1>21 DEF ClearLine
<1>22. CASE LanFrame
  BY <1>22 DEF LanFrame, Transaction
<1>23. CASE LanQuery
  BY <1>23 DEF LanQuery, Transaction
<1>24. CASE UNCHANGED vars
  BY <1>24 DEF vars
<1> QED
  BY <1>1, <1>2, <1>3, <1>4, <1>5, <1>6, <1>7, <1>8, <1>9, <1>10, <1>11,
     <1>12, <1>13, <1>14, <1>15, <1>16, <1>17, <1>18, <1>19, <1>20, <1>21,
     <1>22, <1>23, <1>24
  DEF Next, mcu_lan_enqueue_downlink, Uplink

(* Every step keeps a payload alone until another one meets it.            *)
LEMMA AloneStep ==
  ASSUME Control, Flags, ServedIsValid, Alone, [Next]_vars PROVE Alone'
<1> USE DEF Control, Flags, UplinkPoints, ServedIsValid, Sending, Alone, Pending,
            spiVars, enqVars, pendVars, othVars, raceVars
<1>1. CASE \E len \in Lengths : QueueSend(len)
  BY <1>1 DEF QueueSend
<1>2. CASE BeginCopy
  BY <1>2 DEF BeginCopy
<1>3. CASE EndCopy
  BY <1>3 DEF EndCopy
<1>4. CASE SetPendingValid
  BY <1>4 DEF SetPendingValid, NotePending
<1>5. CASE SignalDownlink
  BY <1>5 DEF SignalDownlink, signal_data_ready
<1>6. CASE SetOther
  BY <1>6 DEF SetOther, NotePending
<1>7. CASE SignalOther
  BY <1>7 DEF SignalOther, signal_data_ready
<1>8. CASE EndRequest
  BY <1>8 DEF EndRequest, clear_data_ready
<1>9. CASE QueueReceive
  BY <1>9 DEF QueueReceive
<1>10. CASE ReceiveNothing
  BY <1>10 DEF ReceiveNothing, lan_comm_get_received_packet
<1>11. CASE process_data_from_lan
  BY <1>11
  DEF process_data_from_lan, lan_comm_get_received_packet,
      lan_comm_load_tx_data
<1>12. CASE RtcRequest
  BY <1>12
  DEF RtcRequest, lan_comm_get_received_packet, lan_comm_load_tx_data
<1>13. CASE ConfigRequest
  BY <1>13 DEF ConfigRequest, lan_comm_get_received_packet, clear_data_ready
<1>14. CASE process_data_query
  BY <1>14
  DEF process_data_query, lan_comm_get_received_packet, lan_comm_load_tx_data
<1>15. CASE downlink_handle_config_request
  BY <1>15
  DEF downlink_handle_config_request, lan_comm_load_tx_data, AfterCache
<1>16. CASE AllocPacket
  BY <1>16 DEF AllocPacket, NoMemory
<1>17. CASE FillPacket
  BY <1>17 DEF FillPacket, lan_comm_load_tx_data
<1>18. CASE WaitQueue
  BY <1>18 DEF WaitQueue
<1>19. CASE WaitGet
  BY <1>19 DEF WaitGet, lan_comm_get_received_packet
<1>20. CASE ClearValid
  BY <1>20 DEF ClearValid
<1>21. CASE ClearLine
  BY <1>21 DEF ClearLine, clear_data_ready
<1>22. CASE LanFrame
  BY <1>22 DEF LanFrame, Transaction
<1>23. CASE LanQuery
  BY <1>23 DEF LanQuery, Transaction
<1>24. CASE UNCHANGED vars
  BY <1>24 DEF vars
<1> QED
  BY <1>1, <1>2, <1>3, <1>4, <1>5, <1>6, <1>7, <1>8, <1>9, <1>10, <1>11,
     <1>12, <1>13, <1>14, <1>15, <1>16, <1>17, <1>18, <1>19, <1>20, <1>21,
     <1>22, <1>23, <1>24
  DEF Next, mcu_lan_enqueue_downlink, Uplink

(* Every step keeps the edge, or the DQ that answers it, of the payload    *)
(* that is pending alone.                                                  *)
LEMMA WakeUpStep ==
  ASSUME Control, Flags, Alone, WakeUp, [Next]_vars PROVE WakeUp'
<1> USE DEF Control, Flags, UplinkPoints, Sending, Alone, WakeUp, Pending,
            spiVars, enqVars, pendVars, othVars, raceVars
<1>1. CASE \E len \in Lengths : QueueSend(len)
  BY <1>1 DEF QueueSend
<1>2. CASE BeginCopy
  BY <1>2 DEF BeginCopy
<1>3. CASE EndCopy
  BY <1>3 DEF EndCopy
<1>4. CASE SetPendingValid
  BY <1>4 DEF SetPendingValid, NotePending
<1>5. CASE SignalDownlink
  BY <1>5 DEF SignalDownlink, signal_data_ready
<1>6. CASE SetOther
  BY <1>6 DEF SetOther, NotePending
<1>7. CASE SignalOther
  BY <1>7 DEF SignalOther, signal_data_ready
<1>8. CASE EndRequest
  BY <1>8 DEF EndRequest, clear_data_ready
<1>9. CASE QueueReceive
  BY <1>9 DEF QueueReceive
<1>10. CASE ReceiveNothing
  BY <1>10 DEF ReceiveNothing, lan_comm_get_received_packet
<1>11. CASE process_data_from_lan
  BY <1>11
  DEF process_data_from_lan, lan_comm_get_received_packet,
      lan_comm_load_tx_data
<1>12. CASE RtcRequest
  BY <1>12
  DEF RtcRequest, lan_comm_get_received_packet, lan_comm_load_tx_data
<1>13. CASE ConfigRequest
  BY <1>13 DEF ConfigRequest, lan_comm_get_received_packet, clear_data_ready
<1>14. CASE process_data_query
  BY <1>14
  DEF process_data_query, lan_comm_get_received_packet, lan_comm_load_tx_data
<1>15. CASE downlink_handle_config_request
  BY <1>15
  DEF downlink_handle_config_request, lan_comm_load_tx_data, AfterCache
<1>16. CASE AllocPacket
  BY <1>16 DEF AllocPacket, NoMemory
<1>17. CASE FillPacket
  BY <1>17 DEF FillPacket, lan_comm_load_tx_data
<1>18. CASE WaitQueue
  BY <1>18 DEF WaitQueue
<1>19. CASE WaitGet
  BY <1>19 DEF WaitGet, lan_comm_get_received_packet
<1>20. CASE ClearValid
  BY <1>20 DEF ClearValid
<1>21. CASE ClearLine
  BY <1>21 DEF ClearLine, clear_data_ready
<1>22. CASE LanFrame
  BY <1>22 DEF LanFrame, Transaction
<1>23. CASE LanQuery
  BY <1>23 DEF LanQuery, Transaction
<1>24. CASE UNCHANGED vars
  BY <1>24 DEF vars
<1> QED
  BY <1>1, <1>2, <1>3, <1>4, <1>5, <1>6, <1>7, <1>8, <1>9, <1>10, <1>11,
     <1>12, <1>13, <1>14, <1>15, <1>16, <1>17, <1>18, <1>19, <1>20, <1>21,
     <1>22, <1>23, <1>24
  DEF Next, mcu_lan_enqueue_downlink, Uplink

(* Every step keeps a place of the queue behind each accepted downlink.    *)
LEMMA BudgetStep ==
  ASSUME Data, Budget, [Next]_vars PROVE Budget'
<1> USE DEF Data, Budget, spiVars, enqVars, pendVars, othVars, raceVars
<1>1. CASE \E len \in Lengths : QueueSend(len)
  BY <1>1, FS_CardinalityType DEF QueueSend
<1>2. CASE BeginCopy
  BY <1>2 DEF BeginCopy
<1>3. CASE EndCopy
  BY <1>3 DEF EndCopy
<1>4. CASE SetPendingValid
  <2>1. /\ enq = "valid" /\ enq' = "signal" /\ queued' = queued
        /\ accepted' = accepted \cup {item.id}
    BY <1>4 DEF SetPendingValid
  <2>2. /\ IsFiniteSet(accepted \cup {item.id})
        /\ Cardinality(accepted \cup {item.id})
             \in {Cardinality(accepted), Cardinality(accepted) + 1}
    BY FS_AddElement DEF Budget
  <2>3. Cardinality(accepted) \in Nat
    BY FS_CardinalityType DEF Budget
  <2> QED BY <2>1, <2>2, <2>3 DEF Budget
<1>5. CASE SignalDownlink
  BY <1>5, FS_CardinalityType DEF SignalDownlink
<1>6. CASE SetOther
  BY <1>6 DEF SetOther
<1>7. CASE SignalOther
  BY <1>7 DEF SignalOther
<1>8. CASE EndRequest
  BY <1>8 DEF EndRequest
<1>9. CASE QueueReceive
  BY <1>9 DEF QueueReceive
<1>10. CASE ReceiveNothing
  BY <1>10 DEF ReceiveNothing
<1>11. CASE process_data_from_lan
  BY <1>11 DEF process_data_from_lan
<1>12. CASE RtcRequest
  BY <1>12 DEF RtcRequest
<1>13. CASE ConfigRequest
  BY <1>13 DEF ConfigRequest
<1>14. CASE process_data_query
  BY <1>14 DEF process_data_query
<1>15. CASE downlink_handle_config_request
  BY <1>15 DEF downlink_handle_config_request
<1>16. CASE AllocPacket
  BY <1>16 DEF AllocPacket
<1>17. CASE FillPacket
  BY <1>17 DEF FillPacket
<1>18. CASE WaitQueue
  BY <1>18 DEF WaitQueue
<1>19. CASE WaitGet
  BY <1>19 DEF WaitGet
<1>20. CASE ClearValid
  BY <1>20 DEF ClearValid
<1>21. CASE ClearLine
  BY <1>21 DEF ClearLine
<1>22. CASE LanFrame
  BY <1>22 DEF LanFrame, Transaction
<1>23. CASE LanQuery
  BY <1>23 DEF LanQuery, Transaction
<1>24. CASE UNCHANGED vars
  BY <1>24 DEF vars
<1> QED
  BY <1>1, <1>2, <1>3, <1>4, <1>5, <1>6, <1>7, <1>8, <1>9, <1>10, <1>11,
     <1>12, <1>13, <1>14, <1>15, <1>16, <1>17, <1>18, <1>19, <1>20, <1>21,
     <1>22, <1>23, <1>24
  DEF Next, mcu_lan_enqueue_downlink, Uplink

-----------------------------------------------------------------------------
(* The invariant holds of every reachable state.                           *)
LEMMA Invariance == Spec => []Inv
<1>1. Init => Inv
  BY InitInv
<1>2. Inv /\ [Next]_vars => Inv'
  <2> SUFFICES ASSUME Inv, [Next]_vars PROVE Inv'
    OBVIOUS
  <2>1. Control /\ Flags /\ Data
    BY TypeParts DEF Inv
  <2>2. Control' /\ Flags' /\ Data' /\ Safe'
    BY <2>1, ControlStep, FlagsStep, DataStep, SafeStep DEF Inv, Safe
  <2>3. TypeOK'
    BY <2>2 DEF TypeOK, Control, Flags, Data
  <2>4. LinkDiscipline' /\ Alone' /\ WakeUp'
    BY <2>1, LinkStep, AloneStep, WakeUpStep DEF Inv, Safe
  <2>5. Budget'
    BY <2>1, BudgetStep DEF Inv
  <2> QED BY <2>2, <2>3, <2>4, <2>5 DEF Inv
<1> QED BY <1>1, <1>2, PTL DEF Spec

(* Every variable keeps its type.                                          *)
THEOREM TypeCorrect == Spec => []TypeOK
  BY Invariance, PTL DEF Inv

(* send_downlink_to_lan builds its packet from one whole downlink, within  *)
(* its allocation, unless mcu_lan_enqueue_downlink wrote over a downlink   *)
(* that was pending or being sent.                                         *)
THEOREM PacketsAreWhole == Spec => []WholePackets
<1>1. Inv => WholePackets
  <2> SUFFICES ASSUME Inv, up = "fill", ~overlap
               PROVE  g_pending_downlink.id # 0 /\ g_pending_downlink.len <= alloc
    BY DEF WholePackets
  <2>1. g_pending_downlink.id \in Ids /\ alloc = g_pending_downlink.len
    BY DEF Inv, Safe, ServedIsValid, SlotOwned, Sending
  <2>2. alloc \in Nat
    BY LengthsAssumption DEF Inv, TypeOK
  <2> QED BY <2>1, <2>2 DEF Ids
<1> QED BY <1>1, Invariance, PTL

(* A downlink for which mcu_lan_enqueue_downlink returned true is pending  *)
(* or has been put into the TX buffer, unless two were written over each   *)
(* other or an allocation or a lock failed.                                *)
THEOREM AcceptedAreSent == Spec => []AcceptedReachesTx
  BY Invariance, PTL DEF Inv, Safe

(* While the LAN MCU's last DT frame is one that was dropped during the    *)
(* wait for an ACK, the TX buffer holds no ACK it could take for it.       *)
THEOREM DroppedNotAcked == Spec => []NoFalseAck
<1>1. Inv => NoFalseAck
  BY DEF Inv, Safe, AckDiscipline, NoFalseAck
<1> QED BY <1>1, Invariance, PTL

(* No answer in the TX buffer is replaced before the LAN MCU has clocked   *)
(* it out.                                                                 *)
THEOREM AnswersAreHeard == Spec => []AnswersHeard
<1>1. Inv => AnswersHeard
  BY DEF Inv, LinkDiscipline
<1> QED BY <1>1, Invariance, PTL

(* lan_comm_load_tx_data never writes the TX buffer of a transaction that  *)
(* is queued for the SPI peripheral.                                       *)
THEOREM TxIsStable == Spec => TxStableWhileQueued
<1>1. Inv /\ [Next]_vars
        => (transaction_queued /\ transaction_queued' => tx' = tx)
  <2> SUFFICES ASSUME LinkDiscipline, Flags, [Next]_vars, tx' # tx
               PROVE  ~(transaction_queued /\ transaction_queued')
    BY TypeParts DEF Inv
  <2> USE DEF LinkDiscipline, spiVars, lan_comm_get_received_packet
  <2>1. \/ process_data_from_lan \/ RtcRequest \/ process_data_query
        \/ downlink_handle_config_request \/ FillPacket
    BY DEF Next, vars, mcu_lan_enqueue_downlink, QueueSend, BeginCopy, EndCopy,
           SetPendingValid, SignalDownlink, SetOther, SignalOther, EndRequest,
           Uplink, QueueReceive, ReceiveNothing, ConfigRequest, AllocPacket,
           WaitQueue, WaitGet, ClearValid, ClearLine, LanFrame, LanQuery,
           Transaction
  <2>2. CASE process_data_from_lan
    BY <2>2 DEF process_data_from_lan
  <2>3. CASE RtcRequest
    BY <2>3 DEF RtcRequest
  <2>4. CASE process_data_query
    BY <2>4 DEF process_data_query
  <2>5. CASE downlink_handle_config_request
    BY <2>5 DEF downlink_handle_config_request
  <2>6. CASE FillPacket
    BY <2>6 DEF FillPacket
  <2> QED BY <2>1, <2>2, <2>3, <2>4, <2>5, <2>6
<1> QED BY <1>1, Invariance, PTL DEF Spec, TxStableWhileQueued

(* What is pending alone is never forgotten: its rising edge is waiting    *)
(* for the LAN MCU, or the LAN MCU's DQ has come.                          *)
THEOREM WakeUpsAreKept == Spec => []WakeUpKept
<1>1. Inv => WakeUpKept
  BY DEF Inv, WakeUp, WakeUpKept
<1> QED BY <1>1, Invariance, PTL

(* Between two starts of the MCU at most DOWNLINK_QUEUE_SIZE downlinks are *)
(* accepted: g_downlink_queue has no reader.                               *)
THEOREM DownlinksAreBounded == Spec => []DownlinkBudget
<1>1. Inv => DownlinkBudget
  <2> SUFFICES ASSUME Inv PROVE Cardinality(accepted) <= DOWNLINK_QUEUE_SIZE
    BY DEF DownlinkBudget
  <2>1. Cardinality(accepted) \in Nat
    BY FS_CardinalityType DEF Inv, Budget
  <2>2. queued \in 0..DOWNLINK_QUEUE_SIZE
    BY DEF Inv, TypeOK
  <2> QED BY <2>1, <2>2, QueueAssumption DEF Inv, Budget
<1> QED BY <1>1, Invariance, PTL
=============================================================================
