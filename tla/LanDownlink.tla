---------------------------- MODULE LanDownlink ----------------------------
(***************************************************************************)
(* Downlinks from the server to the LAN MCU, and the SPI link they take.   *)
(*                                                                         *)
(* The MQTT client's task accepts a downlink (mcu_lan_enqueue_downlink):   *)
(* it queues it, copies it to g_pending_downlink and pulses the data-ready *)
(* line.  The LAN MCU is the SPI master: after a rising edge it sends DQ,  *)
(* and the uplink task loads what is pending into the TX buffer, which the *)
(* next transaction clocks out.  The one-place cache of commands and the   *)
(* request for the LAN configuration compete for the line and for the      *)
(* answer to a DQ.  No lock protects any of this.                          *)
(***************************************************************************)
EXTENDS Naturals, FiniteSets

CONSTANTS
  DOWNLINK_QUEUE_SIZE,
  MAX_RETRY_COUNT,
  Lengths,        \* payload lengths
  MaxDownlinks,   \* bound: downlinks the server sends
  MaxOthers       \* bound: cached commands and configuration requests

ASSUME QueueAssumption   == DOWNLINK_QUEUE_SIZE \in Nat \ {0}
ASSUME RetryAssumption   == MAX_RETRY_COUNT \in Nat \ {0}
ASSUME LengthsAssumption == Lengths # {} /\ Lengths \subseteq Nat \ {0}
ASSUME BoundsAssumption  == MaxDownlinks \in Nat /\ MaxOthers \in Nat

Ids == 1..MaxDownlinks
NoItem == [id |-> 0, len |-> 0]    \* also a copy that is under way
Items == [id : Ids, len : Lengths] \cup [id : {0}, len : {0} \cup Lengths]

(* What the LAN MCU sends.  It polls with an empty CF frame.               *)
Frames == {"DQ", "DT", "RT", "CFCF", "poll", "ACK"}

VARIABLES
  up,                        \* control point of the uplink task
  retry,
  alloc,                     \* length the packet under construction has
  transaction_queued,
  rx,                        \* frame of the finished transaction, or "none"
  tx,                        \* what the TX buffer holds
  heard,                     \* a transaction has clocked tx out
  line, edge,                \* data-ready line; rising edge not yet answered
  enq, item,                 \* the task that enqueues, and its downlink
  queued,                    \* items in g_downlink_queue
  g_pending_downlink,
  g_pending_downlink_valid,
  g_config_cache_has_config,
  g_config_req_state,
  oth,                       \* task that signals a command or a request
  offers, others,            \* bounded counters
  accepted, loaded,          \* history: downlinks accepted, put into tx
  dt_dropped,               \* history: the LAN MCU's last DT frame was dropped
  crowded,                   \* history: two payloads were pending at once
  overlap,                   \* history: a downlink was written over another
  failed,                    \* history: an allocation or a lock failed
  overwritten                \* history: an answer was replaced unheard

spiVars  == <<transaction_queued, rx, tx, heard>>
enqVars  == <<enq, item, queued, offers, accepted>>
pendVars == <<g_pending_downlink, g_pending_downlink_valid,
              g_config_cache_has_config, g_config_req_state>>
othVars  == <<oth, others>>
raceVars == <<crowded, overlap>>
vars == <<up, retry, alloc, spiVars, line, edge, enqVars, pendVars, othVars,
          loaded, dt_dropped, raceVars, failed, overwritten>>

UplinkPoints == {"queue", "get", "cfcf", "cache", "alloc", "fill",
                 "waitQueue", "waitGet", "clearValid", "clearLine"}
Sending == {"alloc", "fill", "waitQueue", "waitGet", "clearValid"}

(* The values every variable may take.                                     *)
TypeOK ==
  /\ up \in UplinkPoints
  /\ retry \in 0..(MAX_RETRY_COUNT - 1)
  /\ alloc \in {0} \cup Lengths
  /\ transaction_queued \in BOOLEAN
  /\ rx \in Frames \cup {"none"}
  /\ tx \in {"none", "ACK", "RT", "CFCQ", "CF", "DT"}
  /\ heard \in BOOLEAN /\ line \in BOOLEAN /\ edge \in BOOLEAN
  /\ enq \in {"idle", "copy", "copying", "valid", "signal"}
  /\ item \in Items
  /\ queued \in 0..DOWNLINK_QUEUE_SIZE
  /\ g_pending_downlink \in Items
  /\ g_pending_downlink_valid \in BOOLEAN
  /\ g_config_cache_has_config \in BOOLEAN
  /\ g_config_req_state \in {"IDLE", "WAIT_DQ", "WAIT_RESP"}
  /\ oth \in {"idle", "signal"}
  /\ offers \in 0..MaxDownlinks /\ others \in 0..MaxOthers
  /\ accepted \subseteq Ids /\ loaded \subseteq Ids
  /\ dt_dropped \in BOOLEAN
  /\ crowded \in BOOLEAN /\ overlap \in BOOLEAN /\ failed \in BOOLEAN
  /\ overwritten \in BOOLEAN

Init ==
  /\ up = "queue" /\ retry = 0 /\ alloc = 0
  /\ transaction_queued = FALSE /\ rx = "none"
  /\ tx = "none" /\ heard = TRUE
  /\ line = FALSE /\ edge = FALSE
  /\ enq = "idle" /\ item = NoItem /\ queued = 0
  /\ g_pending_downlink = NoItem /\ g_pending_downlink_valid = FALSE
  /\ g_config_cache_has_config = FALSE /\ g_config_req_state = "IDLE"
  /\ oth = "idle"
  /\ offers = 0 /\ others = 0
  /\ accepted = {} /\ loaded = {}
  /\ dt_dropped = FALSE
  /\ crowded = FALSE /\ overlap = FALSE /\ failed = FALSE
  /\ overwritten = FALSE

(* What waits for a DQ of the LAN MCU.                                     *)
Pending ==
  \/ g_pending_downlink_valid
  \/ g_config_cache_has_config
  \/ g_config_req_state = "WAIT_DQ"

(* Mutant: high without the low half of the pulse.                         *)
Mutant_signal_data_ready == line' = TRUE /\ edge' = (edge \/ ~line)

(* Low, 10 us, high: the LAN MCU sees a rising edge whatever the line was. *)
signal_data_ready == line' = TRUE /\ edge' = TRUE

clear_data_ready == line' = FALSE /\ UNCHANGED edge

(* A payload becomes pending: beside another one, or during a service?     *)
NotePending ==
  crowded' = (crowded \/ Pending \/ up \notin {"queue", "get"})

-----------------------------------------------------------------------------
(* mcu_lan_enqueue_downlink.  Nobody takes items out of g_downlink_queue.  *)
QueueSend(len) ==
  /\ enq = "idle"
  /\ offers < MaxDownlinks
  /\ offers' = offers + 1
  /\ IF queued < DOWNLINK_QUEUE_SIZE
       THEN /\ queued' = queued + 1
            /\ item' = [id |-> offers', len |-> len]
            /\ enq' = "copy"
       ELSE UNCHANGED <<queued, item, enq>>     \* 100 ms later: false
  /\ UNCHANGED <<up, retry, alloc, spiVars, line, edge, accepted, pendVars,
                 othVars, loaded, dt_dropped, raceVars, failed, overwritten>>

(* Mutant: the flag is set before the copy.                                *)
MutantBeginCopy ==
  /\ enq = "copy"
  /\ enq' = "copying"
  /\ \E len \in {g_pending_downlink.len, item.len} :
       g_pending_downlink' = [id |-> 0, len |-> len]
  /\ overlap' = (overlap \/ g_pending_downlink_valid \/ up \in Sending)
  /\ g_pending_downlink_valid' = TRUE
  /\ UNCHANGED <<up, retry, alloc, spiVars, line, edge, item, queued, offers,
                 accepted, g_config_cache_has_config, g_config_req_state,
                 othVars, loaded, dt_dropped, crowded, failed, overwritten>>

(* g_pending_downlink = item, not atomic: a reader may see the old length  *)
(* or the new one, with a mixture of the data.                             *)
BeginCopy ==
  /\ enq = "copy"
  /\ enq' = "copying"
  /\ \E len \in {g_pending_downlink.len, item.len} :
       g_pending_downlink' = [id |-> 0, len |-> len]
  /\ overlap' = (overlap \/ g_pending_downlink_valid \/ up \in Sending)
  /\ UNCHANGED <<up, retry, alloc, spiVars, line, edge, item, queued, offers,
                 accepted, g_pending_downlink_valid,
                 g_config_cache_has_config, g_config_req_state, othVars,
                 loaded, dt_dropped, crowded, failed, overwritten>>

EndCopy ==
  /\ enq = "copying"
  /\ enq' = "valid"
  /\ g_pending_downlink' = item
  /\ UNCHANGED <<up, retry, alloc, spiVars, line, edge, item, queued, offers,
                 accepted, g_pending_downlink_valid,
                 g_config_cache_has_config, g_config_req_state, othVars,
                 loaded, dt_dropped, raceVars, failed, overwritten>>

SetPendingValid ==
  /\ enq = "valid"
  /\ enq' = "signal"
  /\ g_pending_downlink_valid' = TRUE
  /\ accepted' = accepted \cup {item.id}
  /\ NotePending
  /\ UNCHANGED <<up, retry, alloc, spiVars, line, edge, item, queued, offers,
                 g_pending_downlink, g_config_cache_has_config,
                 g_config_req_state, othVars, loaded, dt_dropped, overlap,
                 failed, overwritten>>

SignalDownlink ==
  /\ enq = "signal"
  /\ enq' = "idle"
  /\ item' = NoItem
  /\ signal_data_ready
  /\ UNCHANGED <<up, retry, alloc, spiVars, queued, offers, accepted,
                 pendVars, othVars, loaded, dt_dropped, raceVars, failed,
                 overwritten>>

mcu_lan_enqueue_downlink ==
  \/ \E len \in Lengths : QueueSend(len)
  \/ BeginCopy \/ EndCopy \/ SetPendingValid \/ SignalDownlink

-----------------------------------------------------------------------------
(* The other users of the line: mcu_lan_handler_update_config and          *)
(* mcu_lan_handler_request_config_async, each in a task of its own.        *)
SetOther ==
  /\ oth = "idle" /\ others < MaxOthers
  /\ oth' = "signal" /\ others' = others + 1
  /\ NotePending
  /\ \/ /\ g_config_cache_has_config' = TRUE
        /\ UNCHANGED g_config_req_state
     \/ /\ g_config_req_state = "IDLE"
        /\ g_config_req_state' = "WAIT_DQ"
        /\ UNCHANGED g_config_cache_has_config
  /\ UNCHANGED <<up, retry, alloc, spiVars, line, edge, enqVars,
                 g_pending_downlink, g_pending_downlink_valid, loaded,
                 dt_dropped, overlap, failed, overwritten>>

SignalOther ==
  /\ oth = "signal"
  /\ oth' = "idle"
  /\ signal_data_ready
  /\ UNCHANGED <<up, retry, alloc, spiVars, enqVars, pendVars, others,
                 loaded, dt_dropped, raceVars, failed, overwritten>>

(* The request is answered, or times out, which lowers the line.           *)
EndRequest ==
  /\ oth = "idle" /\ g_config_req_state # "IDLE"
  /\ \/ clear_data_ready
     \/ g_config_req_state = "WAIT_RESP" /\ UNCHANGED <<line, edge>>
  /\ g_config_req_state' = "IDLE"
  /\ UNCHANGED <<up, retry, alloc, spiVars, enqVars, g_pending_downlink,
                 g_pending_downlink_valid, g_config_cache_has_config,
                 othVars, loaded, dt_dropped, raceVars, failed, overwritten>>

-----------------------------------------------------------------------------
(* The SPI link.                                                           *)
lan_comm_queue_receive == transaction_queued' = TRUE

(* lan_comm_parse_frame: only these headers, and no empty CF.              *)
Parsed(frame) == frame \in {"DQ", "DT", "RT", "CFCF"}

lan_comm_load_tx_data(data) ==
  /\ tx' = data
  /\ heard' = FALSE
  /\ overwritten' = (overwritten \/ ~heard)

-----------------------------------------------------------------------------
(* uplink_processor_task                                                   *)
QueueReceive ==
  /\ up = "queue"
  /\ up' = "get"
  /\ lan_comm_queue_receive
  /\ UNCHANGED <<retry, alloc, rx, tx, heard, line, edge, enqVars, pendVars,
                 othVars, loaded, dt_dropped, raceVars, failed, overwritten>>

(* lan_comm_get_received_packet, in the loop and in send_downlink_to_lan:  *)
(* a timeout leaves the transaction queued.                                *)
lan_comm_get_received_packet(frame) ==
  /\ transaction_queued
  /\ rx = frame
  /\ transaction_queued' = (frame = "none")
  /\ rx' = "none"

(* A timeout, or a frame that the parser rejects.                          *)
ReceiveNothing ==
  /\ up = "get"
  /\ up' = "queue"
  /\ \E f \in {"none", "poll", "ACK"} : lan_comm_get_received_packet(f)
  /\ UNCHANGED <<retry, alloc, tx, heard, line, edge, enqVars, pendVars,
                 othVars, loaded, dt_dropped, raceVars, failed, overwritten>>

(* A DT frame that is too short or incomplete gets no ACK.                 *)
process_data_from_lan ==
  /\ up = "get"
  /\ up' = "queue"
  /\ lan_comm_get_received_packet("DT")
  /\ \/ lan_comm_load_tx_data("ACK")
     \/ UNCHANGED <<tx, heard, overwritten>>
  /\ UNCHANGED <<retry, alloc, line, edge, enqVars, pendVars, othVars,
                 loaded, dt_dropped, raceVars, failed>>

(* The answer to an RTC request is left out while something is pending.    *)
RtcRequest ==
  /\ up = "get"
  /\ up' = "queue"
  /\ lan_comm_get_received_packet("RT")
  /\ IF \/ g_config_cache_has_config \/ g_pending_downlink_valid
        \/ g_config_req_state # "IDLE"
       THEN UNCHANGED <<tx, heard, overwritten>>
       ELSE lan_comm_load_tx_data("RT")
  /\ UNCHANGED <<retry, alloc, line, edge, enqVars, pendVars, othVars,
                 loaded, dt_dropped, raceVars, failed>>

ConfigRequest ==
  /\ up = "get"
  /\ up' = "cfcf"
  /\ lan_comm_get_received_packet("CFCF")
  /\ clear_data_ready
  /\ UNCHANGED <<retry, alloc, tx, heard, enqVars, pendVars, othVars, loaded,
                 dt_dropped, raceVars, failed, overwritten>>

(* process_data_query serves one payload, in this order.                   *)
process_data_query ==
  /\ up = "get"
  /\ lan_comm_get_received_packet("DQ")
  /\ \/ /\ g_config_req_state = "WAIT_DQ"
        /\ lan_comm_load_tx_data("CFCQ")
        /\ g_config_req_state' = "WAIT_RESP"
        /\ up' = "clearLine"
     \/ /\ g_config_req_state # "WAIT_DQ"
        /\ up' = IF g_config_cache_has_config THEN "cache"
                 ELSE IF g_pending_downlink_valid THEN "alloc" ELSE "queue"
        /\ UNCHANGED <<tx, heard, overwritten, g_config_req_state>>
  /\ UNCHANGED <<retry, alloc, line, edge, enqVars, g_pending_downlink,
                 g_pending_downlink_valid, g_config_cache_has_config,
                 othVars, loaded, dt_dropped, raceVars, failed>>

(* Mutant: the flag of the downlink is cleared after any service.          *)
MutantClearsFlag == "clearValid"

(* After the cache the DQ counts as served, whether it could be or not.    *)
AfterCache == "clearLine"

(* Nothing is loaded when the cache is empty, g_config_mutex or memory is  *)
(* not to be had.                                                          *)
downlink_handle_config_request ==
  /\ up \in {"cache", "cfcf"}
  /\ up' = IF up = "cache" THEN AfterCache ELSE "queue"
  /\ \/ /\ g_config_cache_has_config
        /\ lan_comm_load_tx_data("CF")
        /\ g_config_cache_has_config' = FALSE
        /\ UNCHANGED failed
     \/ /\ failed' = (failed \/ g_config_cache_has_config)
        /\ UNCHANGED <<tx, heard, overwritten, g_config_cache_has_config>>
  /\ UNCHANGED <<retry, alloc, transaction_queued, rx, line, edge, enqVars,
                 g_pending_downlink, g_pending_downlink_valid,
                 g_config_req_state, othVars, loaded, dt_dropped, raceVars>>

(* Mutant: without memory the ACK is waited for all the same.              *)
MutantNoMemory == "waitQueue"
NoMemory == "clearValid"

(* send_downlink_to_lan: the length is read for malloc ...                 *)
AllocPacket ==
  /\ up = "alloc"
  /\ \/ /\ up' = "fill"
        /\ alloc' = g_pending_downlink.len
        /\ UNCHANGED failed
     \/ /\ up' = NoMemory
        /\ failed' = TRUE
        /\ UNCHANGED alloc
  /\ UNCHANGED <<retry, spiVars, line, edge, enqVars, pendVars, othVars,
                 loaded, dt_dropped, raceVars, overwritten>>

(* ... and again, with the data, when the packet is built.                 *)
FillPacket ==
  /\ up = "fill"
  /\ up' = "waitQueue"
  /\ alloc' = 0
  /\ lan_comm_load_tx_data("DT")
  /\ loaded' = loaded \cup ({g_pending_downlink.id} \ {0})
  /\ UNCHANGED <<retry, transaction_queued, rx, line, edge, enqVars,
                 pendVars, othVars, dt_dropped, raceVars, failed>>

WaitQueue ==
  /\ up = "waitQueue"
  /\ up' = "waitGet"
  /\ lan_comm_queue_receive
  /\ UNCHANGED <<retry, alloc, rx, tx, heard, line, edge, enqVars, pendVars,
                 othVars, loaded, dt_dropped, raceVars, failed, overwritten>>

LastRetry == retry + 1 = MAX_RETRY_COUNT

(* Whatever is received in place of the ACK is dropped, and the packet is  *)
(* not loaded again.                                                       *)
WaitGet ==
  /\ up = "waitGet"
  /\ \E f \in Frames \cup {"none"} :
       /\ lan_comm_get_received_packet(f)
       /\ LET done == (f = "ACK" /\ Parsed(f)) \/ LastRetry
          IN  /\ up' = IF done THEN "clearValid" ELSE "waitQueue"
              /\ retry' = IF done THEN 0 ELSE retry + 1
       /\ dt_dropped' = (dt_dropped \/ f = "DT")
  /\ UNCHANGED <<alloc, tx, heard, line, edge, enqVars, pendVars, othVars,
                 loaded, raceVars, failed, overwritten>>

ClearValid ==
  /\ up = "clearValid"
  /\ up' = "clearLine"
  /\ g_pending_downlink_valid' = FALSE
  /\ UNCHANGED <<retry, alloc, spiVars, line, edge, enqVars,
                 g_pending_downlink, g_config_cache_has_config,
                 g_config_req_state, othVars, loaded, dt_dropped, raceVars,
                 failed, overwritten>>

ClearLine ==
  /\ up = "clearLine"
  /\ up' = "queue"
  /\ clear_data_ready
  /\ UNCHANGED <<retry, alloc, spiVars, enqVars, pendVars, othVars, loaded,
                 dt_dropped, raceVars, failed, overwritten>>

Uplink ==
  \/ QueueReceive \/ ReceiveNothing \/ process_data_from_lan \/ RtcRequest
  \/ ConfigRequest \/ process_data_query \/ downlink_handle_config_request
  \/ AllocPacket \/ FillPacket \/ WaitQueue \/ WaitGet \/ ClearValid
  \/ ClearLine

-----------------------------------------------------------------------------
(* The LAN MCU, master of the link.  A transaction that finds none queued  *)
(* here is not seen; one that does clocks tx out.                          *)
Transaction(frame) ==
  /\ transaction_queued /\ rx = "none"
  /\ rx' = frame
  /\ heard' = TRUE
  /\ dt_dropped' = (dt_dropped /\ frame # "DT")
  /\ UNCHANGED <<up, retry, alloc, transaction_queued, tx, line, enqVars,
                 pendVars, othVars, loaded, raceVars, failed, overwritten>>

LanFrame == (\E f \in Frames : Transaction(f)) /\ UNCHANGED edge

(* Its interrupt on the rising edge has it send a DQ.                      *)
LanQuery == edge /\ edge' = FALSE /\ Transaction("DQ")

Next ==
  \/ mcu_lan_enqueue_downlink \/ SetOther \/ SignalOther \/ EndRequest
  \/ Uplink \/ LanFrame \/ LanQuery

Spec == Init /\ [][Next]_vars

(* Every task of this MCU runs; the LAN MCU answers an edge in the end.    *)
FairSpec ==
  /\ Spec
  /\ WF_vars(Uplink)
  /\ WF_vars(BeginCopy \/ EndCopy \/ SetPendingValid \/ SignalDownlink)
  /\ WF_vars(SignalOther)
  /\ SF_vars(LanQuery)

-----------------------------------------------------------------------------
(* Properties.                                                             *)

(* g_pending_downlink is written and read by two tasks without a lock: a   *)
(* packet is a mixture, or longer than its allocation, only if a downlink  *)
(* was written over one that was still pending or being sent.              *)
WholePackets ==
  up = "fill" /\ ~overlap =>
    g_pending_downlink.id # 0 /\ g_pending_downlink.len <= alloc

(* A downlink for which true was returned reaches the TX buffer, or waits  *)
(* for it, unless it and another were written over each other, or no       *)
(* memory was left for its packet.                                         *)
AcceptedReachesTx ==
  \A d \in accepted :
    \/ d \in loaded
    \/ g_pending_downlink_valid /\ g_pending_downlink.id = d
    \/ overlap
    \/ failed

(* An answer in the TX buffer is clocked out before the next replaces it.  *)
AnswersHeard == ~overwritten

(* The TX buffer is not changed under a transaction that is queued for the *)
(* SPI peripheral's DMA.                                                   *)
TxStableWhileQueued ==
  [][transaction_queued /\ transaction_queued' => tx' = tx]_vars

(* A DT frame that fell into the wait for an ACK is dropped; the LAN MCU   *)
(* never reads an ACK for it.                                              *)
NoFalseAck == dt_dropped => tx # "ACK"

(* One edge, one DQ: while no two payloads are pending at once and no      *)
(* cached command could not be read, what is pending has its edge, or its  *)
(* DQ has come.                                                            *)
WakeUpKept ==
  /\ Pending /\ up \in {"queue", "get"} /\ enq # "signal" /\ oth = "idle"
  /\ ~crowded /\ ~failed
  => edge \/ rx = "DQ"

(* The queue is never emptied: between two starts of the MCU no more       *)
(* downlinks are accepted than it has places.                              *)
DownlinkBudget == Cardinality(accepted) <= DOWNLINK_QUEUE_SIZE

(* Again and again every downlink accepted so far has been loaded, unless  *)
(* payloads collided or memory was short.                                  *)
DownlinksArrive ==
  []<>(accepted \subseteq loaded \/ crowded \/ overlap \/ failed)
=============================================================================
