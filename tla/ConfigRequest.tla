--------------------------- MODULE ConfigRequest ---------------------------
(***************************************************************************)
(* mcu_lan_handler_request_config_async: a task (UART/USB handler, web     *)
(* server) asks for the configuration of the LAN MCU and blocks until the  *)
(* uplink task has received it, or until a timeout.                        *)
(*                                                                         *)
(* The request is a heap object that requester and uplink task share       *)
(* through four globals, none of them under a lock, on two cores.  Every   *)
(* access to a global is a step.  An access through NULL or to freed       *)
(* memory is recorded in fault and ends the behaviour.  races names the    *)
(* three races a run went through:                                         *)
(*   "overlap"  a request passed the check while another one was active    *)
(*   "late"     a timeout, or the cleanup after it, and the processing of  *)
(*              an answer overlapped                                       *)
(*   "tail"     a request began while the uplink task was still resetting  *)
(*              the globals after it had completed the previous one        *)
(***************************************************************************)
EXTENDS Naturals, FiniteSets

CONSTANTS
  Requesters,   \* the tasks that call mcu_lan_handler_request_config_async
  Null,         \* the NULL pointer
  MaxCalls      \* bound: calls

ASSUME NullAssumption  == Null \notin Nat
ASSUME CallsAssumption == MaxCalls \in Nat

VARIABLES
  pc,           \* control point of each requester
  sem,          \* the object whose completion_sem a requester blocks on
  res,          \* what its last call returned
  filled,       \* history: its buffer got an answer during this call
  g_config_req_async,
  g_active_config_request_ptr,
  g_active_config_request_valid,
  g_config_req_state,
  live,         \* objects allocated and not freed
  owner,        \* object -> whose buffer it points to
  done,         \* objects with result = ESP_OK
  given,        \* objects whose completion_sem was given
  up,           \* control point of the uplink task
  asked,        \* CFCQ was loaded for the LAN MCU
  allocated,    \* objects allocated so far: addresses are not reused
  calls,        \* calls made
  fault, races

reqVars == <<pc, sem, res, filled>>
objVars == <<live, owner, done, given, allocated>>
vars == <<reqVars, g_config_req_async, g_active_config_request_ptr,
          g_active_config_request_valid, g_config_req_state, objVars, up,
          asked, calls, fault, races>>

Objects == 1..MaxCalls
Pointers == Objects \cup {Null}
RequestPoints == {"idle", "malloc", "sem", "fill", "ptr", "valid", "state",
                  "take", "wait", "result", "free", "unvalid", "unptr",
                  "unstate"}
UplinkPoints == {"receive", "loadCfcq", "copy", "result", "give", "unvalid",
                 "unptr", "unstate"}

(* The values every variable may take.                                     *)
TypeOK ==
  /\ pc \in [Requesters -> RequestPoints]
  /\ sem \in [Requesters -> Pointers]
  /\ res \in [Requesters -> {"none", "OK", "FAIL", "TIMEOUT",
                             "INVALID_STATE", "NO_MEM"}]
  /\ filled \in [Requesters -> BOOLEAN]
  /\ g_config_req_async \in Pointers
  /\ g_active_config_request_ptr \in Pointers
  /\ g_active_config_request_valid \in BOOLEAN
  /\ g_config_req_state \in {"IDLE", "WAIT_DQ_FOR_CFCQ", "WAIT_CONFIG_RESP"}
  /\ live \subseteq Objects
  /\ owner \in [Objects -> Requesters \cup {Null}]
  /\ done \subseteq Objects
  /\ given \subseteq Objects
  /\ up \in UplinkPoints
  /\ asked \in BOOLEAN
  /\ allocated \in 0..MaxCalls
  /\ calls \in 0..MaxCalls
  /\ fault \in BOOLEAN
  /\ races \subseteq {"overlap", "late", "tail"}

Init ==
  /\ pc = [r \in Requesters |-> "idle"]
  /\ sem = [r \in Requesters |-> Null]
  /\ res = [r \in Requesters |-> "none"]
  /\ filled = [r \in Requesters |-> FALSE]
  /\ g_config_req_async = Null
  /\ g_active_config_request_ptr = Null
  /\ g_active_config_request_valid = FALSE
  /\ g_config_req_state = "IDLE"
  /\ live = {}
  /\ owner = [o \in Objects |-> Null]
  /\ done = {}
  /\ given = {}
  /\ up = "receive"
  /\ asked = FALSE
  /\ allocated = 0
  /\ calls = 0
  /\ fault = FALSE
  /\ races = {}

-----------------------------------------------------------------------------
(* The requester.                                                          *)
Goto(r, point) == pc' = [pc EXCEPT ![r] = point]
Return(r, result) == res' = [res EXCEPT ![r] = result] /\ Goto(r, "idle")

Resetting == up \in {"unvalid", "unptr", "unstate"}

(* "Config request already in progress", or on to the allocation.          *)
CheckValid(r) ==
  /\ pc[r] = "idle"
  /\ calls < MaxCalls
  /\ calls' = calls + 1
  /\ filled' = [filled EXCEPT ![r] = FALSE]
  /\ IF g_active_config_request_valid
       THEN Return(r, "INVALID_STATE") /\ UNCHANGED races
       ELSE /\ Goto(r, "malloc")
            /\ res' = [res EXCEPT ![r] = "none"]
            /\ races' = races
                 \cup (IF \E q \in Requesters \ {r} : pc[q] # "idle"
                         THEN {"overlap"} ELSE {})
                 \cup (IF Resetting THEN {"tail"} ELSE {})
  /\ UNCHANGED <<sem, g_config_req_async, g_active_config_request_ptr,
                 g_active_config_request_valid, g_config_req_state, objVars,
                 up, asked, fault>>

(* The result of malloc goes straight to the global, NULL too.             *)
Malloc(r) ==
  /\ pc[r] = "malloc"
  /\ \/ /\ allocated' = allocated + 1
        /\ g_config_req_async' = allocated'
        /\ live' = live \cup {allocated'}
        /\ Goto(r, "sem")
        /\ UNCHANGED res
     \/ /\ g_config_req_async' = Null
        /\ Return(r, "NO_MEM")
        /\ UNCHANGED <<allocated, live>>
  /\ UNCHANGED <<sem, filled, g_active_config_request_ptr,
                 g_active_config_request_valid, g_config_req_state, owner,
                 done, given, up, asked, calls, races, fault>>

(* free(g_config_req_async), and the pointer set to NULL.                  *)
FreeAsync ==
  /\ live' = live \ {g_config_req_async}
  /\ fault' = (fault \/ g_config_req_async \notin live)
  /\ g_config_req_async' = Null

(* The completion semaphore is created in the object, or the object freed. *)
CreateSemaphore(r) ==
  /\ pc[r] = "sem"
  /\ \/ /\ fault' = (fault \/ g_config_req_async \notin live)
        /\ Goto(r, "fill")
        /\ UNCHANGED <<g_config_req_async, live, res>>
     \/ /\ FreeAsync
        /\ Return(r, "NO_MEM")
  /\ UNCHANGED <<sem, filled, g_active_config_request_ptr,
                 g_active_config_request_valid, g_config_req_state, owner,
                 done, given, allocated, up, asked, calls, races>>

FillRequest(r) ==
  /\ pc[r] = "fill"
  /\ Goto(r, "ptr")
  /\ IF g_config_req_async \in live
       THEN /\ owner' = [owner EXCEPT ![g_config_req_async] = r]
            /\ done' = done \ {g_config_req_async}
            /\ UNCHANGED fault
       ELSE fault' = TRUE /\ UNCHANGED <<owner, done>>
  /\ UNCHANGED <<sem, res, filled, g_config_req_async,
                 g_active_config_request_ptr, g_active_config_request_valid,
                 g_config_req_state, live, given, allocated, up, asked,
                 calls, races>>

(* The request is published by three assignments, in this order ...        *)
SetPtr(r) ==
  /\ pc[r] = "ptr"
  /\ Goto(r, "valid")
  /\ g_active_config_request_ptr' = g_config_req_async
  /\ UNCHANGED <<sem, res, filled, g_config_req_async,
                 g_active_config_request_valid, g_config_req_state, objVars,
                 up, asked, calls, races, fault>>

SetValid(r) ==
  /\ pc[r] = "valid"
  /\ Goto(r, "state")
  /\ g_active_config_request_valid' = TRUE
  /\ UNCHANGED <<sem, res, filled, g_config_req_async,
                 g_active_config_request_ptr, g_config_req_state, objVars,
                 up, asked, calls, races, fault>>

SetState(r) ==
  /\ pc[r] = "state"
  /\ Goto(r, "take")
  /\ g_config_req_state' = "WAIT_DQ_FOR_CFCQ"
  /\ UNCHANGED <<sem, res, filled, g_config_req_async,
                 g_active_config_request_ptr, g_active_config_request_valid,
                 objVars, up, asked, calls, races, fault>>

(* ... and waited for on the semaphore of whatever the global points to.   *)
TakeSemaphore(r) ==
  /\ pc[r] = "take"
  /\ Goto(r, "wait")
  /\ sem' = [sem EXCEPT ![r] = g_config_req_async]
  /\ fault' = (fault \/ g_config_req_async \notin live)
  /\ UNCHANGED <<res, filled, g_config_req_async,
                 g_active_config_request_ptr, g_active_config_request_valid,
                 g_config_req_state, objVars, up, asked, calls, races>>

Completed(r) ==
  /\ pc[r] = "wait"
  /\ sem[r] \in given
  /\ Goto(r, "result")
  /\ UNCHANGED <<sem, res, filled, g_config_req_async,
                 g_active_config_request_ptr, g_active_config_request_valid,
                 g_config_req_state, objVars, up, asked, calls, races, fault>>

Timeout(r) ==
  /\ pc[r] = "wait"
  /\ sem[r] \notin given
  /\ Goto(r, "free")
  /\ res' = [res EXCEPT ![r] = "TIMEOUT"]
  /\ races' = races \cup (IF up \in {"copy", "result", "give"}
                            THEN {"late"} ELSE {})
  /\ UNCHANGED <<sem, filled, g_config_req_async,
                 g_active_config_request_ptr, g_active_config_request_valid,
                 g_config_req_state, objVars, up, asked, calls, fault>>

ReadResult(r) ==
  /\ pc[r] = "result"
  /\ Goto(r, "free")
  /\ res' = [res EXCEPT ![r] = IF g_config_req_async \in done THEN "OK"
                                                              ELSE "FAIL"]
  /\ fault' = (fault \/ g_config_req_async \notin live)
  /\ UNCHANGED <<sem, filled, g_config_req_async,
                 g_active_config_request_ptr, g_active_config_request_valid,
                 g_config_req_state, objVars, up, asked, calls, races>>

(* cleanup: the object, if the global still points to one ...              *)
Free(r) ==
  /\ pc[r] = "free"
  /\ Goto(r, "unvalid")
  /\ \/ g_config_req_async # Null /\ FreeAsync
     \/ g_config_req_async = Null
        /\ UNCHANGED <<g_config_req_async, live, fault>>
  /\ UNCHANGED <<sem, res, filled, g_active_config_request_ptr,
                 g_active_config_request_valid, g_config_req_state, owner,
                 done, given, allocated, up, asked, calls, races>>

(* ... and the three globals.                                              *)
ClearValid(r) ==
  /\ pc[r] = "unvalid"
  /\ Goto(r, "unptr")
  /\ g_active_config_request_valid' = FALSE
  /\ UNCHANGED <<sem, res, filled, g_config_req_async,
                 g_active_config_request_ptr, g_config_req_state, objVars,
                 up, asked, calls, races, fault>>

(* Mutant: the pointer to the freed request stays.                         *)
MutantClearPtr(r) ==
  /\ pc[r] = "unptr"
  /\ Goto(r, "unstate")
  /\ UNCHANGED <<sem, res, filled, g_config_req_async,
                 g_active_config_request_ptr, g_active_config_request_valid,
                 g_config_req_state, objVars, up, asked, calls, races, fault>>

ClearPtr(r) ==
  /\ pc[r] = "unptr"
  /\ Goto(r, "unstate")
  /\ g_active_config_request_ptr' = Null
  /\ UNCHANGED <<sem, res, filled, g_config_req_async,
                 g_active_config_request_valid, g_config_req_state, objVars,
                 up, asked, calls, races, fault>>

ClearState(r) ==
  /\ pc[r] = "unstate"
  /\ Goto(r, "idle")
  /\ g_config_req_state' = "IDLE"
  /\ UNCHANGED <<sem, res, filled, g_config_req_async,
                 g_active_config_request_ptr, g_active_config_request_valid,
                 objVars, up, asked, calls, races, fault>>

Requester(r) ==
  \/ CheckValid(r) \/ Malloc(r) \/ CreateSemaphore(r) \/ FillRequest(r)
  \/ SetPtr(r) \/ SetValid(r) \/ SetState(r) \/ TakeSemaphore(r)
  \/ Completed(r) \/ Timeout(r) \/ ReadResult(r) \/ Free(r)
  \/ ClearValid(r) \/ ClearPtr(r) \/ ClearState(r)

-----------------------------------------------------------------------------
(* The uplink task.                                                        *)

(* Mutant: a request that was passed on is no longer marked valid.         *)
MutantLoadCfcq ==
  /\ up = "loadCfcq"
  /\ up' = "receive"
  /\ g_config_req_state' = "WAIT_CONFIG_RESP"
  /\ g_active_config_request_valid' = FALSE
  /\ UNCHANGED <<reqVars, g_config_req_async, g_active_config_request_ptr,
                 objVars, asked, calls, races, fault>>

(* process_data_query, case 1: CFCQ is loaded for the LAN MCU, and the     *)
(* state advances.                                                         *)
DataQuery ==
  /\ up = "receive"
  /\ g_active_config_request_valid
  /\ g_config_req_state = "WAIT_DQ_FOR_CFCQ"
  /\ up' = "loadCfcq"
  /\ asked' = TRUE
  /\ UNCHANGED <<reqVars, g_config_req_async, g_active_config_request_ptr,
                 g_active_config_request_valid, g_config_req_state, objVars,
                 calls, races, fault>>

LoadCfcq ==
  /\ up = "loadCfcq"
  /\ up' = "receive"
  /\ g_config_req_state' = "WAIT_CONFIG_RESP"
  /\ UNCHANGED <<reqVars, g_config_req_async, g_active_config_request_ptr,
                 g_active_config_request_valid, objVars, asked, calls,
                 races, fault>>

(* Mutant: an answer nobody waits for is processed.                        *)
Mutant_process_config_query ==
  /\ up = "receive"
  /\ asked
  /\ up' = "copy"
  /\ UNCHANGED <<reqVars, g_config_req_async, g_active_config_request_ptr,
                 g_active_config_request_valid, g_config_req_state, objVars,
                 asked, calls, races, fault>>

(* process_config_query: an answer of the LAN MCU, to this or to an        *)
(* earlier CFCQ (the TX buffer keeps CFCQ, so the LAN MCU may also read it *)
(* twice).  Without an active request it is dropped.                       *)
process_config_query ==
  /\ up = "receive"
  /\ asked
  /\ g_active_config_request_valid
  /\ g_active_config_request_ptr # Null
  /\ g_config_req_state = "WAIT_CONFIG_RESP"
  /\ up' = "copy"
  /\ races' = races \cup
                (IF \E r \in Requesters : pc[r] \in {"free", "unvalid", "unptr"}
                   THEN {"late"} ELSE {})
  /\ UNCHANGED <<reqVars, g_config_req_async, g_active_config_request_ptr,
                 g_active_config_request_valid, g_config_req_state, objVars,
                 asked, calls, fault>>

(* The pointer is read again for each of the next three accesses.          *)
CopyAnswer ==
  /\ up = "copy"
  /\ up' = "result"
  /\ IF g_active_config_request_ptr \in live
       THEN /\ filled' = [filled EXCEPT
                            ![owner[g_active_config_request_ptr]] = TRUE]
            /\ UNCHANGED fault
       ELSE fault' = TRUE /\ UNCHANGED filled
  /\ UNCHANGED <<pc, sem, res, g_config_req_async,
                 g_active_config_request_ptr, g_active_config_request_valid,
                 g_config_req_state, objVars, asked, calls, races>>

SetResult ==
  /\ up = "result"
  /\ up' = "give"
  /\ IF g_active_config_request_ptr \in live
       THEN /\ done' = done \cup {g_active_config_request_ptr}
            /\ UNCHANGED fault
       ELSE fault' = TRUE /\ UNCHANGED done
  /\ UNCHANGED <<reqVars, g_config_req_async, g_active_config_request_ptr,
                 g_active_config_request_valid, g_config_req_state, live,
                 owner, given, allocated, asked, calls, races>>

GiveSemaphore ==
  /\ up = "give"
  /\ up' = "unvalid"
  /\ IF g_active_config_request_ptr \in live
       THEN /\ given' = given \cup {g_active_config_request_ptr}
            /\ UNCHANGED fault
       ELSE fault' = TRUE /\ UNCHANGED given
  /\ UNCHANGED <<reqVars, g_config_req_async, g_active_config_request_ptr,
                 g_active_config_request_valid, g_config_req_state, live,
                 owner, done, allocated, asked, calls, races>>

(* The globals are reset after the requester was woken.                    *)
ResetGlobals ==
  /\ \/ /\ up = "unvalid" /\ up' = "unptr"
        /\ g_active_config_request_valid' = FALSE
        /\ UNCHANGED <<g_active_config_request_ptr, g_config_req_state>>
     \/ /\ up = "unptr" /\ up' = "unstate"
        /\ g_active_config_request_ptr' = Null
        /\ UNCHANGED <<g_active_config_request_valid, g_config_req_state>>
     \/ /\ up = "unstate" /\ up' = "receive"
        /\ g_config_req_state' = "IDLE"
        /\ UNCHANGED <<g_active_config_request_valid,
                       g_active_config_request_ptr>>
  /\ UNCHANGED <<reqVars, g_config_req_async, objVars, asked, calls, races,
                 fault>>

(* Any other frame, or none.                                               *)
ReceiveOther == up = "receive" /\ UNCHANGED vars

Uplink ==
  \/ DataQuery \/ LoadCfcq \/ process_config_query \/ CopyAnswer
  \/ SetResult \/ GiveSemaphore \/ ResetGlobals \/ ReceiveOther

(* What follows a fault is undefined: no step is modelled after it.        *)
Next ==
  \/ ~fault /\ (Uplink \/ \E r \in Requesters : Requester(r))
  \/ fault /\ UNCHANGED vars

Spec == Init /\ [][Next]_vars

-----------------------------------------------------------------------------
(* Properties.                                                             *)

(* Neither side follows NULL or a pointer to freed memory, unless two      *)
(* requests overlapped or a timeout fell into the processing of an answer: *)
(* the reset after the answer is harmless in this respect.                 *)
FaultNeedsRace == fault => races \cap {"overlap", "late"} # {}

(* A call that returns ESP_OK has the LAN MCU's answer in its buffer, with *)
(* the same exceptions.                                                    *)
OkMeansAnswered ==
  \A r \in Requesters :
    res[r] = "OK" => filled[r] \/ races \cap {"overlap", "late"} # {}

(* A requester that waits is the one the uplink task knows of.  This one   *)
(* is lost in the tail race too: the reset after an answer takes the next  *)
(* request off the table, and its caller waits for its timeout in vain.    *)
WaitingIsRegistered ==
  \A r \in Requesters :
    pc[r] = "wait" /\ sem[r] \notin given /\ races = {} =>
      /\ g_active_config_request_valid
      /\ g_active_config_request_ptr = sem[r]
      /\ owner[sem[r]] = r

(* When every call has returned and the uplink task is back in its loop,   *)
(* nothing refers to a request and every object is freed, whatever the     *)
(* timeouts did; only overlapping requests leak.                           *)
RestIsClean ==
  /\ \A r \in Requesters : pc[r] = "idle"
  /\ up = "receive"
  /\ "overlap" \notin races
  => /\ ~g_active_config_request_valid
     /\ g_active_config_request_ptr = Null
     /\ g_config_req_async = Null
     /\ live = {}

(* "Config request already in progress": at most one request is active.    *)
OneRequestAtATime ==
  Cardinality({r \in Requesters : pc[r] = "wait"}) <= 1
=============================================================================
