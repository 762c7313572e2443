------------------------------ MODULE LteLink ------------------------------
(***************************************************************************)
(* The LTE connection: lte_task with its start and stop (lte_connect.c)    *)
(* over the context and the mutex of the LTE handler (lte_handler.c).      *)
(*                                                                         *)
(* Four tasks call the handler: lte_task, the monitor's task that starts   *)
(* and stops it ("ctl"), the handler's own background task ("bg") and the  *)
(* event loop, which reports the PPP link.  They share ctx, whose mutex    *)
(* set_state takes without a timeout, and which deinit frees.              *)
(***************************************************************************)
EXTENDS Naturals, FiniteSets

CONSTANTS
  MaxStarts,      \* bound: starts
  MaxReinits,     \* bound: new settings, and links found dead
  MaxDrops        \* bound: losses of the link, and negotiations that fail

ASSUME BoundsAssumption ==
  MaxStarts \in Nat /\ MaxReinits \in Nat /\ MaxDrops \in Nat

Callers == {"task", "ctl", "bg"}
States == {"INITIALIZING", "CONNECTED", "DISCONNECTED", "RECONNECTING"}
None == "none"
Events == {None, "GOT_IP", "LOST_IP", "DEAD"}

VARIABLES
  task_running, initialized,    \* of g_lte_ctx
  is_internet_connected,        \* a global of all connections
  pc,                           \* control points of the callers
  back,                         \* lte_task: where deinit returns to
  ctx,                          \* the context exists; of it:
  state, ctx_initialized, auto_reconnect, mutex,  \* mutex: holder or None
  ppp, event,                   \* PPP is up; what the event loop handles
  starts, reinits, drops,
  late,                         \* history: a stop went on before lte_task
                                \*   had ended
  cut,                          \* history: the background task was deleted
                                \*   with the mutex in its hands
  fault                         \* freed memory was used, or the memory of a
                                \*   living task was reused

ctxVars  == <<ctx, state, ctx_initialized, auto_reconnect, mutex>>
appVars  == <<task_running, initialized, is_internet_connected>>
pppVars  == <<ppp, event>>
boundVars == <<starts, reinits, drops>>
history  == <<late, cut>>
lteVars == <<appVars, pc, back, ctxVars, pppVars, boundVars, history, fault>>

TaskPoints == {"off", "power", "reinit", "init", "modem", "mark", "loop",
               "query"}
CtlPoints  == {"idle", "wait", "clean", "cleared"}
BgPoints   == {"off", "poll", "attempt"}
CallPoints == {"connect", "locked", "self", "disc", "discSet", "deinit",
               "disc2", "discSet2", "deinit2", "free"}

(* The values every variable may take; a context is torn down as a whole.  *)
LteTypeOK ==
  /\ {task_running, initialized, is_internet_connected, ctx, ppp,
      ctx_initialized, auto_reconnect, late, cut, fault} \subseteq BOOLEAN
  /\ DOMAIN pc = Callers
  /\ pc["task"] \in TaskPoints \cup CallPoints
  /\ pc["ctl"] \in CtlPoints \cup CallPoints
  /\ pc["bg"] \in BgPoints \cup {"connect", "locked", "self"}
  /\ back \in {"init", "loop"}
  /\ state \in States /\ mutex \in Callers \cup {None}
  /\ event \in Events
  /\ starts \in 0..MaxStarts /\ reinits \in 0..MaxReinits
  /\ drops \in 0..MaxDrops
  /\ ~ctx => mutex = None /\ ~ctx_initialized

(* WiFi or Ethernet may have left the global flag set.                     *)
LteInit ==
  /\ task_running = FALSE /\ initialized = FALSE
  /\ is_internet_connected \in BOOLEAN
  /\ pc = [p \in Callers |-> IF p = "ctl" THEN "idle" ELSE "off"]
  /\ back = "loop"
  /\ ctx = FALSE /\ state = "DISCONNECTED" /\ ctx_initialized = FALSE
  /\ auto_reconnect = FALSE /\ mutex = None
  /\ ppp = FALSE /\ event = None
  /\ starts = 0 /\ reinits = 0 /\ drops = 0
  /\ late = FALSE /\ cut = FALSE /\ fault = FALSE

Goto(p, l) == pc' = [pc EXCEPT ![p] = l]

(* lte_handler_is_connected                                                *)
lte_handler_is_connected == ctx /\ state = "CONNECTED"

(* What lte_handler_disconnect and deinit take for a link to be stopped.   *)
Linked == state \in {"CONNECTED", "RECONNECTING"}

-----------------------------------------------------------------------------
(* lte_handler_connect.  The mutex, within 5 s ...                         *)
ConnectTake(p, then) ==
  /\ pc[p] = "connect"
  /\ \/ ctx /\ mutex = None /\ mutex' = p /\ Goto(p, "locked")
     \/ (~ctx \/ mutex # None) /\ Goto(p, then) /\ UNCHANGED mutex
  /\ UNCHANGED <<appVars, back, ctx, state, ctx_initialized, auto_reconnect,
                 pppVars, boundVars, history, fault>>

(* Mutant: the mutex is kept on the early return.                          *)
MutantAlready == mutex

Already == None

(* ... and, unless there is a connection already, set_state, which takes   *)
(* the mutex again.  It is not a recursive one: the caller waits for       *)
(* itself, and what follows in lte_handler_connect is never reached.       *)
ConnectLocked(p, then) ==
  /\ pc[p] = "locked"
  /\ \/ state = "CONNECTED" /\ Goto(p, then) /\ mutex' = Already
     \/ state # "CONNECTED" /\ Goto(p, "self") /\ UNCHANGED mutex
  /\ UNCHANGED <<appVars, back, ctx, state, ctx_initialized, auto_reconnect,
                 pppVars, boundVars, history, fault>>

lte_handler_connect(p, then) == ConnectTake(p, then) \/ ConnectLocked(p, then)

(* lte_handler_disconnect: PPP is stopped ...                              *)
DisconnectStop(p, at, wait, then) ==
  /\ pc[p] = at
  /\ IF ctx /\ Linked
       THEN /\ Goto(p, wait)
            /\ ppp' = FALSE
            /\ event' = IF ppp /\ event = None THEN "LOST_IP" ELSE event
       ELSE Goto(p, then) /\ UNCHANGED pppVars
  /\ UNCHANGED <<appVars, back, ctxVars, boundVars, history, fault>>

(* ... and, once that is reported or after 10 s, the state is set, for     *)
(* which the mutex is waited for.                                          *)
DisconnectSet(p, wait, then) ==
  /\ pc[p] = wait
  /\ IF ctx
       THEN /\ mutex = None
            /\ state' = "DISCONNECTED" /\ Goto(p, then)
            /\ UNCHANGED fault
       ELSE fault' = TRUE /\ UNCHANGED <<state, pc>>
  /\ UNCHANGED <<appVars, back, ctx, ctx_initialized, auto_reconnect, mutex,
                 pppVars, boundVars, history>>

(* lte_handler_deinit: no reconnect any more, the link ...                 *)
Deinit(p, then) ==
  /\ pc[p] = "deinit"
  /\ IF ctx
       THEN /\ auto_reconnect' = FALSE
            /\ Goto(p, IF Linked THEN "disc2" ELSE "deinit2")
       ELSE Goto(p, then) /\ UNCHANGED auto_reconnect
  /\ UNCHANGED <<appVars, back, ctx, state, ctx_initialized, mutex, pppVars,
                 boundVars, history, fault>>

(* ... the flag that ends the background task within 100 ms ...            *)
DeinitFlag(p) ==
  /\ pc[p] = "deinit2"
  /\ IF ctx
       THEN ctx_initialized' = FALSE /\ Goto(p, "free") /\ UNCHANGED fault
       ELSE fault' = TRUE /\ UNCHANGED <<ctx_initialized, pc>>
  /\ UNCHANGED <<appVars, back, ctx, state, auto_reconnect, mutex, pppVars,
                 boundVars, history>>

(* Someone else waits for the mutex, or has it.                            *)
Waits(p) ==
  /\ mutex # None
  /\ pc[p] \in {"query", "connect", "locked", "self", "discSet",
                  "discSet2"}

(* The event loop waits for the mutex in set_state, which on_ppp_changed   *)
(* calls only when the state is another one.                               *)
EventWaits ==
  /\ ctx /\ event # None /\ mutex # None
  /\ event = "DEAD" => state # "DISCONNECTED"

(* Mutant: the background task is not deleted.                             *)
MutantBgAfter == pc["bg"]

BgAfter == "off"

(* ... or deletes it; the event loop calls the handler no more, and the    *)
(* context is freed.                                                       *)
Free(p, then) ==
  /\ pc[p] = "free"
  /\ pc' = [pc EXCEPT !["bg"] = BgAfter, ![p] = then]
  /\ fault' = (\/ ~ctx
               \/ EventWaits
               \/ \E q \in {"task", "ctl"} \ {p} : Waits(q))
  /\ cut' = (cut \/ mutex = "bg")
  /\ ctx' = FALSE /\ ctx_initialized' = FALSE /\ mutex' = None
  /\ ppp' = FALSE /\ event' = None
  /\ UNCHANGED <<appVars, back, state, auto_reconnect, boundVars, late>>

(* lte_handler_disconnect and lte_handler_deinit, in a row or by itself.   *)
Teardown(p, then) ==
  \/ DisconnectStop(p, "disc", "discSet", "deinit")
  \/ DisconnectSet(p, "discSet", "deinit")
  \/ Deinit(p, then)
  \/ DisconnectStop(p, "disc2", "discSet2", "deinit2")
  \/ DisconnectSet(p, "discSet2", "deinit2")
  \/ DeinitFlag(p) \/ Free(p, then)
-----------------------------------------------------------------------------
(* lte_task.  The modem has 15 s to come up, or fewer after a stop.        *)
PowerWait ==
  /\ pc["task"] = "power"
  /\ Goto("task", "reinit")
  /\ UNCHANGED <<appVars, back, ctxVars, pppVars, boundVars, history, fault>>

(* lte_init_with_config: what there is goes first ...                      *)
Reinit ==
  /\ pc["task"] = "reinit"
  /\ Goto("task", IF initialized THEN "disc" ELSE "init")
  /\ back' = "init"
  /\ UNCHANGED <<appVars, ctxVars, pppVars, boundVars, history, fault>>

(* ... lte_handler_init: a context that is there is taken as it is ...     *)
InitContext ==
  /\ pc["task"] = "init"
  /\ initialized' = FALSE
  /\ \/ /\ ctx
        /\ Goto("task", "mark")
        /\ UNCHANGED <<ctxVars>>
     \/ /\ ~ctx
        /\ Goto("task", "modem")
        /\ ctx' = TRUE /\ state' = "INITIALIZING" /\ mutex' = None
        /\ ctx_initialized' = TRUE /\ auto_reconnect' \in BOOLEAN
     \/ /\ ~ctx                                   \* no memory
        /\ Goto("task", "loop")
        /\ UNCHANGED <<ctxVars>>
  /\ UNCHANGED <<task_running, is_internet_connected, back, pppVars,
                 boundVars, history, fault>>

(* ... the modem, which may fail and takes its time; the background task   *)
(* is made, and the state set to connected whatever the link is.           *)
InitModem ==
  /\ pc["task"] = "modem"
  /\ IF ctx
       THEN /\ \/ /\ pc' = [pc EXCEPT !["task"] = "mark", !["bg"] = "poll"]
                  /\ mutex = None
                  /\ state' = "CONNECTED" /\ ppp' \in {ppp, TRUE}
                  /\ UNCHANGED back
               \/ /\ Goto("task", "deinit") /\ back' = "loop"
                  /\ UNCHANGED <<state, ppp>>
            /\ UNCHANGED fault
       ELSE fault' = TRUE /\ UNCHANGED <<pc, state, ppp, back>>
  /\ UNCHANGED <<appVars, ctx, ctx_initialized, auto_reconnect, mutex, event,
                 boundVars, history>>

(* ... and a first lte_handler_connect.                                    *)
InitMark ==
  /\ pc["task"] = "mark"
  /\ initialized' = TRUE
  /\ Goto("task", "connect")
  /\ UNCHANGED <<task_running, is_internet_connected, back, ctxVars, pppVars,
                 boundVars, history, fault>>

(* The loop: new settings, or a link that the servers' handlers find dead  *)
(* for three minutes, start all over ...                                   *)
Restart ==
  /\ pc["task"] = "loop" /\ task_running /\ reinits < MaxReinits
  /\ reinits' = reinits + 1
  /\ Goto("task", "reinit")
  /\ UNCHANGED <<appVars, back, ctxVars, pppVars, starts, drops, history,
                 fault>>

(* ... and once a second the state is looked at: without a connection ...  *)
CheckLink ==
  /\ pc["task"] = "loop" /\ task_running /\ initialized
  /\ is_internet_connected' = lte_handler_is_connected
  /\ Goto("task", IF lte_handler_is_connected THEN "loop" ELSE "query")
  /\ UNCHANGED <<task_running, initialized, back, ctxVars, pppVars, boundVars,
                 history, fault>>

(* ... lte_handler_get_state, for a message, waits for the mutex, and a    *)
(* reconnect follows, 10 s after the last one.                             *)
Query ==
  /\ pc["task"] = "query" /\ (ctx => mutex = None)
  /\ Goto("task", "connect")
  /\ UNCHANGED <<appVars, back, ctxVars, pppVars, boundVars, history, fault>>

TaskExit ==
  /\ pc["task"] = "loop" /\ ~task_running
  /\ Goto("task", "off")
  /\ UNCHANGED <<appVars, back, ctxVars, pppVars, boundVars, history, fault>>

lte_task ==
  \/ PowerWait \/ Reinit \/ InitContext \/ InitModem \/ InitMark
  \/ Restart \/ CheckLink \/ Query \/ TaskExit
  \/ lte_handler_connect("task", "loop") \/ Teardown("task", back)

-----------------------------------------------------------------------------
(* lte_connect_task_start: stack and TCB are those of the last task.       *)
lte_connect_task_start ==
  /\ pc["ctl"] = "idle" /\ ~task_running /\ starts < MaxStarts
  /\ starts' = starts + 1
  /\ task_running' = TRUE /\ initialized' = FALSE
  /\ IF pc["task"] = "off"
       THEN Goto("task", "power") /\ UNCHANGED fault
       ELSE fault' = TRUE /\ UNCHANGED pc
  /\ UNCHANGED <<is_internet_connected, back, ctxVars, pppVars, reinits,
                 drops, history>>

(* lte_connect_task_stop: the flag ...                                     *)
StopFlag ==
  /\ pc["ctl"] = "idle" /\ task_running
  /\ task_running' = FALSE
  /\ Goto("ctl", "wait")
  /\ UNCHANGED <<initialized, is_internet_connected, back, ctxVars, pppVars,
                 boundVars, history, fault>>

(* ... a second and a half, enough for a task that only waits or looks     *)
(* around, but not for one inside a call ...                               *)
Waited == pc["task"] \notin {"loop", "power"}

StopWait ==
  /\ pc["ctl"] = "wait" /\ Waited
  /\ Goto("ctl", "clean")
  /\ late' = (late \/ pc["task"] # "off")
  /\ UNCHANGED <<appVars, back, ctxVars, pppVars, boundVars, cut, fault>>

Cleanup ==
  IF ~initialized THEN "cleared"
  ELSE IF lte_handler_is_connected THEN "disc" ELSE "deinit"

(* ... and what is left.                                                   *)
StopClean ==
  /\ pc["ctl"] = "clean"
  /\ Goto("ctl", Cleanup)
  /\ UNCHANGED <<appVars, back, ctxVars, pppVars, boundVars, history, fault>>

StopDone ==
  /\ pc["ctl"] = "cleared"
  /\ initialized' = FALSE
  /\ Goto("ctl", "idle")
  /\ UNCHANGED <<task_running, is_internet_connected, back, ctxVars, pppVars,
                 boundVars, history, fault>>

lte_connect_task_stop ==
  StopWait \/ StopClean \/ StopDone \/ Teardown("ctl", "cleared")

-----------------------------------------------------------------------------
(* lte_handler_bg_task, every 10 s.                                        *)
BgPoll ==
  /\ pc["bg"] = "poll"
  /\ IF ctx /\ ctx_initialized
       THEN auto_reconnect /\ state = "DISCONNECTED" /\ Goto("bg", "attempt")
       ELSE Goto("bg", "off")
  /\ UNCHANGED <<appVars, back, ctxVars, pppVars, boundVars, history, fault>>

BgAttempt ==
  /\ pc["bg"] = "attempt"
  /\ IF ctx
       THEN /\ mutex = None
            /\ state' = "RECONNECTING" /\ Goto("bg", "connect")
            /\ UNCHANGED fault
       ELSE fault' = TRUE /\ UNCHANGED <<state, pc>>
  /\ UNCHANGED <<appVars, back, ctx, ctx_initialized, auto_reconnect, mutex,
                 pppVars, boundVars, history>>

lte_handler_bg_task == BgPoll \/ BgAttempt \/ lte_handler_connect("bg", "poll")

(* The event loop: on_ip_event and on_ppp_changed call set_state once more. *)
on_ip_event ==
  /\ event \in {"GOT_IP", "LOST_IP"} /\ ~EventWaits
  /\ event' = None
  /\ state' = IF ~ctx THEN state
              ELSE IF event = "GOT_IP" THEN "CONNECTED" ELSE "DISCONNECTED"
  /\ UNCHANGED <<appVars, pc, back, ctx, ctx_initialized, auto_reconnect,
                 mutex, ppp, boundVars, history, fault>>

on_ppp_changed ==
  /\ event = "DEAD" /\ ~EventWaits
  /\ event' = None
  /\ state' = IF ctx THEN "DISCONNECTED" ELSE state
  /\ UNCHANGED <<appVars, pc, back, ctx, ctx_initialized, auto_reconnect,
                 mutex, ppp, boundVars, history, fault>>

EventLoop == on_ip_event \/ on_ppp_changed

(* The modem loses the link ...                                            *)
PppDown ==
  /\ ctx /\ ppp /\ event = None /\ drops < MaxDrops
  /\ drops' = drops + 1
  /\ ppp' = FALSE /\ event' = "LOST_IP"
  /\ UNCHANGED <<appVars, pc, back, ctxVars, starts, reinits, history, fault>>

(* ... PPP ends, after a loss or without ever having had a link ...        *)
PppDead ==
  /\ ctx /\ ~ppp /\ event = None /\ drops < MaxDrops
  /\ drops' = drops + 1
  /\ event' = "DEAD"
  /\ UNCHANGED <<appVars, pc, back, ctxVars, ppp, starts, reinits, history,
                 fault>>

(* ... and the modem negotiates a new link.                                *)
PppUp ==
  /\ ctx /\ ctx_initialized /\ ~ppp /\ event = None
  /\ ppp' = TRUE /\ event' = "GOT_IP"
  /\ UNCHANGED <<appVars, pc, back, ctxVars, boundVars, history, fault>>

LteNext ==
  \/ /\ ~fault
     /\ \/ lte_task \/ lte_connect_task_start \/ StopFlag
        \/ lte_connect_task_stop \/ lte_handler_bg_task
        \/ EventLoop \/ PppDown \/ PppDead \/ PppUp
  \/ fault /\ UNCHANGED lteVars

LteSpec == LteInit /\ [][LteNext]_lteVars

(* Every task runs, and the modem finds the network again.                 *)
LteFairSpec ==
  /\ LteSpec
  /\ WF_lteVars(~fault /\ lte_task)
  /\ WF_lteVars(~fault /\ lte_connect_task_stop)
  /\ WF_lteVars(~fault /\ lte_handler_bg_task)
  /\ WF_lteVars(~fault /\ EventLoop)
  /\ WF_lteVars(~fault /\ PppUp)

-----------------------------------------------------------------------------
(* Properties.                                                             *)

(* Someone waits for the mutex that it holds itself.                       *)
SelfLocked == \E p \in Callers : pc[p] = "self"

(* Freed memory is used, and the memory of a living task is given to a new *)
(* one, only after a stop did not wait long enough for lte_task (one that  *)
(* locked itself out never ends in time), or when the background task is   *)
(* deleted in the middle of a reconnect.                                   *)
FaultNeedsCause == fault => late \/ cut

(* A stop that found lte_task ended leaves no context, no background task  *)
(* and no mark of one.                                                     *)
StoppedMeansDown ==
  pc["ctl"] = "idle" /\ ~task_running /\ ~late /\ ~fault =>
    ~ctx /\ ~initialized /\ pc["bg"] = "off"

(* lte_task locks itself out only after the link was lost, a negotiation   *)
(* failed, the link was given up for new settings, or it was taken away by *)
(* a stop that did not wait for it: left alone, the first connect finds a  *)
(* state that says connected, link or no link.                             *)
LockedNeedsTrouble ==
  pc["task"] = "self" => drops > 0 \/ reinits > 0 \/ late

(* The mutex is given back by everyone who does not wait for himself.      *)
MutexGivenBack ==
  \A p \in Callers : mutex = p => pc[p] \in {"locked", "self"}

(* A stop comes to its end, unless a reconnect locked itself out.          *)
StopReturns ==
  pc["ctl"] # "idle" ~> (pc["ctl"] = "idle" \/ SelfLocked \/ fault)

(* "we always want the application-level task to recover PPP": a handler   *)
(* that runs and has lost the link reports a connection again.             *)
PppRecovers ==
  (task_running /\ initialized /\ state = "DISCONNECTED") ~>
    (state = "CONNECTED" \/ ~task_running \/ late)
=============================================================================
