----------------------------- MODULE HttpTasks -----------------------------
(***************************************************************************)
(* Starting and stopping the HTTP handler.  The CoAP handler's start, stop *)
(* and loops are the same text under other names, and what is said here    *)
(* holds for it too.                                                       *)
(*                                                                         *)
(* A start creates the publishing queue, a publishing and a polling task;  *)
(* a stop clears the flags that their loops test and deletes the queue at  *)
(* once.  Other than in MqttTasks nobody waits for the tasks, and a task   *)
(* that is inside a request or a queue's wait learns of the stop later, or *)
(* never, if a start comes first.                                          *)
(*                                                                         *)
(* The internet monitor starts the handler, the main task stops it, the    *)
(* configuration task does both, and no lock keeps them apart: what one of *)
(* them has tested another may change before it acts on it.  Only the      *)
(* allocation of a queue is one step; two starts that allocate at once     *)
(* would share the pointers to the queue's memory as well.                 *)
(***************************************************************************)
EXTENDS Naturals, FiniteSets

CONSTANTS
  HTTP_QUEUE_SIZE,
  Starters,       \* the tasks that start the handler
  Stoppers,       \* the tasks that stop it
  MaxStarts       \* bound: starts that are carried out

ASSUME SizeAssumption   == HTTP_QUEUE_SIZE \in Nat \ {0}
ASSUME BoundsAssumption == MaxStarts \in Nat

Callers == Starters \cup Stoppers
Starts == 1..MaxStarts
NULL == 0

VARIABLES
  s_task_running, s_polling_running,
  s_http_server_connected,
  g_http_publish_queue,     \* the start that created it, or NULL
  live,                     \* the queues that exist
  queued,                   \* items in each
  pub, in_hand,             \* publishing tasks, and the queue each waits on
  poll,                     \* polling tasks
  ctl,                      \* where each caller is in a start or a stop
  run,                      \* the start each caller is in, or NULL
  starts,
  enq, enq_queue,           \* the uplink task in http_enqueue_telemetry
  carried,                  \* history, until crossed: a task was in its
                            \*   round at a stop
  quick,                    \* history, until doubled: a start met tasks that
                            \*   were stopped
  doubled,                  \* history: two starts at the same time
  crossed,                  \* history: a stop, and a start or another stop
  short,                    \* history: memory was missing
  caught,                   \* history, until crossed: the queue was deleted
                            \*   under its user
  fault                     \* NULL or a deleted queue was used: panic

flagVars == <<s_task_running, s_polling_running, s_http_server_connected>>
ctlVars  == <<ctl, run, starts>>
queVars  == <<g_http_publish_queue, live, queued>>
pubVars  == <<pub, in_hand>>
enqVars  == <<enq, enq_queue>>
meetVars == <<doubled, crossed>>
histVars == <<carried, quick, meetVars, short, caught>>
vars == <<flagVars, ctlVars, queVars, pubVars, poll, enqVars, histVars, fault>>

(* The points of a start, and of a stop, at which its caller may be.       *)
StartPoints == {"queue", "create", "flags", "publish", "poll"}
StopPoints  == {"delete", "null"}

(* The values every variable may take.                                     *)
TypeOK ==
  /\ {s_task_running, s_polling_running, s_http_server_connected, carried,
      quick, doubled, crossed, short, caught, fault} \subseteq BOOLEAN
  /\ g_http_publish_queue \in {NULL} \cup Starts
  /\ live \subseteq Starts
  /\ queued \in [Starts -> 0..HTTP_QUEUE_SIZE]
  /\ pub \in [Starts -> {"none", "check", "call", "receive", "request",
                         "done"}]
  /\ in_hand \in [Starts -> {NULL} \cup Starts]
  /\ poll \in [Starts -> {"none", "check", "request", "done"}]
  /\ ctl \in [Callers -> {"idle"} \cup StartPoints \cup StopPoints]
  /\ run \in [Callers -> {NULL} \cup Starts] /\ starts \in 0..MaxStarts
  /\ enq \in {"idle", "call", "send"}
  /\ enq_queue \in {NULL} \cup Starts

Init ==
  /\ s_task_running = FALSE /\ s_polling_running = FALSE
  /\ s_http_server_connected = FALSE
  /\ g_http_publish_queue = NULL /\ live = {}
  /\ queued = [q \in Starts |-> 0]
  /\ pub = [i \in Starts |-> "none"] /\ in_hand = [i \in Starts |-> NULL]
  /\ poll = [i \in Starts |-> "none"]
  /\ ctl = [c \in Callers |-> "idle"] /\ run = [c \in Callers |-> NULL]
  /\ starts = 0
  /\ enq = "idle" /\ enq_queue = NULL
  /\ carried = FALSE /\ quick = FALSE /\ doubled = FALSE /\ crossed = FALSE
  /\ short = FALSE /\ caught = FALSE /\ fault = FALSE

Alive(tasks) == {i \in Starts : tasks[i] \notin {"none", "done"}}

InStart == {c \in Callers : ctl[c] \in StartPoints}
InStop  == {c \in Callers : ctl[c] \in StopPoints}

Goto(c, point) == ctl' = [ctl EXCEPT ![c] = point] /\ UNCHANGED run
Leave(c) == ctl' = [ctl EXCEPT ![c] = "idle"] /\ run' = [run EXCEPT ![c] = NULL]

-----------------------------------------------------------------------------
(* Mutant: a handler that runs is started again.                           *)
MutantRefused == FALSE

Refused == s_task_running

(* http_handler_task_start: the flag is tested ...                         *)
StartTest(c) ==
  /\ c \in Starters /\ ctl[c] = "idle" /\ ~Refused /\ starts < MaxStarts
  /\ ctl' = [ctl EXCEPT ![c] = "queue"]
  /\ starts' = starts + 1
  /\ run' = [run EXCEPT ![c] = starts']
  /\ doubled' = (doubled \/ InStart # {})
  /\ crossed' = (crossed \/ InStop # {})
  /\ UNCHANGED <<flagVars, queVars, pubVars, poll, enqVars, carried, quick,
                 short, caught, fault>>

(* ... then the handle ...                                                 *)
StartHandle(c) ==
  /\ ctl[c] = "queue"
  /\ Goto(c, IF g_http_publish_queue = NULL THEN "create" ELSE "flags")
  /\ UNCHANGED <<flagVars, starts, queVars, pubVars, poll, enqVars,
                 histVars, fault>>

(* ... a queue is created; without memory the start ends, unless another   *)
(* one has made a queue since ...                                          *)
StartQueue(c) ==
  /\ ctl[c] = "create"
  /\ \/ /\ Goto(c, "flags")
        /\ g_http_publish_queue' = run[c]
        /\ live' = live \cup {run[c]}
        /\ UNCHANGED short
     \/ /\ IF g_http_publish_queue = NULL
             THEN Leave(c) ELSE Goto(c, "flags")
        /\ short' = TRUE
        /\ UNCHANGED <<g_http_publish_queue, live>>
  /\ UNCHANGED <<flagVars, starts, queued, pubVars, poll, enqVars,
                 carried, quick, meetVars, caught, fault>>

(* ... the flags are set ...                                               *)
StartFlags(c) ==
  /\ ctl[c] = "flags"
  /\ Goto(c, "publish")
  /\ s_http_server_connected' = FALSE
  /\ s_task_running' = TRUE
  /\ quick' = (quick \/ (~doubled /\ ~s_task_running
                         /\ Alive(pub) \cup Alive(poll) # {}))
  /\ UNCHANGED <<s_polling_running, starts, queVars, pubVars, poll,
                 enqVars, carried, meetVars, short, caught, fault>>

(* ... and the tasks created; without memory, for a task or for the        *)
(* publishing task's buffers, the handler runs without it.                 *)
StartPublish(c) ==
  /\ ctl[c] = "publish"
  /\ Goto(c, "poll")
  /\ \/ pub' = [pub EXCEPT ![run[c]] = "check"] /\ UNCHANGED short
     \/ UNCHANGED pub /\ short' = TRUE
  /\ UNCHANGED <<flagVars, starts, queVars, in_hand, poll, enqVars,
                 carried, quick, meetVars, caught, fault>>

StartPoll(c) ==
  /\ ctl[c] = "poll"
  /\ Leave(c)
  /\ s_polling_running' = TRUE
  /\ \/ poll' = [poll EXCEPT ![run[c]] = "check"] /\ UNCHANGED short
     \/ UNCHANGED poll /\ short' = TRUE
  /\ UNCHANGED <<s_task_running, s_http_server_connected, starts,
                 queVars, pubVars, enqVars, carried, quick, meetVars, caught,
                 fault>>

(* A task is past the test of its loop, with a request to come.            *)
InRound ==
  \E i \in Starts : \/ pub[i] \in {"call", "receive", "request"}
                    \/ poll[i] = "request"

(* http_handler_task_stop, which tests nothing: the flags ...              *)
StopFlags(c) ==
  /\ c \in Stoppers /\ ctl[c] = "idle"
  /\ Goto(c, "delete")
  /\ s_task_running' = FALSE /\ s_polling_running' = FALSE
  /\ s_http_server_connected' = FALSE
  /\ crossed' = (crossed \/ InStart \cup InStop # {})
  /\ carried' = (carried \/ (InRound /\ ~crossed'))
  /\ UNCHANGED <<starts, queVars, pubVars, poll, enqVars, quick, doubled,
                 short, caught, fault>>

(* Someone has the queue in hand, or has tested what allows its use.       *)
InUse ==
  \/ enq # "idle"
  \/ \E i \in Starts : pub[i] \in {"call", "receive"}

(* ... at once the queue, if there is one ...                              *)
StopDelete(c) ==
  /\ ctl[c] = "delete"
  /\ IF g_http_publish_queue = NULL
       THEN Goto(c, "idle") /\ UNCHANGED <<live, queued, caught, fault>>
       ELSE /\ Goto(c, "null")
            /\ live' = live \ {g_http_publish_queue}
            /\ queued' = [queued EXCEPT ![g_http_publish_queue] = 0]
            /\ caught' = (caught \/ (InUse /\ ~crossed))
            /\ fault' = (g_http_publish_queue \notin live)
  /\ UNCHANGED <<flagVars, starts, g_http_publish_queue, pubVars, poll,
                 enqVars, carried, quick, meetVars, short>>

(* Mutant: the handle of the deleted queue is kept.                        *)
MutantDeleted == g_http_publish_queue

Deleted == NULL

(* ... and its handle.                                                     *)
StopNull(c) ==
  /\ ctl[c] = "null"
  /\ Goto(c, "idle")
  /\ g_http_publish_queue' = Deleted
  /\ caught' = (caught \/ (InUse /\ ~crossed))
  /\ UNCHANGED <<flagVars, starts, live, queued, pubVars, poll, enqVars,
                 carried, quick, meetVars, short, fault>>

(* The rest of a start or of a stop, once begun.                           *)
Proceed(c) ==
  \/ StartHandle(c) \/ StartQueue(c) \/ StartFlags(c) \/ StartPublish(c)
  \/ StartPoll(c) \/ StopDelete(c) \/ StopNull(c)

-----------------------------------------------------------------------------
(* http_publish_task: the loop's test ...                                  *)
PublishCheck(i) ==
  /\ pub[i] = "check"
  /\ pub' = [pub EXCEPT ![i] = IF s_task_running THEN "call" ELSE "done"]
  /\ UNCHANGED <<flagVars, ctlVars, queVars, in_hand, poll, enqVars,
                 histVars, fault>>

(* ... the call, which asserts that there is a queue ...                   *)
PublishCall(i) ==
  /\ pub[i] = "call"
  /\ pub' = [pub EXCEPT ![i] = "receive"]
  /\ in_hand' = [in_hand EXCEPT ![i] = g_http_publish_queue]
  /\ fault' = (g_http_publish_queue = NULL)
  /\ UNCHANGED <<flagVars, ctlVars, queVars, poll, enqVars,
                 histVars>>

(* ... and an item, or none within 500 ms.                                 *)
PublishReceive(i) ==
  /\ pub[i] = "receive"
  /\ in_hand' = [in_hand EXCEPT ![i] = NULL]
  /\ IF in_hand[i] \notin live
       THEN fault' = TRUE /\ UNCHANGED <<queued, pub>>
       ELSE /\ UNCHANGED fault
            /\ \/ /\ queued[in_hand[i]] = 0
                  /\ pub' = [pub EXCEPT ![i] = "check"]
                  /\ UNCHANGED queued
               \/ /\ queued[in_hand[i]] > 0
                  /\ queued' = [queued EXCEPT ![in_hand[i]] = @ - 1]
                  /\ pub' = [pub EXCEPT ![i] = "request"]
  /\ UNCHANGED <<flagVars, ctlVars, g_http_publish_queue, live, poll, enqVars,
                 histVars>>

(* What a request leaves in s_http_server_connected; the POST of an answer *)
(* to a command leaves it alone.                                           *)
Report == {TRUE, FALSE, s_http_server_connected}

(* Mutant: the task ends with a request that failed.                       *)
MutantPublishRequest(i) ==
  /\ pub[i] = "request"
  /\ s_http_server_connected' \in Report
  /\ pub' = [pub EXCEPT ![i] = IF s_http_server_connected' THEN "check"
                                                         ELSE "done"]
  /\ UNCHANGED <<s_task_running, s_polling_running, ctlVars, queVars, in_hand,
                 poll, enqVars, histVars, fault>>

(* Without memory for the text of an answer the task ends.                 *)
PublishRequest(i) ==
  /\ pub[i] = "request"
  /\ \/ /\ pub' = [pub EXCEPT ![i] = "check"]
        /\ s_http_server_connected' \in Report
        /\ UNCHANGED short
     \/ /\ pub' = [pub EXCEPT ![i] = "done"]
        /\ short' = TRUE
        /\ UNCHANGED s_http_server_connected
  /\ UNCHANGED <<s_task_running, s_polling_running, ctlVars, queVars, in_hand,
                 poll, enqVars, carried, quick, meetVars, caught, fault>>

http_publish_task(i) ==
  \/ PublishCheck(i) \/ PublishCall(i) \/ PublishReceive(i)
  \/ PublishRequest(i)

NextPoll == IF s_polling_running THEN "request" ELSE "done"

(* http_polling_task, after its first delay.                               *)
PollCheck(i) ==
  /\ poll[i] = "check"
  /\ poll' = [poll EXCEPT ![i] = NextPoll]
  /\ UNCHANGED <<flagVars, ctlVars, queVars, pubVars, enqVars,
                 histVars, fault>>

PollRequest(i) ==
  /\ poll[i] = "request"
  /\ poll' = [poll EXCEPT ![i] = "check"]
  /\ s_http_server_connected' \in Report
  /\ UNCHANGED <<s_task_running, s_polling_running, ctlVars, queVars, pubVars,
                 enqVars, histVars, fault>>

http_polling_task(i) == PollCheck(i) \/ PollRequest(i)

-----------------------------------------------------------------------------
(* http_enqueue_telemetry, in the uplink task: the handle is tested, read  *)
(* again for the call, and held for up to 250 ms.                          *)
EnqueueCheck ==
  /\ enq = "idle" /\ g_http_publish_queue # NULL
  /\ enq' = "call"
  /\ UNCHANGED <<flagVars, ctlVars, queVars, pubVars, poll,
                 enq_queue, histVars, fault>>

EnqueueCall ==
  /\ enq = "call"
  /\ enq' = "send" /\ enq_queue' = g_http_publish_queue
  /\ fault' = (g_http_publish_queue = NULL)
  /\ UNCHANGED <<flagVars, ctlVars, queVars, pubVars, poll,
                 histVars>>

QueueFull(q) == queued[q] >= HTTP_QUEUE_SIZE

EnqueueSend ==
  /\ enq = "send"
  /\ enq' = "idle" /\ enq_queue' = NULL
  /\ IF enq_queue \notin live
       THEN fault' = TRUE /\ UNCHANGED queued
       ELSE /\ UNCHANGED fault
            /\ queued' = IF QueueFull(enq_queue) THEN queued
                         ELSE [queued EXCEPT ![enq_queue] = @ + 1]
  /\ UNCHANGED <<flagVars, ctlVars, g_http_publish_queue, live, pubVars, poll,
                 histVars>>

http_enqueue_telemetry == EnqueueCheck \/ EnqueueCall \/ EnqueueSend

Next ==
  /\ ~fault
  /\ \/ \E c \in Callers : StartTest(c) \/ StopFlags(c) \/ Proceed(c)
     \/ \E i \in Starts : http_publish_task(i) \/ http_polling_task(i)
     \/ http_enqueue_telemetry

Spec == Init /\ [][Next]_vars

(* Every task runs; requests end by their timeouts.                        *)
FairSpec ==
  /\ Spec
  /\ \A c \in Callers : WF_vars(~fault /\ Proceed(c))
  /\ \A i \in Starts : /\ WF_vars(~fault /\ http_publish_task(i))
                       /\ WF_vars(~fault /\ http_polling_task(i))

-----------------------------------------------------------------------------
(* Properties.                                                             *)

(* NULL or a deleted queue is used only by who was between the test of the *)
(* flag or of the handle and the return of the call when a stop deleted    *)
(* the queue and cleared the handle, or if the stop met a start or another *)
(* stop.  Nothing else needs a lock: neither a later start or stop nor two *)
(* starts at once add to it.                                               *)
FaultNeedsCatch == fault => caught \/ crossed \/ \E c \in Callers : ctl[c] = "null"

(* A stopped handler reports no connection, unless a task that was in its  *)
(* round at a stop had a request answered after it, or a stop met a start. *)
OfflineUnlessCarried ==
  s_http_server_connected => s_task_running \/ carried \/ crossed

(* There is one publishing and one polling task at most, unless two starts *)
(* met, or one came before the tasks of an earlier one had seen the flag.  *)
(* That a stop and a start meet does no harm here.                         *)
OneOfEachUnlessQuick ==
  \/ quick \/ doubled
  \/ Cardinality(Alive(pub)) <= 1 /\ Cardinality(Alive(poll)) <= 1

(* A stop ends every task of the handler, if no start comes.               *)
StopEnds ==
  ~s_task_running ~>
    s_task_running \/ fault \/ crossed \/ Alive(pub) \cup Alive(poll) = {}

Full == g_http_publish_queue # NULL /\ queued[g_http_publish_queue] = HTTP_QUEUE_SIZE

(* A full queue has room again or is replaced, whatever the requests come  *)
(* to and however the handler is stopped and started, unless memory was    *)
(* missing.                                                                *)
RoomAgain == Full ~> (~Full \/ short \/ fault)
=============================================================================
