-------------------------- MODULE HttpTasksProofs --------------------------
(***************************************************************************)
(* Proofs for HttpTasks, for every size of the queue, any sets of tasks    *)
(* that start and stop the handler, and any number of starts.              *)
(***************************************************************************)
EXTENDS HttpTasks, FiniteSetTheorems, TLAPS

(* TypeOK by kind: control points, Booleans, numbers.                      *)
Control ==
  /\ pub \in [Starts -> {"none", "check", "call", "receive", "request",
                         "done"}]
  /\ poll \in [Starts -> {"none", "check", "request", "done"}]
  /\ ctl \in [Callers -> {"idle"} \cup StartPoints \cup StopPoints]
  /\ enq \in {"idle", "call", "send"}

Flags ==
  /\ s_task_running \in BOOLEAN /\ s_polling_running \in BOOLEAN
  /\ s_http_server_connected \in BOOLEAN
  /\ carried \in BOOLEAN /\ quick \in BOOLEAN
  /\ doubled \in BOOLEAN /\ crossed \in BOOLEAN
  /\ short \in BOOLEAN /\ caught \in BOOLEAN /\ fault \in BOOLEAN

Numbers ==
  /\ starts \in 0..MaxStarts
  /\ run \in [Callers -> {NULL} \cup Starts]
  /\ g_http_publish_queue \in {NULL} \cup Starts
  /\ live \subseteq Starts
  /\ queued \in [Starts -> 0..HTTP_QUEUE_SIZE]
  /\ in_hand \in [Starts -> {NULL} \cup Starts]
  /\ enq_queue \in {NULL} \cup Starts

(* A caller that is in a start knows its number.                           *)
Numbered == \A c \in Callers : ctl[c] \in StartPoints => run[c] \in Starts

(* A stop has met nobody: it is alone.                                     *)
Alone ==
  ~crossed =>
    \A c, d \in Callers : ctl[c] \in StopPoints /\ c # d => ctl[d] = "idle"

(* No two starts have met: one caller at most is in a start, and until it  *)
(* sets the flag nobody else does.                                         *)
OneStart ==
  ~doubled =>
    /\ \A c, d \in InStart : c = d
    /\ \A c \in Callers :
         ctl[c] \in {"queue", "create", "flags"} => ~s_task_running

(* As long as no stop has met anyone, a handle that is set is that of a    *)
(* queue which exists, but inside a stop; a handler that runs has one; and *)
(* the flags go up in a start and down in a stop.                          *)
QueueOfRun ==
  ~crossed =>
    /\ g_http_publish_queue # NULL /\ (\A c \in Callers : ctl[c] # "null")
         => g_http_publish_queue \in live
    /\ s_task_running => g_http_publish_queue # NULL
    /\ s_polling_running => s_task_running
    /\ \A c \in Callers :
         /\ ctl[c] = "flags" => g_http_publish_queue # NULL
         /\ ctl[c] \in {"publish", "poll"} => s_task_running
         /\ ctl[c] \in StopPoints => ~s_task_running

(* Who has tested the flag or the handle finds the queue, until a stop     *)
(* catches someone or meets another caller.                                *)
Users ==
  ~caught /\ ~crossed /\ (\A c \in Callers : ctl[c] # "null") =>
    /\ ~fault
    /\ \A i \in Starts :
         /\ pub[i] \in {"call", "receive"} => g_http_publish_queue # NULL
         /\ pub[i] = "receive" => in_hand[i] \in live
    /\ enq # "idle" => g_http_publish_queue # NULL
    /\ enq = "send" => enq_queue \in live

(* A task is in its round while the handler runs, or was there at a stop.  *)
Rounds ==
  /\ InRound => s_task_running \/ carried \/ crossed
  /\ OfflineUnlessCarried

(* One task of each kind, said of its members: when a start creates one    *)
(* there is none.                                                          *)
OneOfEach ==
  ~quick /\ ~doubled =>
    /\ \A i, j \in Alive(pub) : i = j
    /\ \A i, j \in Alive(poll) : i = j
    /\ \A c \in Callers :
         /\ ctl[c] = "publish" => Alive(pub) = {}
         /\ ctl[c] \in {"publish", "poll"} => Alive(poll) = {}

(* The inductive invariant.                                                *)
Inv ==
  /\ Control /\ Flags /\ Numbers /\ Numbered
  /\ Alone /\ OneStart /\ QueueOfRun /\ Users /\ Rounds /\ OneOfEach

-----------------------------------------------------------------------------
(* TypeOK in parts.                                                        *)
LEMMA TypeParts == TypeOK <=> Control /\ Flags /\ Numbers
<1>1. Flags <=> {s_task_running, s_polling_running, s_http_server_connected,
                 carried, quick, doubled, crossed, short, caught, fault}
                  \subseteq BOOLEAN
  BY DEF Flags
<1> QED BY <1>1 DEF TypeOK, Control, Numbers

(* Before the first start nothing exists and no task is alive.             *)
LEMMA InitInv == Init => Inv
<1> SUFFICES ASSUME Init PROVE Inv
  OBVIOUS
<1>1. Control
  BY DEF Init, Control
<1>2. Flags
  BY Zenon DEF Init, Flags
<1>3. Numbers
  BY SizeAssumption, BoundsAssumption DEF Init, Numbers, NULL
<1>4. Numbered /\ Alone /\ OneStart /\ QueueOfRun
  BY DEF Init, Numbered, Alone, OneStart, QueueOfRun, InStart, StartPoints,
         StopPoints
<1>5. Users /\ Rounds
  BY DEF Init, Users, Rounds, InRound, OfflineUnlessCarried
<1>6. OneOfEach
  BY DEF Init, OneOfEach, Alive
<1> QED BY <1>1, <1>2, <1>3, <1>4, <1>5, <1>6 DEF Inv

(* Every step keeps the control points in their sets.                      *)
LEMMA ControlStep ==
  ASSUME Control, Numbers, [Next]_vars PROVE Control'
<1> USE DEF Control, StartPoints, StopPoints, flagVars, ctlVars, queVars,
            pubVars, enqVars, meetVars, histVars
<1>1. ASSUME NEW c \in Callers, StartTest(c) PROVE Control'
  BY <1>1 DEF StartTest, Refused
<1>2. ASSUME NEW c \in Callers, StartHandle(c) PROVE Control'
  BY <1>2 DEF StartHandle, Goto
<1>3. ASSUME NEW c \in Callers, StartQueue(c) PROVE Control'
  BY <1>3 DEF StartQueue, Goto, Leave
<1>4. ASSUME NEW c \in Callers, StartFlags(c) PROVE Control'
  BY <1>4 DEF StartFlags, Goto
<1>5. ASSUME NEW c \in Callers, StartPublish(c) PROVE Control'
  BY <1>5 DEF StartPublish, Goto
<1>6. ASSUME NEW c \in Callers, StartPoll(c) PROVE Control'
  BY <1>6 DEF StartPoll, Leave
<1>7. ASSUME NEW c \in Callers, StopFlags(c) PROVE Control'
  BY <1>7 DEF StopFlags, Goto
<1>8. ASSUME NEW c \in Callers, StopDelete(c) PROVE Control'
  BY <1>8 DEF StopDelete, Goto
<1>9. ASSUME NEW c \in Callers, StopNull(c) PROVE Control'
  BY <1>9 DEF StopNull, Goto, Deleted
<1>10. ASSUME NEW i \in Starts, PublishCheck(i) PROVE Control'
  BY <1>10 DEF PublishCheck
<1>11. ASSUME NEW i \in Starts, PublishCall(i) PROVE Control'
  BY <1>11 DEF PublishCall
<1>12. ASSUME NEW i \in Starts, PublishReceive(i) PROVE Control'
  BY <1>12 DEF PublishReceive
<1>13. ASSUME NEW i \in Starts, PublishRequest(i) PROVE Control'
  BY <1>13 DEF PublishRequest, Report
<1>14. ASSUME NEW i \in Starts, PollCheck(i) PROVE Control'
  BY <1>14 DEF PollCheck, NextPoll
<1>15. ASSUME NEW i \in Starts, PollRequest(i) PROVE Control'
  BY <1>15 DEF PollRequest, Report
<1>16. CASE EnqueueCheck
  BY <1>16 DEF EnqueueCheck
<1>17. CASE EnqueueCall
  BY <1>17 DEF EnqueueCall
<1>18. CASE EnqueueSend
  BY <1>18 DEF EnqueueSend, QueueFull
<1>19. CASE UNCHANGED vars
  BY <1>19 DEF vars
<1> QED
  BY <1>1, <1>2, <1>3, <1>4, <1>5, <1>6, <1>7, <1>8, <1>9, <1>10,
     <1>11, <1>12, <1>13, <1>14, <1>15, <1>16, <1>17, <1>18, <1>19
  DEF Next, Proceed, http_publish_task, http_polling_task,
      http_enqueue_telemetry

(* Every step keeps the flags Boolean.                                     *)
LEMMA FlagsStep ==
  ASSUME Flags, [Next]_vars PROVE Flags'
<1> USE DEF Flags, flagVars, ctlVars, queVars, pubVars, enqVars, meetVars,
            histVars
<1>1. ASSUME NEW c \in Callers, StartTest(c) PROVE Flags'
  BY <1>1, Zenon DEF StartTest, Refused
<1>2. ASSUME NEW c \in Callers, StartHandle(c) PROVE Flags'
  BY <1>2, Zenon DEF StartHandle, Goto
<1>3. ASSUME NEW c \in Callers, StartQueue(c) PROVE Flags'
  BY <1>3, Zenon DEF StartQueue, Goto, Leave
<1>4. ASSUME NEW c \in Callers, StartFlags(c) PROVE Flags'
  BY <1>4, Zenon DEF StartFlags, Goto
<1>5. ASSUME NEW c \in Callers, StartPublish(c) PROVE Flags'
  BY <1>5, Zenon DEF StartPublish, Goto
<1>6. ASSUME NEW c \in Callers, StartPoll(c) PROVE Flags'
  BY <1>6, Zenon DEF StartPoll, Leave
<1>7. ASSUME NEW c \in Callers, StopFlags(c) PROVE Flags'
  BY <1>7, Zenon DEF StopFlags, Goto
<1>8. ASSUME NEW c \in Callers, StopDelete(c) PROVE Flags'
  BY <1>8, Zenon DEF StopDelete, Goto
<1>9. ASSUME NEW c \in Callers, StopNull(c) PROVE Flags'
  BY <1>9, Zenon DEF StopNull, Goto, Deleted
<1>10. ASSUME NEW i \in Starts, PublishCheck(i) PROVE Flags'
  BY <1>10, Zenon DEF PublishCheck
<1>11. ASSUME NEW i \in Starts, PublishCall(i) PROVE Flags'
  BY <1>11, Zenon DEF PublishCall
<1>12. ASSUME NEW i \in Starts, PublishReceive(i) PROVE Flags'
  BY <1>12, Zenon DEF PublishReceive
<1>13. ASSUME NEW i \in Starts, PublishRequest(i) PROVE Flags'
  BY <1>13, Zenon DEF PublishRequest, Report
<1>14. ASSUME NEW i \in Starts, PollCheck(i) PROVE Flags'
  BY <1>14, Zenon DEF PollCheck, NextPoll
<1>15. ASSUME NEW i \in Starts, PollRequest(i) PROVE Flags'
  BY <1>15, Zenon DEF PollRequest, Report
<1>16. CASE EnqueueCheck
  BY <1>16, Zenon DEF EnqueueCheck
<1>17. CASE EnqueueCall
  BY <1>17, Zenon DEF EnqueueCall
<1>18. CASE EnqueueSend
  BY <1>18, Zenon DEF EnqueueSend, QueueFull
<1>19. CASE UNCHANGED vars
  BY <1>19, Zenon DEF vars
<1> QED
  BY <1>1, <1>2, <1>3, <1>4, <1>5, <1>6, <1>7, <1>8, <1>9, <1>10,
     <1>11, <1>12, <1>13, <1>14, <1>15, <1>16, <1>17, <1>18, <1>19
  DEF Next, Proceed, http_publish_task, http_polling_task,
      http_enqueue_telemetry

(* Every step keeps the handles and the numbers of items in range.         *)
LEMMA NumbersStep ==
  ASSUME Numbers, Numbered, [Next]_vars PROVE Numbers'
<1> USE DEF Numbers, flagVars, ctlVars, queVars, pubVars, enqVars, meetVars,
            histVars
<1>1. ASSUME NEW c \in Callers, StartTest(c) PROVE Numbers'
  BY <1>1, BoundsAssumption DEF StartTest, Refused, Starts, NULL
<1>2. ASSUME NEW c \in Callers, StartHandle(c) PROVE Numbers'
  BY <1>2 DEF StartHandle, Goto
<1>3. ASSUME NEW c \in Callers, StartQueue(c) PROVE Numbers'
  BY <1>3 DEF StartQueue, Goto, Leave, Numbered, StartPoints
<1>4. ASSUME NEW c \in Callers, StartFlags(c) PROVE Numbers'
  BY <1>4 DEF StartFlags, Goto
<1>5. ASSUME NEW c \in Callers, StartPublish(c) PROVE Numbers'
  BY <1>5 DEF StartPublish, Goto
<1>6. ASSUME NEW c \in Callers, StartPoll(c) PROVE Numbers'
  BY <1>6 DEF StartPoll, Leave
<1>7. ASSUME NEW c \in Callers, StopFlags(c) PROVE Numbers'
  BY <1>7 DEF StopFlags, Goto
<1>8. ASSUME NEW c \in Callers, StopDelete(c) PROVE Numbers'
  BY <1>8, SizeAssumption DEF StopDelete, Goto, NULL
<1>9. ASSUME NEW c \in Callers, StopNull(c) PROVE Numbers'
  BY <1>9 DEF StopNull, Goto, Deleted
<1>10. ASSUME NEW i \in Starts, PublishCheck(i) PROVE Numbers'
  BY <1>10 DEF PublishCheck
<1>11. ASSUME NEW i \in Starts, PublishCall(i) PROVE Numbers'
  BY <1>11 DEF PublishCall
<1>12. ASSUME NEW i \in Starts, PublishReceive(i) PROVE Numbers'
  BY <1>12, SizeAssumption DEF PublishReceive, NULL
<1>13. ASSUME NEW i \in Starts, PublishRequest(i) PROVE Numbers'
  BY <1>13 DEF PublishRequest, Report
<1>14. ASSUME NEW i \in Starts, PollCheck(i) PROVE Numbers'
  BY <1>14 DEF PollCheck, NextPoll
<1>15. ASSUME NEW i \in Starts, PollRequest(i) PROVE Numbers'
  BY <1>15 DEF PollRequest, Report
<1>16. CASE EnqueueCheck
  BY <1>16 DEF EnqueueCheck
<1>17. CASE EnqueueCall
  BY <1>17 DEF EnqueueCall
<1>18. CASE EnqueueSend
  BY <1>18, SizeAssumption DEF EnqueueSend, QueueFull, NULL
<1>19. CASE UNCHANGED vars
  BY <1>19 DEF vars
<1> QED
  BY <1>1, <1>2, <1>3, <1>4, <1>5, <1>6, <1>7, <1>8, <1>9, <1>10,
     <1>11, <1>12, <1>13, <1>14, <1>15, <1>16, <1>17, <1>18, <1>19
  DEF Next, Proceed, http_publish_task, http_polling_task,
      http_enqueue_telemetry

(* Every step leaves a start its number.                                   *)
LEMMA NumberedStep ==
  ASSUME Control, Numbers, Numbered, [Next]_vars PROVE Numbered'
<1> USE DEF Control, Numbers, Numbered, StartPoints, flagVars, ctlVars,
            queVars, pubVars, enqVars, meetVars, histVars
<1>1. ASSUME NEW c \in Callers, StartTest(c) PROVE Numbered'
  BY <1>1, BoundsAssumption DEF StartTest, Refused, Starts
<1>2. ASSUME NEW c \in Callers, StartHandle(c) PROVE Numbered'
  BY <1>2 DEF StartHandle, Goto
<1>3. ASSUME NEW c \in Callers, StartQueue(c) PROVE Numbered'
  BY <1>3 DEF StartQueue, Goto, Leave
<1>4. ASSUME NEW c \in Callers, StartFlags(c) PROVE Numbered'
  BY <1>4 DEF StartFlags, Goto
<1>5. ASSUME NEW c \in Callers, StartPublish(c) PROVE Numbered'
  BY <1>5 DEF StartPublish, Goto
<1>6. ASSUME NEW c \in Callers, StartPoll(c) PROVE Numbered'
  BY <1>6 DEF StartPoll, Leave
<1>7. ASSUME NEW c \in Callers, StopFlags(c) PROVE Numbered'
  BY <1>7 DEF StopFlags, Goto, StopPoints
<1>8. ASSUME NEW c \in Callers, StopDelete(c) PROVE Numbered'
  BY <1>8 DEF StopDelete, Goto, StopPoints
<1>9. ASSUME NEW c \in Callers, StopNull(c) PROVE Numbered'
  BY <1>9 DEF StopNull, Goto, Deleted, StopPoints
<1>10. ASSUME NEW i \in Starts, PublishCheck(i) PROVE Numbered'
  BY <1>10 DEF PublishCheck
<1>11. ASSUME NEW i \in Starts, PublishCall(i) PROVE Numbered'
  BY <1>11 DEF PublishCall
<1>12. ASSUME NEW i \in Starts, PublishReceive(i) PROVE Numbered'
  BY <1>12 DEF PublishReceive
<1>13. ASSUME NEW i \in Starts, PublishRequest(i) PROVE Numbered'
  BY <1>13 DEF PublishRequest, Report
<1>14. ASSUME NEW i \in Starts, PollCheck(i) PROVE Numbered'
  BY <1>14 DEF PollCheck, NextPoll
<1>15. ASSUME NEW i \in Starts, PollRequest(i) PROVE Numbered'
  BY <1>15 DEF PollRequest, Report
<1>16. CASE EnqueueCheck
  BY <1>16 DEF EnqueueCheck
<1>17. CASE EnqueueCall
  BY <1>17 DEF EnqueueCall
<1>18. CASE EnqueueSend
  BY <1>18 DEF EnqueueSend, QueueFull
<1>19. CASE UNCHANGED vars
  BY <1>19 DEF vars
<1> QED
  BY <1>1, <1>2, <1>3, <1>4, <1>5, <1>6, <1>7, <1>8, <1>9, <1>10,
     <1>11, <1>12, <1>13, <1>14, <1>15, <1>16, <1>17, <1>18, <1>19
  DEF Next, Proceed, http_publish_task, http_polling_task,
      http_enqueue_telemetry

(* Every step keeps a stop alone, or has recorded whom it met.             *)
LEMMA AloneStep ==
  ASSUME Control, Flags, Alone, [Next]_vars PROVE Alone'
<1> USE DEF Control, Flags, Alone, InStart, InStop, StartPoints, StopPoints,
            flagVars, ctlVars, queVars, pubVars, enqVars, meetVars, histVars
<1>1. ASSUME NEW c \in Callers, StartTest(c) PROVE Alone'
  BY <1>1 DEF StartTest, Refused
<1>2. ASSUME NEW c \in Callers, StartHandle(c) PROVE Alone'
  BY <1>2 DEF StartHandle, Goto
<1>3. ASSUME NEW c \in Callers, StartQueue(c) PROVE Alone'
  BY <1>3 DEF StartQueue, Goto, Leave
<1>4. ASSUME NEW c \in Callers, StartFlags(c) PROVE Alone'
  BY <1>4 DEF StartFlags, Goto
<1>5. ASSUME NEW c \in Callers, StartPublish(c) PROVE Alone'
  BY <1>5 DEF StartPublish, Goto
<1>6. ASSUME NEW c \in Callers, StartPoll(c) PROVE Alone'
  BY <1>6 DEF StartPoll, Leave
<1>7. ASSUME NEW c \in Callers, StopFlags(c) PROVE Alone'
  <2>1. CASE crossed'
    BY <2>1
  <2>2. CASE ~crossed'
    <3>1. InStart \cup InStop = {} /\ ctl' = [ctl EXCEPT ![c] = "delete"]
      BY <1>7, <2>2, Zenon DEF StopFlags, Goto
    <3>2. \A d \in Callers : ctl[d] = "idle"
      BY <3>1
    <3> QED BY <3>1, <3>2
  <2> QED BY <2>1, <2>2
<1>8. ASSUME NEW c \in Callers, StopDelete(c) PROVE Alone'
  BY <1>8 DEF StopDelete, Goto
<1>9. ASSUME NEW c \in Callers, StopNull(c) PROVE Alone'
  BY <1>9 DEF StopNull, Goto, Deleted
<1>10. ASSUME NEW i \in Starts, PublishCheck(i) PROVE Alone'
  BY <1>10 DEF PublishCheck
<1>11. ASSUME NEW i \in Starts, PublishCall(i) PROVE Alone'
  BY <1>11 DEF PublishCall
<1>12. ASSUME NEW i \in Starts, PublishReceive(i) PROVE Alone'
  BY <1>12 DEF PublishReceive
<1>13. ASSUME NEW i \in Starts, PublishRequest(i) PROVE Alone'
  BY <1>13 DEF PublishRequest, Report
<1>14. ASSUME NEW i \in Starts, PollCheck(i) PROVE Alone'
  BY <1>14 DEF PollCheck, NextPoll
<1>15. ASSUME NEW i \in Starts, PollRequest(i) PROVE Alone'
  BY <1>15 DEF PollRequest, Report
<1>16. CASE EnqueueCheck
  BY <1>16 DEF EnqueueCheck
<1>17. CASE EnqueueCall
  BY <1>17 DEF EnqueueCall
<1>18. CASE EnqueueSend
  BY <1>18 DEF EnqueueSend, QueueFull
<1>19. CASE UNCHANGED vars
  BY <1>19 DEF vars
<1> QED
  BY <1>1, <1>2, <1>3, <1>4, <1>5, <1>6, <1>7, <1>8, <1>9, <1>10,
     <1>11, <1>12, <1>13, <1>14, <1>15, <1>16, <1>17, <1>18, <1>19
  DEF Next, Proceed, http_publish_task, http_polling_task,
      http_enqueue_telemetry

(* Every step keeps a start the only one, or has recorded the second.      *)
LEMMA OneStartStep ==
  ASSUME Control, Flags, OneStart, [Next]_vars PROVE OneStart'
<1> USE DEF Control, Flags, OneStart, InStart, StartPoints, StopPoints,
            flagVars, ctlVars, queVars, pubVars, enqVars, meetVars, histVars
<1>1. ASSUME NEW c \in Callers, StartTest(c) PROVE OneStart'
  BY <1>1 DEF StartTest, Refused
<1>2. ASSUME NEW c \in Callers, StartHandle(c) PROVE OneStart'
  BY <1>2 DEF StartHandle, Goto
<1>3. ASSUME NEW c \in Callers, StartQueue(c) PROVE OneStart'
  BY <1>3 DEF StartQueue, Goto, Leave
<1>4. ASSUME NEW c \in Callers, StartFlags(c) PROVE OneStart'
  BY <1>4 DEF StartFlags, Goto
<1>5. ASSUME NEW c \in Callers, StartPublish(c) PROVE OneStart'
  BY <1>5 DEF StartPublish, Goto
<1>6. ASSUME NEW c \in Callers, StartPoll(c) PROVE OneStart'
  BY <1>6 DEF StartPoll, Leave
<1>7. ASSUME NEW c \in Callers, StopFlags(c) PROVE OneStart'
  BY <1>7 DEF StopFlags, Goto
<1>8. ASSUME NEW c \in Callers, StopDelete(c) PROVE OneStart'
  BY <1>8 DEF StopDelete, Goto
<1>9. ASSUME NEW c \in Callers, StopNull(c) PROVE OneStart'
  BY <1>9 DEF StopNull, Goto, Deleted
<1>10. ASSUME NEW i \in Starts, PublishCheck(i) PROVE OneStart'
  BY <1>10 DEF PublishCheck
<1>11. ASSUME NEW i \in Starts, PublishCall(i) PROVE OneStart'
  BY <1>11 DEF PublishCall
<1>12. ASSUME NEW i \in Starts, PublishReceive(i) PROVE OneStart'
  BY <1>12 DEF PublishReceive
<1>13. ASSUME NEW i \in Starts, PublishRequest(i) PROVE OneStart'
  BY <1>13 DEF PublishRequest, Report
<1>14. ASSUME NEW i \in Starts, PollCheck(i) PROVE OneStart'
  BY <1>14 DEF PollCheck, NextPoll
<1>15. ASSUME NEW i \in Starts, PollRequest(i) PROVE OneStart'
  BY <1>15 DEF PollRequest, Report
<1>16. CASE EnqueueCheck
  BY <1>16 DEF EnqueueCheck
<1>17. CASE EnqueueCall
  BY <1>17 DEF EnqueueCall
<1>18. CASE EnqueueSend
  BY <1>18 DEF EnqueueSend, QueueFull
<1>19. CASE UNCHANGED vars
  BY <1>19 DEF vars
<1> QED
  BY <1>1, <1>2, <1>3, <1>4, <1>5, <1>6, <1>7, <1>8, <1>9, <1>10,
     <1>11, <1>12, <1>13, <1>14, <1>15, <1>16, <1>17, <1>18, <1>19
  DEF Next, Proceed, http_publish_task, http_polling_task,
      http_enqueue_telemetry

(* Every step keeps the queue under the handle, or a stop has met someone. *)
LEMMA QueueStep ==
  ASSUME Control, Flags, Numbers, Numbered, Alone, QueueOfRun, [Next]_vars PROVE QueueOfRun'
<1> USE DEF Control, Flags, Numbers, Numbered, Alone, QueueOfRun, InStart,
            InStop, StartPoints, StopPoints, flagVars, ctlVars, queVars,
            pubVars, enqVars, meetVars, histVars
<1>1. ASSUME NEW c \in Callers, StartTest(c) PROVE QueueOfRun'
  BY <1>1 DEF StartTest, Refused
<1>2. ASSUME NEW c \in Callers, StartHandle(c) PROVE QueueOfRun'
  BY <1>2 DEF StartHandle, Goto
<1>3. ASSUME NEW c \in Callers, StartQueue(c) PROVE QueueOfRun'
  BY <1>3 DEF StartQueue, Goto, Leave, Starts, NULL
<1>4. ASSUME NEW c \in Callers, StartFlags(c) PROVE QueueOfRun'
  BY <1>4 DEF StartFlags, Goto
<1>5. ASSUME NEW c \in Callers, StartPublish(c) PROVE QueueOfRun'
  BY <1>5 DEF StartPublish, Goto
<1>6. ASSUME NEW c \in Callers, StartPoll(c) PROVE QueueOfRun'
  BY <1>6 DEF StartPoll, Leave
<1>7. ASSUME NEW c \in Callers, StopFlags(c) PROVE QueueOfRun'
  BY <1>7 DEF StopFlags, Goto
<1>8. ASSUME NEW c \in Callers, StopDelete(c) PROVE QueueOfRun'
  BY <1>8 DEF StopDelete, Goto
<1>9. ASSUME NEW c \in Callers, StopNull(c) PROVE QueueOfRun'
  BY <1>9 DEF StopNull, Goto, Deleted
<1>10. ASSUME NEW i \in Starts, PublishCheck(i) PROVE QueueOfRun'
  BY <1>10 DEF PublishCheck
<1>11. ASSUME NEW i \in Starts, PublishCall(i) PROVE QueueOfRun'
  BY <1>11 DEF PublishCall
<1>12. ASSUME NEW i \in Starts, PublishReceive(i) PROVE QueueOfRun'
  BY <1>12 DEF PublishReceive
<1>13. ASSUME NEW i \in Starts, PublishRequest(i) PROVE QueueOfRun'
  BY <1>13 DEF PublishRequest, Report
<1>14. ASSUME NEW i \in Starts, PollCheck(i) PROVE QueueOfRun'
  BY <1>14 DEF PollCheck, NextPoll
<1>15. ASSUME NEW i \in Starts, PollRequest(i) PROVE QueueOfRun'
  BY <1>15 DEF PollRequest, Report
<1>16. CASE EnqueueCheck
  BY <1>16 DEF EnqueueCheck
<1>17. CASE EnqueueCall
  BY <1>17 DEF EnqueueCall
<1>18. CASE EnqueueSend
  BY <1>18 DEF EnqueueSend, QueueFull
<1>19. CASE UNCHANGED vars
  BY <1>19 DEF vars
<1> QED
  BY <1>1, <1>2, <1>3, <1>4, <1>5, <1>6, <1>7, <1>8, <1>9, <1>10,
     <1>11, <1>12, <1>13, <1>14, <1>15, <1>16, <1>17, <1>18, <1>19
  DEF Next, Proceed, http_publish_task, http_polling_task,
      http_enqueue_telemetry

(* Every step keeps the queue under its users, or has caught one.          *)
LEMMA UsersStep ==
  ASSUME Control, Flags, Numbers, Numbered, Alone, QueueOfRun, Users, [Next]_vars PROVE Users'
<1> USE DEF Control, Flags, Numbers, Alone, QueueOfRun, Users, StartPoints,
            StopPoints, flagVars, ctlVars, queVars, pubVars, enqVars,
            meetVars, histVars
<1>1. ASSUME NEW c \in Callers, StartTest(c) PROVE Users'
  BY <1>1 DEF StartTest, Refused
<1>2. ASSUME NEW c \in Callers, StartHandle(c) PROVE Users'
  BY <1>2 DEF StartHandle, Goto
<1>3. ASSUME NEW c \in Callers, StartQueue(c) PROVE Users'
  BY <1>3 DEF StartQueue, Goto, Leave, Numbered, Starts, NULL
<1>4. ASSUME NEW c \in Callers, StartFlags(c) PROVE Users'
  BY <1>4 DEF StartFlags, Goto
<1>5. ASSUME NEW c \in Callers, StartPublish(c) PROVE Users'
  BY <1>5 DEF StartPublish, Goto
<1>6. ASSUME NEW c \in Callers, StartPoll(c) PROVE Users'
  BY <1>6 DEF StartPoll, Leave
<1>7. ASSUME NEW c \in Callers, StopFlags(c) PROVE Users'
  BY <1>7 DEF StopFlags, Goto, InStart, InStop
<1>8. ASSUME NEW c \in Callers, StopDelete(c) PROVE Users'
  BY <1>8 DEF StopDelete, Goto, InUse
<1>9. ASSUME NEW c \in Callers, StopNull(c) PROVE Users'
  <2>1. CASE InUse
    BY <1>9, <2>1, Zenon DEF StopNull
  <2>2. CASE ~InUse /\ ~caught'
    <3>1. enq' = "idle" /\ (\A i \in Starts : pub'[i] \notin {"call", "receive"})
      BY <1>9, <2>2 DEF StopNull, InUse
    <3>2. ~crossed' => ~fault'
      BY <1>9 DEF StopNull, Goto, Next, vars
    <3> QED BY <3>1, <3>2
  <2>3. CASE caught'
    BY <2>3
  <2> QED BY <2>1, <2>2, <2>3
<1>10. ASSUME NEW i \in Starts, PublishCheck(i) PROVE Users'
  BY <1>10 DEF PublishCheck
<1>11. ASSUME NEW i \in Starts, PublishCall(i) PROVE Users'
  BY <1>11 DEF PublishCall
<1>12. ASSUME NEW i \in Starts, PublishReceive(i) PROVE Users'
  BY <1>12 DEF PublishReceive
<1>13. ASSUME NEW i \in Starts, PublishRequest(i) PROVE Users'
  <2>1. /\ pub' = [pub EXCEPT ![i] = "check"] \/ pub' = [pub EXCEPT ![i] = "done"]
        /\ UNCHANGED <<in_hand, poll, ctl, enq, enq_queue, live, fault,
                       g_http_publish_queue, caught, quick, doubled, crossed>>
    BY <1>13, Zenon DEF PublishRequest
  <2> QED BY <2>1
<1>14. ASSUME NEW i \in Starts, PollCheck(i) PROVE Users'
  BY <1>14 DEF PollCheck, NextPoll
<1>15. ASSUME NEW i \in Starts, PollRequest(i) PROVE Users'
  BY <1>15 DEF PollRequest, Report
<1>16. CASE EnqueueCheck
  BY <1>16 DEF EnqueueCheck
<1>17. CASE EnqueueCall
  BY <1>17 DEF EnqueueCall
<1>18. CASE EnqueueSend
  BY <1>18 DEF EnqueueSend, QueueFull
<1>19. CASE UNCHANGED vars
  BY <1>19 DEF vars
<1> QED
  BY <1>1, <1>2, <1>3, <1>4, <1>5, <1>6, <1>7, <1>8, <1>9, <1>10,
     <1>11, <1>12, <1>13, <1>14, <1>15, <1>16, <1>17, <1>18, <1>19
  DEF Next, Proceed, http_publish_task, http_polling_task,
      http_enqueue_telemetry

(* Every step keeps a task out of its round after a stop, unless the stop  *)
(* found it there or met someone.                                          *)
LEMMA RoundsStep ==
  ASSUME Control, Flags, QueueOfRun, Rounds, [Next]_vars PROVE Rounds'
<1> USE DEF Control, Flags, QueueOfRun, Rounds, InRound, OfflineUnlessCarried,
            flagVars, ctlVars, queVars, pubVars, enqVars, meetVars, histVars
<1>1. ASSUME NEW c \in Callers, StartTest(c) PROVE Rounds'
  BY <1>1 DEF StartTest, Refused
<1>2. ASSUME NEW c \in Callers, StartHandle(c) PROVE Rounds'
  BY <1>2 DEF StartHandle, Goto
<1>3. ASSUME NEW c \in Callers, StartQueue(c) PROVE Rounds'
  BY <1>3 DEF StartQueue, Goto, Leave
<1>4. ASSUME NEW c \in Callers, StartFlags(c) PROVE Rounds'
  BY <1>4 DEF StartFlags, Goto
<1>5. ASSUME NEW c \in Callers, StartPublish(c) PROVE Rounds'
  BY <1>5 DEF StartPublish, Goto
<1>6. ASSUME NEW c \in Callers, StartPoll(c) PROVE Rounds'
  BY <1>6 DEF StartPoll, Leave
<1>7. ASSUME NEW c \in Callers, StopFlags(c) PROVE Rounds'
  BY <1>7 DEF StopFlags, Goto
<1>8. ASSUME NEW c \in Callers, StopDelete(c) PROVE Rounds'
  BY <1>8 DEF StopDelete, Goto
<1>9. ASSUME NEW c \in Callers, StopNull(c) PROVE Rounds'
  BY <1>9 DEF StopNull, Goto, Deleted
<1>10. ASSUME NEW i \in Starts, PublishCheck(i) PROVE Rounds'
  BY <1>10 DEF PublishCheck
<1>11. ASSUME NEW i \in Starts, PublishCall(i) PROVE Rounds'
  BY <1>11 DEF PublishCall
<1>12. ASSUME NEW i \in Starts, PublishReceive(i) PROVE Rounds'
  BY <1>12 DEF PublishReceive
<1>13. ASSUME NEW i \in Starts, PublishRequest(i) PROVE Rounds'
  BY <1>13 DEF PublishRequest, Report
<1>14. ASSUME NEW i \in Starts, PollCheck(i) PROVE Rounds'
  BY <1>14 DEF PollCheck, NextPoll
<1>15. ASSUME NEW i \in Starts, PollRequest(i) PROVE Rounds'
  BY <1>15 DEF PollRequest, Report
<1>16. CASE EnqueueCheck
  BY <1>16 DEF EnqueueCheck
<1>17. CASE EnqueueCall
  BY <1>17 DEF EnqueueCall
<1>18. CASE EnqueueSend
  BY <1>18 DEF EnqueueSend, QueueFull
<1>19. CASE UNCHANGED vars
  BY <1>19 DEF vars
<1> QED
  BY <1>1, <1>2, <1>3, <1>4, <1>5, <1>6, <1>7, <1>8, <1>9, <1>10,
     <1>11, <1>12, <1>13, <1>14, <1>15, <1>16, <1>17, <1>18, <1>19
  DEF Next, Proceed, http_publish_task, http_polling_task,
      http_enqueue_telemetry

(* Every step keeps one task of each kind: a start that is not too quick   *)
(* finds none alive, and no other step makes one.                          *)
LEMMA OneStep ==
  ASSUME Control, Flags, Numbers, Numbered, OneStart, OneOfEach, [Next]_vars PROVE OneOfEach'
<1> USE DEF Control, Flags, OneStart, OneOfEach, Alive, InStart, StartPoints,
            StopPoints, flagVars, ctlVars, queVars, pubVars, enqVars,
            meetVars, histVars
<1>1. ASSUME NEW c \in Callers, StartTest(c) PROVE OneOfEach'
  BY <1>1 DEF StartTest, Refused
<1>2. ASSUME NEW c \in Callers, StartHandle(c) PROVE OneOfEach'
  BY <1>2 DEF StartHandle, Goto
<1>3. ASSUME NEW c \in Callers, StartQueue(c) PROVE OneOfEach'
  BY <1>3 DEF StartQueue, Goto, Leave
<1>4. ASSUME NEW c \in Callers, StartFlags(c) PROVE OneOfEach'
  BY <1>4 DEF StartFlags, Goto
<1>5. ASSUME NEW c \in Callers, StartPublish(c) PROVE OneOfEach'
  BY <1>5 DEF StartPublish, Goto, Numbered
<1>6. ASSUME NEW c \in Callers, StartPoll(c) PROVE OneOfEach'
  BY <1>6 DEF StartPoll, Leave, Numbered
<1>7. ASSUME NEW c \in Callers, StopFlags(c) PROVE OneOfEach'
  BY <1>7 DEF StopFlags, Goto
<1>8. ASSUME NEW c \in Callers, StopDelete(c) PROVE OneOfEach'
  BY <1>8 DEF StopDelete, Goto
<1>9. ASSUME NEW c \in Callers, StopNull(c) PROVE OneOfEach'
  BY <1>9 DEF StopNull, Goto, Deleted
<1>10. ASSUME NEW i \in Starts, PublishCheck(i) PROVE OneOfEach'
  BY <1>10 DEF PublishCheck
<1>11. ASSUME NEW i \in Starts, PublishCall(i) PROVE OneOfEach'
  BY <1>11 DEF PublishCall
<1>12. ASSUME NEW i \in Starts, PublishReceive(i) PROVE OneOfEach'
  BY <1>12 DEF PublishReceive
<1>13. ASSUME NEW i \in Starts, PublishRequest(i) PROVE OneOfEach'
  <2>1. /\ pub' = [pub EXCEPT ![i] = "check"] \/ pub' = [pub EXCEPT ![i] = "done"]
        /\ UNCHANGED <<in_hand, poll, ctl, enq, enq_queue, live, fault,
                       g_http_publish_queue, caught, quick, doubled, crossed>>
    BY <1>13, Zenon DEF PublishRequest
  <2>2. Alive(pub)' \subseteq Alive(pub) /\ Alive(poll)' = Alive(poll)
    BY <1>13, <2>1 DEF PublishRequest
  <2> QED BY <2>1, <2>2
<1>14. ASSUME NEW i \in Starts, PollCheck(i) PROVE OneOfEach'
  BY <1>14 DEF PollCheck, NextPoll
<1>15. ASSUME NEW i \in Starts, PollRequest(i) PROVE OneOfEach'
  BY <1>15 DEF PollRequest, Report
<1>16. CASE EnqueueCheck
  BY <1>16 DEF EnqueueCheck
<1>17. CASE EnqueueCall
  BY <1>17 DEF EnqueueCall
<1>18. CASE EnqueueSend
  BY <1>18 DEF EnqueueSend, QueueFull
<1>19. CASE UNCHANGED vars
  BY <1>19 DEF vars
<1> QED
  BY <1>1, <1>2, <1>3, <1>4, <1>5, <1>6, <1>7, <1>8, <1>9, <1>10,
     <1>11, <1>12, <1>13, <1>14, <1>15, <1>16, <1>17, <1>18, <1>19
  DEF Next, Proceed, http_publish_task, http_polling_task,
      http_enqueue_telemetry

-----------------------------------------------------------------------------
(* The invariant holds of every reachable state.                           *)
LEMMA Invariance == Spec => []Inv
<1>1. Inv /\ [Next]_vars => Inv'
  BY ControlStep, FlagsStep, NumbersStep, NumberedStep, AloneStep,
     OneStartStep, QueueStep, UsersStep, RoundsStep, OneStep
  DEF Inv
<1> QED BY <1>1, InitInv, PTL DEF Spec

(* Every variable keeps its type.                                          *)
THEOREM TypeCorrect == Spec => []TypeOK
<1>1. Inv => TypeOK
  BY TypeParts DEF Inv
<1> QED BY <1>1, Invariance, PTL

(* NULL or a deleted queue is used only after http_handler_task_stop has   *)
(* deleted the queue under one of its users, or has met another caller of  *)
(* the start or the stop; it is never for two starts that met.             *)
THEOREM FaultsNeedCatches == Spec => []FaultNeedsCatch
<1>1. Inv => FaultNeedsCatch
  BY DEF Inv, Users, FaultNeedsCatch
<1> QED BY <1>1, Invariance, PTL

(* A stopped handler reports a connection only through a task that was in  *)
(* its round at a stop, or after a stop that met another caller.           *)
THEOREM OfflineWhenStopped == Spec => []OfflineUnlessCarried
<1>1. Inv => OfflineUnlessCarried
  BY DEF Inv, Rounds
<1> QED BY <1>1, Invariance, PTL

(* A set whose members are all equal has at most one.                      *)
LEMMA AtMostOne ==
  ASSUME NEW S, \A i, j \in S : i = j PROVE Cardinality(S) <= 1
<1>1. CASE S = {}
  BY <1>1, FS_EmptySet
<1>2. CASE S # {}
  <2>1. PICK x : S = {x}
    BY <1>2
  <2> QED BY <2>1, FS_Singleton
<1> QED BY <1>1, <1>2

(* No second publishing or polling task lives, unless two starts met or a  *)
(* start came before the tasks of an earlier one had ended.                *)
THEOREM OneTaskOfEach == Spec => []OneOfEachUnlessQuick
<1>1. Inv => OneOfEachUnlessQuick
  BY AtMostOne DEF Inv, OneOfEach, OneOfEachUnlessQuick
<1> QED BY <1>1, Invariance, PTL
=============================================================================
