--------------------------- MODULE ConfigCommand ---------------------------
(***************************************************************************)
(* How a configuration command travels.  The web server's POST handlers,   *)
(* the UART task and the server protocols put commands into one queue; the *)
(* configuration task executes them one by one.  A command for the LAN MCU *)
(* is cached for the next data query, and its result is what the LAN MCU   *)
(* sends back.                                                             *)
(*                                                                         *)
(* A POST handler waits for each of its commands, 6 s at the most, on one  *)
(* config_result_waiter_t that lives on its stack and that it uses for all *)
(* its commands; the address travels with the command.  A write to it      *)
(* after the handler returned is recorded in fault and ends the behaviour. *)
(***************************************************************************)
EXTENDS Naturals, Sequences, FiniteSets

CONSTANTS
  Bodies,             \* the sets of sections a POST may carry
  OtherCommands,      \* <<source, type>> of commands from elsewhere
  CONFIG_QUEUE_SIZE,
  MaxPosts,           \* bound: POST requests
  MaxOthers           \* bound: commands from elsewhere

(* The place at which api_config_post_handler looks at each section; "lan" *)
(* is the one section of api_lan_config_post_handler.                      *)
Place == [internet_type |-> 1, wifi |-> 2, lte |-> 3, wan |-> 4,
          server_type |-> 5, mqtt |-> 6, http |-> 7, coap |-> 8,
          fota |-> 9, lan |-> 10]
TypeOf == [internet_type |-> "INTERNET", wifi |-> "WIFI", lte |-> "LTE",
           wan |-> "INTERNET", server_type |-> "SERVER", mqtt |-> "MQTT",
           http |-> "HTTP", coap |-> "COAP", fota |-> "MCU_LAN",
           lan |-> "MCU_LAN"]
Sections == DOMAIN Place
CommandTypes ==
  {TypeOf[s] : s \in Sections} \cup {"SET_FIRMWARE_URL", "UPDATE_FIRMWARE"}
LanSections == {s \in Sections : TypeOf[s] = "MCU_LAN"}
Sources == {"MQTT", "UART", "HTTP", "COAP", "HTTP_RPC"}

ASSUME BodiesAssumption == Bodies \subseteq (SUBSET Sections)
ASSUME OthersAssumption ==
  OtherCommands \subseteq ((Sources \ {"HTTP"}) \X CommandTypes)
ASSUME BoundsAssumption ==
  CONFIG_QUEUE_SIZE \in Nat /\ MaxPosts \in Nat /\ MaxOthers \in Nat

VARIABLES
  queue,        \* g_config_handler_queue
  task, cur,    \* the configuration task, and the command it executes
  command_success,
  cache,        \* g_config_cache
  httpd,        \* the web server task
  post,         \* POSTs so far; while one is served, the name of its waiter
  body, todo,   \* its sections, and those not looked at yet
  sending,      \* the section waited for
  errors,
  waiter,       \* its config_result_waiter_t
  reply,        \* what the last POST was answered
  up, frame,    \* the uplink task, and the DT frame it handles
  upWaiter,     \* the waiter it took from the cache
  routed,       \* history: where the last frame went, and the source of
                \* the command it answered if that was the last command
  lan,          \* commands the LAN MCU has received and not answered
  taken,        \* history, since the POST began: <<post, section>> that
                \* came into the settings of this MCU,
  saved,        \* and those also stored and handed to their component
  timedOut,     \* history: POSTs with a wait that timed out
  overwritten,  \* history: waiters replaced in the cache
  fault,        \* waiters used after their POST had returned
  others        \* commands from elsewhere so far

taskVars == <<queue, task, cur, command_success>>
httpVars == <<httpd, post, body, todo, sending, errors, reply>>
upVars == <<up, frame, upWaiter, routed>>
setVars == <<taken, saved>>
vars == <<taskVars, cache, httpVars, waiter, upVars, lan, setVars, timedOut,
          overwritten, fault, others>>

NULL == 0                       \* no waiter; waiters are 1..MaxPosts
Waiters == 0..MaxPosts
NoCommand == [type |-> "none", source |-> "none", waiter |-> NULL,
              section |-> "none"]
IsCommand(c) ==
  /\ c.type \in CommandTypes \cup {"none"}
  /\ c.source \in Sources \cup {"none"}
  /\ c.waiter \in Waiters
  /\ c.section \in Sections \cup {"none"}
(* A DT frame: the answer to a command, or data of the LAN side's devices. *)
(* ok: its text has what config_result_is_success_message looks for.       *)
NoFrame == [kind |-> "none", ok |-> FALSE, of |-> NoCommand]
FreshWaiter == [success |-> FALSE, given |-> FALSE, by |-> "none"]

(* The values every variable may take.                                     *)
TypeOK ==
  /\ Len(queue) <= CONFIG_QUEUE_SIZE
  /\ \A i \in DOMAIN queue : IsCommand(queue[i])
  /\ task \in {"receive", "publish", "give", "restart"}
  /\ IsCommand(cur) /\ command_success \in BOOLEAN
  /\ cache.has \in BOOLEAN /\ cache.waiter \in Waiters /\ IsCommand(cache.of)
  /\ cache.source \in Sources
  /\ httpd \in {"idle", "section", "wait"}
  /\ post \in Waiters
  /\ body \subseteq Sections /\ todo \subseteq body
  /\ sending \in Sections \cup {"none"}
  /\ errors \in 0..Cardinality(body)
  /\ waiter \in [success : BOOLEAN, given : BOOLEAN,
                 by : {"none", "config", "lan", "data", "timeout"}]
  /\ reply \in {"none", "ok", "fail", "empty"}
  /\ up \in {"receive", "take", "signal", "give"}
  /\ frame.kind \in {"none", "ack", "data"} /\ IsCommand(frame.of)
  /\ upWaiter \in Waiters
  /\ routed.to \in {"none", "UART", "HTTP", "local", "server", "offline"}
  /\ \A c \in lan : IsCommand(c)
  /\ taken \subseteq Waiters \X Sections /\ saved \subseteq taken
  /\ timedOut \cup overwritten \cup fault \subseteq Waiters
  /\ others \in 0..MaxOthers

EmptyCache == [has |-> FALSE, source |-> "MQTT", waiter |-> NULL,
               of |-> NoCommand]
NotRouted == [kind |-> "none", to |-> "none", for |-> "none"]

Init ==
  /\ queue = <<>> /\ task = "receive" /\ cur = NoCommand
  /\ command_success = FALSE
  /\ cache = EmptyCache
  /\ httpd = "idle" /\ post = 0 /\ body = {} /\ todo = {}
  /\ sending = "none" /\ errors = 0 /\ waiter = FreshWaiter
  /\ reply = "none"
  /\ up = "receive" /\ frame = NoFrame /\ upWaiter = NULL
  /\ routed = NotRouted
  /\ lan = {} /\ taken = {} /\ saved = {} /\ timedOut = {} /\ overwritten = {}
  /\ fault = {} /\ others = 0

-----------------------------------------------------------------------------
(* config_result_signal_waiter, in two steps: the fields, the semaphore.   *)
Alive(w) == w = post /\ httpd # "idle"

WriteResult(w, success, by) ==
  IF w = NULL THEN UNCHANGED <<waiter, fault>>
  ELSE IF Alive(w)
    THEN /\ waiter' = [waiter EXCEPT !.success = success, !.by = by]
         /\ UNCHANGED fault
    ELSE fault' = fault \cup {w} /\ UNCHANGED waiter

GiveResult(w) ==
  IF w = NULL THEN UNCHANGED <<waiter, fault>>
  ELSE IF Alive(w)
    THEN waiter' = [waiter EXCEPT !.given = TRUE] /\ UNCHANGED fault
    ELSE fault' = fault \cup {w} /\ UNCHANGED waiter

-----------------------------------------------------------------------------
(* The POST handlers.                                                      *)

BeginPost(b) ==
  /\ httpd = "idle"
  /\ post < MaxPosts
  /\ post' = post + 1
  /\ httpd' = "section"
  /\ body' = b
  /\ todo' = b
  /\ errors' = 0
  /\ waiter' = FreshWaiter
  /\ reply' = "none"
  /\ taken' = {} /\ saved' = {}
  /\ UNCHANGED <<taskVars, cache, sending, upVars, lan, timedOut, overwritten,
                 fault, others>>

(* enqueue_config_cmd clears the waiter's fields, not its semaphore.       *)
enqueue_config_cmd(s) ==
  /\ Len(queue) < CONFIG_QUEUE_SIZE
  /\ queue' = Append(queue, [type |-> TypeOf[s], source |-> "HTTP",
                             waiter |-> post, section |-> s])
  /\ waiter' = [waiter EXCEPT !.success = FALSE, !.by = "none"]

(* The section whose turn it is.                                           *)
IsFirst(s) == s \in todo /\ \A t \in todo : Place[s] <= Place[t]

(* Mutant: the handler for the LAN MCU passes its waiter and does not wait. *)
MutantBuildSection(s) ==
  /\ httpd = "section" /\ IsFirst(s)
  /\ todo' = todo \ {s}
  /\ enqueue_config_cmd(s)
  /\ IF s = "lan"
       THEN errors' = errors + 1 /\ UNCHANGED <<httpd, sending>>
       ELSE httpd' = "wait" /\ sending' = s /\ UNCHANGED errors
  /\ UNCHANGED <<task, cur, command_success, cache, post, body, reply,
                 upVars, lan, setVars, timedOut, overwritten, fault, others>>

(* New settings are copied into the ones in use, then stored in NVS and,   *)
(* for WiFi, MQTT and LTE, sent to the component's queue.  What becomes of *)
(* the storing and the sending nobody looks at.                            *)
TakeOver(settings) ==
  /\ taken' = taken \cup settings
  /\ saved' \in {saved, saved \cup settings}

(* One section: its command is queued and waited for; or it is malformed,  *)
(* or memory or the queue is short.  The WAN firmware URL of the section   *)
(* "fota" is taken over without a command.                                 *)
BuildSection(s) ==
  /\ httpd = "section" /\ IsFirst(s)
  /\ todo' = todo \ {s}
  /\ \/ /\ enqueue_config_cmd(s)
        /\ httpd' = "wait"
        /\ sending' = s
        /\ UNCHANGED <<errors, setVars>>
     \/ /\ errors' = errors + 1
        /\ UNCHANGED <<queue, httpd, sending, waiter, setVars>>
     \/ /\ s = "fota"
        /\ TakeOver({<<post, "fota">>})
        /\ UNCHANGED <<queue, httpd, sending, errors, waiter>>
  /\ UNCHANGED <<task, cur, command_success, cache, post, body, reply,
                 upVars, lan, timedOut, overwritten, fault, others>>

(* Mutant: a failure is not counted as an error.                           *)
MutantEndWait(success) ==
  /\ httpd' = "section"
  /\ sending' = "none"
  /\ UNCHANGED errors

EndWait(success) ==
  /\ httpd' = "section"
  /\ sending' = "none"
  /\ errors' = IF success THEN errors ELSE errors + 1

ResultReceived ==
  /\ httpd = "wait"
  /\ waiter.given
  /\ waiter' = [waiter EXCEPT !.given = FALSE]
  /\ EndWait(waiter.success)
  /\ UNCHANGED <<taskVars, cache, post, body, todo, reply, upVars, lan,
                 setVars, timedOut, overwritten, fault, others>>

(* Mutant: the wait has no limit.                                          *)
MutantResultTimeout == FALSE /\ UNCHANGED vars

(* CONFIG_RESULT_TIMEOUT_MS.                                               *)
ResultTimeout ==
  /\ httpd = "wait"
  /\ ~waiter.given
  /\ waiter' = [waiter EXCEPT !.success = FALSE, !.by = "timeout"]
  /\ timedOut' = timedOut \cup {post}
  /\ EndWait(FALSE)
  /\ UNCHANGED <<taskVars, cache, post, body, todo, reply, upVars, lan,
                 setVars, overwritten, fault, others>>

EndPost ==
  /\ httpd = "section"
  /\ todo = {}
  /\ httpd' = "idle"
  /\ reply' = IF body = {} THEN "empty"
              ELSE IF errors = 0 THEN "ok" ELSE "fail"
  /\ UNCHANGED <<taskVars, cache, post, body, todo, sending, errors, waiter,
                 upVars, lan, setVars, timedOut, overwritten, fault, others>>

Httpd ==
  \/ \E b \in Bodies : BeginPost(b)
  \/ \E s \in Sections : BuildSection(s)
  \/ ResultReceived \/ ResultTimeout \/ EndPost

(* process_uart_line, mqtt_receive_enqueue, http_poll_rpc, coap: a command *)
(* without a waiter; it is dropped when the queue is full.                 *)
OtherCommand(source, type) ==
  /\ others < MaxOthers
  /\ Len(queue) < CONFIG_QUEUE_SIZE
  /\ others' = others + 1
  /\ queue' = Append(queue, [type |-> type, source |-> source,
                             waiter |-> NULL, section |-> "none"])
  /\ UNCHANGED <<task, cur, command_success, cache, httpVars, waiter, upVars,
                 lan, setVars, timedOut, overwritten, fault>>

-----------------------------------------------------------------------------
(* The configuration task.                                                 *)

(* Mutant: the source of the command is not stored.                        *)
Mutant_mcu_lan_handler_update_config(c) ==
  /\ cache' = [cache EXCEPT !.has = TRUE, !.waiter = c.waiter, !.of = c]
  /\ overwritten' = overwritten \cup ({cache.waiter} \ {NULL})

mcu_lan_handler_update_config(c) ==
  /\ cache' = [has |-> TRUE, source |-> c.source, waiter |-> c.waiter,
               of |-> c]
  /\ overwritten' = overwritten \cup ({cache.waiter} \ {NULL})

(* Mutant: a command the LAN handler refuses is not answered.              *)
MutantLanCommand(c) ==
  \/ /\ mcu_lan_handler_update_config(c)
     /\ task' = "receive" /\ cur' = NoCommand
     /\ UNCHANGED command_success
  \/ /\ task' = "receive" /\ cur' = NoCommand
     /\ UNCHANGED <<cache, overwritten, command_success>>

(* A command for the LAN MCU: its result is deferred.  Too large or too    *)
(* short, no memory, no mutex: it has failed.                              *)
LanCommand(c) ==
  \/ /\ mcu_lan_handler_update_config(c)
     /\ task' = "receive" /\ cur' = NoCommand
     /\ UNCHANGED command_success
  \/ /\ task' = "publish" /\ cur' = c
     /\ command_success' = FALSE
     /\ UNCHANGED <<cache, overwritten>>

(* Any other command is parsed and taken over, or refused; UPDATE_FIRMWARE *)
(* is never refused.                                                       *)
WanCommand(c) ==
  /\ task' = "publish" /\ cur' = c
  /\ \/ /\ command_success' = TRUE
        /\ TakeOver(IF c.source = "HTTP" THEN {<<c.waiter, c.section>>} ELSE {})
     \/ /\ c.type # "UPDATE_FIRMWARE"
        /\ command_success' = FALSE
        /\ UNCHANGED setVars
  /\ UNCHANGED <<cache, overwritten>>

ReceiveCommand ==
  /\ task = "receive"
  /\ queue # <<>>
  /\ queue' = Tail(queue)
  /\ LET c == Head(queue) IN
       IF c.type = "MCU_LAN" THEN LanCommand(c) /\ UNCHANGED setVars
                             ELSE WanCommand(c)
  /\ UNCHANGED <<httpVars, waiter, upVars, lan, timedOut, fault, others>>

config_handler_publish_result ==
  /\ task = "publish"
  /\ task' = "give"
  /\ WriteResult(cur.waiter, command_success, "config")
  /\ UNCHANGED <<queue, cur, command_success, cache, httpVars, upVars, lan,
                 setVars, timedOut, overwritten, others>>

(* ... and the restart that follows a new internet type.                   *)
GiveAndFree ==
  /\ task = "give"
  /\ GiveResult(cur.waiter)
  /\ task' = IF cur.type = "INTERNET" /\ command_success THEN "restart"
                                                         ELSE "receive"
  /\ cur' = NoCommand
  /\ UNCHANGED <<queue, command_success, cache, httpVars, upVars, lan, setVars,
                 timedOut, overwritten, others>>

(* 1 s later: esp_restart.  What is queued, cached or waited for is gone.  *)
Restart ==
  /\ task = "restart"
  /\ queue' = <<>> /\ task' = "receive" /\ cur' = NoCommand
  /\ command_success' = FALSE
  /\ cache' = EmptyCache
  /\ httpd' = "idle" /\ body' = {} /\ todo' = {} /\ sending' = "none"
  /\ errors' = 0 /\ waiter' = FreshWaiter /\ reply' = "none"
  /\ up' = "receive" /\ frame' = NoFrame /\ upWaiter' = NULL
  /\ routed' = NotRouted
  /\ UNCHANGED <<post, lan, setVars, timedOut, overwritten, fault, others>>

ConfigTask ==
  ReceiveCommand \/ config_handler_publish_result \/ GiveAndFree \/ Restart

-----------------------------------------------------------------------------
(* The uplink task and the LAN MCU.                                        *)

(* A data query passes the cached command on; the waiter stays.            *)
DeliverConfig ==
  /\ up = "receive"
  /\ cache.has
  /\ cache' = [cache EXCEPT !.has = FALSE]
  /\ lan' = lan \cup {cache.of}
  /\ UNCHANGED <<taskVars, httpVars, waiter, upVars, setVars, timedOut,
                 overwritten, fault, others>>

(* Frames the LAN MCU sends: an answer to a command it received, or data.  *)
Frames ==
  [kind : {"ack"}, ok : BOOLEAN, of : lan] \cup
  [kind : {"data"}, ok : BOOLEAN, of : {NoCommand}]

(* Where process_data_from_lan takes a frame, by the source of the last    *)
(* command cached (UNKNOWN when the mutex is not free).                    *)
Route(source, kind, online) ==
  CASE source = "UART" -> "UART"
    [] source = "HTTP" -> "HTTP"
    [] OTHER -> IF kind = "ack" THEN "local"
                ELSE IF online THEN "server" ELSE "offline"

process_data_from_lan ==
  /\ up = "receive"
  /\ \E f \in Frames, source \in {cache.source, "UNKNOWN"},
        online \in BOOLEAN :
       /\ lan' = lan \ {f.of}
       /\ routed' = [kind |-> f.kind, to |-> Route(source, f.kind, online),
                     for |-> IF f.of = cache.of /\ source = cache.source
                               THEN f.of.source ELSE "none"]
       /\ IF routed'.to = "HTTP" \/ (routed'.to = "UART" /\ f.kind = "ack")
            THEN up' = "take" /\ frame' = f
            ELSE UNCHANGED <<up, frame>>
  /\ UNCHANGED <<taskVars, cache, httpVars, waiter, upWaiter, setVars,
                 timedOut, overwritten, fault, others>>

(* Between the routing and this step the cache may have been replaced; and *)
(* the mutex may time out.                                                 *)
mcu_lan_handler_take_config_result_waiter ==
  /\ up = "take"
  /\ up' = "signal"
  /\ \/ upWaiter' = cache.waiter /\ cache' = [cache EXCEPT !.waiter = NULL]
     \/ upWaiter' = NULL /\ UNCHANGED cache
  /\ UNCHANGED <<taskVars, httpVars, waiter, frame, routed, lan, setVars,
                 timedOut, overwritten, fault, others>>

config_handler_publish_result_from_line ==
  /\ \/ /\ up = "signal" /\ up' = "give"
        /\ WriteResult(upWaiter, frame.ok,
                       IF frame.kind = "ack" THEN "lan" ELSE "data")
        /\ UNCHANGED <<frame, upWaiter>>
     \/ /\ up = "give" /\ up' = "receive"
        /\ GiveResult(upWaiter)
        /\ frame' = NoFrame /\ upWaiter' = NULL
  /\ UNCHANGED <<taskVars, cache, httpVars, routed, lan, setVars, timedOut,
                 overwritten, others>>

Uplink ==
  \/ DeliverConfig \/ process_data_from_lan
  \/ mcu_lan_handler_take_config_result_waiter
  \/ config_handler_publish_result_from_line

-----------------------------------------------------------------------------
(* What follows a fault is undefined: no step is modelled after it.        *)
Next ==
  \/ /\ fault = {}
     /\ \/ Httpd \/ ConfigTask \/ Uplink
        \/ \E o \in OtherCommands : OtherCommand(o[1], o[2])
  \/ fault # {} /\ UNCHANGED vars

Spec == Init /\ [][Next]_vars

(* The tasks run; what the LAN MCU sends, and when, is not promised.       *)
FairSpec ==
  /\ Spec
  /\ WF_vars(\/ \E s \in Sections : BuildSection(s)
             \/ ResultReceived \/ ResultTimeout \/ EndPost)
  /\ WF_vars(ConfigTask)

-----------------------------------------------------------------------------
(* Properties.                                                             *)

(* The waiter of a POST that has returned is used only if one of its waits *)
(* timed out: there is no other way for its address to survive it.         *)
FaultNeedsTimeout == fault \subseteq timedOut

(* While a POST waits, exactly one place holds its waiter, so it will be   *)
(* completed once: the queue, the configuration task, the cache or the     *)
(* uplink task.  The exceptions: an earlier wait of the POST timed out, or *)
(* another command for the LAN MCU replaced it in the cache.               *)
Holders(w) ==
  {<<"queue", i>> : i \in {j \in DOMAIN queue : queue[j].waiter = w}}
  \cup (IF cur.waiter = w THEN {<<"task", 0>>} ELSE {})
  \cup (IF cache.waiter = w THEN {<<"cache", 0>>} ELSE {})
  \cup (IF upWaiter = w THEN {<<"uplink", 0>>} ELSE {})

WaiterHeldOnce ==
  httpd = "wait" /\ ~waiter.given /\ post \notin timedOut \cup overwritten
    => Cardinality(Holders(post)) = 1

(* A POST that is answered "ok" has every section that concerns this MCU   *)
(* in the settings in use.                                                 *)
OkMeansTaken ==
  reply = "ok" => \A s \in body \ LanSections : <<post, s>> \in taken

(* The LAN MCU's answer to the last command goes to the interface the      *)
(* command came from.                                                      *)
LastAnswerReachesSource ==
  routed.for \in {"UART", "HTTP"} => routed.to = routed.for

(* A POST is answered, or the device restarts.                             *)
PostEnds == httpd # "idle" ~> httpd = "idle" \/ fault # {}

(* "complete the waiting HTTP request using the LAN ACK payload": no other *)
(* frame completes it.                                                     *)
CompletedByAck == httpd = "wait" /\ waiter.given => waiter.by # "data"

(* Comm_Hanlder.md: with internet, standard data is forwarded to the       *)
(* server handler.                                                         *)
DataForwarded ==
  routed.kind = "data" => routed.to \in {"server", "offline"}

(* "CFLT (LTE config) MUST be sent before CFIN (WAN/internet type)".       *)
LteBeforeInternet ==
  \A s \in {"internet_type", "wan"} :
    <<post, s>> \in taken => "lte" \notin todo

(* WEB_CONFIG_DATAFLOW.md gives every section of a POST its "Saved to: NVS *)
(* ...": a POST that is answered "ok" has them there, and has told their   *)
(* components.                                                             *)
OkMeansSaved ==
  reply = "ok" => \A s \in body \ LanSections : <<post, s>> \in saved
=============================================================================
