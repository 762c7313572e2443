------------------------------ MODULE HttpRpc ------------------------------
(***************************************************************************)
(* RPC commands that the HTTP handler polls from the server, and their     *)
(* answers.                                                                *)
(*                                                                         *)
(* The polling task asks the server for a command and forwards it to the   *)
(* configuration handler; the LAN MCU's answer comes back, as any uplink   *)
(* does, through g_http_publish_queue, and the publishing task decides by  *)
(* s_last_rpc_id whether what it took is an answer or telemetry.  Three    *)
(* plain variables, which both tasks write, are to keep a command from     *)
(* being forwarded twice.  Starting and stopping the two tasks is the      *)
(* subject of HttpTasks; none of the variables here is reset by it.        *)
(***************************************************************************)
EXTENDS Integers, Sequences

CONSTANTS
  HTTP_QUEUE_SIZE,
  MaxRpcs,        \* bound: commands the server issues
  MaxTelemetry    \* bound: telemetry the LAN MCU sends

ASSUME SizeAssumption   == HTTP_QUEUE_SIZE \in Nat \ {0}
ASSUME BoundsAssumption == MaxRpcs \in Nat /\ MaxTelemetry \in Nat

Rpcs == 1..MaxRpcs
None == -1                \* no id
Telemetry == 0            \* an item that answers no command
Items == {Telemetry} \cup Rpcs

VARIABLES
  queue,                    \* what g_http_publish_queue holds
  s_last_rpc_id, s_processing_rpc_id, s_cooldown_rpc_id,
  cooldown_over,            \* RPC_ID_COOLDOWN_TICKS have passed
  poll, polled,             \* polling task: control point, id in hand
  pub, item, url,           \* publishing task: point, item, id it posts to
  down,                     \* commands the LAN MCU will answer
  sent,                     \* telemetry sent by the LAN MCU
  issued, open, answered,   \* server: commands, those it offers or has
                            \*   an answer to
  forwards,                 \* history: forwards of a command (2: or more)
  overlap,                  \* history: a command accepted beside another, or
                            \*   offered beyond the cooldown of its id
  unanswered,               \* history, until commands overlap: no answer was
                            \*   queued since the last one was accepted
  mixed,                    \* history, until commands overlap: telemetry was
                            \*   on its way ahead of an answer
  lost                      \* history: something was dropped or failed

guardVars == <<s_last_rpc_id, s_processing_rpc_id, s_cooldown_rpc_id,
               cooldown_over>>
pollVars  == <<poll, polled>>
pubVars   == <<pub, item, url>>
lanVars   == <<down, sent>>
srvVars   == <<issued, open, answered>>
mixVars   == <<unanswered, mixed>>
histVars  == <<forwards, overlap, mixVars>>
rpcVars == <<queue, guardVars, pollVars, pubVars, lanVars, srvVars, histVars,
             lost>>

(* The values every variable may take.                                     *)
RpcTypeOK ==
  /\ queue \in Seq(Items) /\ Len(queue) <= HTTP_QUEUE_SIZE
  /\ {s_last_rpc_id, s_processing_rpc_id, s_cooldown_rpc_id, polled, url}
       \subseteq {None} \cup Rpcs
  /\ poll \in {"get", "filter", "accept"}
  /\ pub \in {"receive", "route", "consume", "post", "telemetry", "cool",
              "release", "ended"}
  /\ item \in {None} \cup Items
  /\ down \subseteq Rpcs
  /\ sent \in 0..MaxTelemetry
  /\ issued \in 0..MaxRpcs
  /\ open \subseteq 1..issued /\ answered \subseteq 1..issued
  /\ forwards \in [Rpcs -> 0..2]
  /\ {cooldown_over, overlap, unanswered, mixed, lost} \subseteq BOOLEAN

RpcInit ==
  /\ queue = <<>>
  /\ s_last_rpc_id = None /\ s_processing_rpc_id = None
  /\ s_cooldown_rpc_id = None /\ cooldown_over = FALSE
  /\ poll = "get" /\ polled = None
  /\ pub = "receive" /\ item = None /\ url = None
  /\ down = {} /\ sent = 0
  /\ issued = 0 /\ open = {} /\ answered = {}
  /\ forwards = [r \in Rpcs |-> 0]
  /\ overlap = FALSE /\ unanswered = FALSE /\ mixed = FALSE
  /\ lost = FALSE

-----------------------------------------------------------------------------
(* http_poll_rpc: the server answers with a command it offers.  A poll     *)
(* without one, or without a result, changes nothing here.                 *)
PollCommand(r) ==
  /\ poll = "get" /\ r \in open
  /\ poll' = "filter" /\ polled' = r
  /\ UNCHANGED <<queue, guardVars, pubVars, lanVars, srvVars, histVars, lost>>

(* A command in flight, or answered a short while ago, is not new.         *)
Skipped(r) ==
  \/ r = s_processing_rpc_id
  \/ r = s_cooldown_rpc_id /\ ~cooldown_over

PollFilter ==
  /\ poll = "filter"
  /\ IF Skipped(polled)
       THEN /\ poll' = "get" /\ polled' = None
            /\ UNCHANGED s_cooldown_rpc_id
       ELSE /\ poll' = "accept"
            /\ s_cooldown_rpc_id' = IF polled = s_cooldown_rpc_id
                                      THEN None ELSE s_cooldown_rpc_id
            /\ UNCHANGED polled
  /\ UNCHANGED <<queue, s_last_rpc_id, s_processing_rpc_id, cooldown_over,
                 pubVars, lanVars, srvVars, histVars, lost>>

(* Telemetry waits for the publishing task, or for its decision.           *)
TelemetryUnderWay ==
  \/ \E k \in DOMAIN queue : queue[k] = Telemetry
  \/ pub = "route" /\ item = Telemetry

(* Mutant: only the id in flight is noted.                                 *)
MutantMark == s_processing_rpc_id' = polled /\ UNCHANGED s_last_rpc_id

Mark == s_processing_rpc_id' = polled /\ s_last_rpc_id' = polled

(* The command is marked and handed to the configuration handler, unless   *)
(* it has no parameters or no known type, or memory or room is missing:    *)
(* marked it stays.                                                        *)
PollAccept ==
  /\ poll = "accept"
  /\ poll' = "get" /\ polled' = None
  /\ Mark
  /\ \/ /\ forwards' = [forwards EXCEPT ![polled] = IF @ = 2 THEN 2 ELSE @ + 1]
        /\ down' = down \cup {polled}
        /\ UNCHANGED lost
     \/ /\ lost' = TRUE
        /\ UNCHANGED <<forwards, down>>
  /\ overlap' = (overlap \/ (open \cup down) \ {polled} # {}
                 \/ s_processing_rpc_id # None)
  /\ unanswered' = ~overlap'
  /\ mixed' = (mixed \/ (~overlap' /\ TelemetryUnderWay))
  /\ UNCHANGED <<queue, s_cooldown_rpc_id, cooldown_over, pubVars, sent,
                 srvVars>>

CooldownPasses ==
  /\ s_cooldown_rpc_id # None /\ ~cooldown_over
  /\ cooldown_over' = TRUE
  /\ overlap' = (overlap \/ s_cooldown_rpc_id \in open \cup {polled})
  /\ UNCHANGED <<queue, s_last_rpc_id, s_processing_rpc_id,
                 s_cooldown_rpc_id, pollVars, pubVars, lanVars, srvVars,
                 forwards, mixVars, lost>>

-----------------------------------------------------------------------------
QueueFull == Len(queue) >= HTTP_QUEUE_SIZE

(* http_enqueue_telemetry, called by the uplink task with telemetry or     *)
(* with what the LAN MCU answers; it gives up after 250 ms of full queue.  *)
http_enqueue_telemetry(x) ==
  /\ \/ x = Telemetry /\ sent < MaxTelemetry
        /\ sent' = sent + 1 /\ UNCHANGED down
     \/ x \in down
        /\ down' = down \ {x} /\ UNCHANGED sent
  /\ \/ /\ ~QueueFull
        /\ queue' = Append(queue, x)
        /\ unanswered' = (unanswered /\ x = Telemetry)
        /\ mixed' = (mixed \/ (x = Telemetry /\ unanswered))
        /\ UNCHANGED lost
     \/ /\ QueueFull
        /\ lost' = TRUE
        /\ UNCHANGED <<queue, mixVars>>
  /\ UNCHANGED <<guardVars, pollVars, pubVars, srvVars, forwards, overlap>>

(* Some commands the configuration handler or the LAN MCU leaves           *)
(* unanswered.                                                             *)
NoAnswer(r) ==
  /\ r \in down
  /\ down' = down \ {r}
  /\ lost' = TRUE
  /\ UNCHANGED <<queue, guardVars, pollVars, pubVars, sent, srvVars, histVars>>

-----------------------------------------------------------------------------
(* http_publish_task                                                       *)
PublishReceive ==
  /\ pub = "receive" /\ queue # <<>>
  /\ pub' = "route" /\ item' = Head(queue)
  /\ queue' = Tail(queue)
  /\ UNCHANGED <<url, guardVars, pollVars, lanVars, srvVars, histVars, lost>>

(* Mutant: what is answered is the command in flight.                      *)
MutantAnswerId == s_processing_rpc_id

AnswerId == s_last_rpc_id

(* Whatever comes while an id is there is the answer to it.  Without       *)
(* memory for the text the task ends.                                      *)
PublishRoute ==
  /\ pub = "route"
  /\ \/ /\ AnswerId = None
        /\ pub' = "telemetry"
        /\ UNCHANGED <<item, url, lost>>
     \/ /\ AnswerId # None
        /\ pub' = "consume" /\ url' = AnswerId
        /\ UNCHANGED <<item, lost>>
     \/ /\ AnswerId # None
        /\ pub' = "ended" /\ item' = None
        /\ lost' = TRUE
        /\ UNCHANGED url
  /\ UNCHANGED <<queue, guardVars, pollVars, lanVars, srvVars, histVars>>

Consume ==
  /\ pub = "consume"
  /\ pub' = "post"
  /\ s_last_rpc_id' = None
  /\ UNCHANGED <<queue, s_processing_rpc_id, s_cooldown_rpc_id,
                 cooldown_over, pollVars, item, url, lanVars, srvVars,
                 histVars, lost>>

NextItem == pub' = "receive" /\ item' = None /\ url' = None

(* The server keeps the first answer: status 200, then 406.  Another       *)
(* status, or no response, is logged, and the answer may have arrived.     *)
Post ==
  /\ pub = "post"
  /\ \/ /\ answered' = answered \cup {url}
        /\ pub' = "cool" /\ item' = None
        /\ UNCHANGED <<url, lost>>
     \/ /\ answered' \in {answered, answered \cup {url}}
        /\ NextItem
        /\ lost' = TRUE
  /\ UNCHANGED <<queue, guardVars, pollVars, lanVars, issued, open, histVars>>

(* Mutant: no cooldown.                                                    *)
MutantEnterCooldown ==
  /\ pub = "cool"
  /\ pub' = "release"
  /\ UNCHANGED <<queue, guardVars, pollVars, item, url, lanVars, srvVars,
                 histVars, lost>>

(* The id that cools down is the one in flight now.                        *)
EnterCooldown ==
  /\ pub = "cool"
  /\ pub' = "release"
  /\ s_cooldown_rpc_id' = IF s_processing_rpc_id # None
                            THEN s_processing_rpc_id ELSE s_last_rpc_id
  /\ cooldown_over' = FALSE
  /\ UNCHANGED <<queue, s_last_rpc_id, s_processing_rpc_id, pollVars, item,
                 url, lanVars, srvVars, histVars, lost>>

(* Mutant: the guard is not released.                                      *)
MutantRelease ==
  /\ pub = "release"
  /\ NextItem
  /\ UNCHANGED <<queue, guardVars, pollVars, lanVars, srvVars, histVars, lost>>

Release ==
  /\ pub = "release"
  /\ NextItem
  /\ s_processing_rpc_id' = None
  /\ UNCHANGED <<queue, s_last_rpc_id, s_cooldown_rpc_id, cooldown_over,
                 pollVars, lanVars, srvVars, histVars, lost>>

(* http_post_payload: what fails is dropped.                               *)
http_post_payload ==
  /\ pub = "telemetry"
  /\ NextItem
  /\ lost' \in {lost, TRUE}
  /\ UNCHANGED <<queue, guardVars, pollVars, lanVars, srvVars, histVars>>

-----------------------------------------------------------------------------
(* The server: it offers a command until some time after its answer.       *)
Issue ==
  /\ issued < MaxRpcs
  /\ issued' = issued + 1
  /\ open' = open \cup {issued'}
  /\ UNCHANGED <<queue, guardVars, pollVars, pubVars, lanVars, answered,
                 histVars, lost>>

Settle(r) ==
  /\ r \in open /\ r \in answered
  /\ open' = open \ {r}
  /\ UNCHANGED <<queue, guardVars, pollVars, pubVars, lanVars, issued, answered,
                 histVars, lost>>

http_poll_rpc ==
  \/ \E r \in Rpcs : PollCommand(r)
  \/ PollFilter \/ PollAccept

http_publish_task ==
  \/ PublishReceive \/ PublishRoute \/ Consume \/ Post \/ EnterCooldown
  \/ Release \/ http_post_payload

RpcNext ==
  \/ http_poll_rpc \/ CooldownPasses \/ http_publish_task
  \/ \E x \in Items : http_enqueue_telemetry(x)
  \/ \E r \in Rpcs : NoAnswer(r) \/ Settle(r)
  \/ Issue

RpcSpec == RpcInit /\ [][RpcNext]_rpcVars

(* Both tasks run, the server offers an open command again and again, and  *)
(* the LAN MCU's answers come.                                             *)
RpcFairSpec ==
  /\ RpcSpec
  /\ WF_rpcVars(http_publish_task)
  /\ WF_rpcVars(PollFilter \/ PollAccept)
  /\ \A r \in Rpcs : SF_rpcVars(PollCommand(r))
  /\ WF_rpcVars(\E r \in Rpcs : http_enqueue_telemetry(r))

-----------------------------------------------------------------------------
(* Properties.                                                             *)

(* The guards at work: a command is not forwarded a second time, however   *)
(* long its answer takes to reach the server's list, as long as commands   *)
(* come one at a time and that list is updated within the cooldown.        *)
ForwardedOnce == overlap \/ \A r \in Rpcs : forwards[r] <= 1

(* The comment at the forwarding: only genuinely new commands, whatever    *)
(* the server offers meanwhile.                                            *)
OnlyNewForwarded == \A r \in Rpcs : forwards[r] <= 1

(* What the server takes as the answer to a command is the LAN MCU's       *)
(* answer to it, whatever POSTs fail and whatever answers are dropped;     *)
(* unless commands overlapped, or the LAN MCU's telemetry was queued when  *)
(* the command was accepted or came before its answer.                     *)
RightAnswer ==
  [][answered' # answered => item = url \/ overlap \/ mixed]_rpcVars

(* "Check if this is an RPC response": what is posted as the answer to a   *)
(* command, and taken by the server, is the answer to it.                  *)
OnlyAnswersPosted == [][answered' # answered => item = url]_rpcVars

(* The publishing task posts the answer to r.                              *)
AnswerUnderWay(r) == url = r \/ (pub = "route" /\ s_last_rpc_id = r)

(* The guard for a command in flight does not outlive it: the command, its *)
(* answer or the POST of that answer is under way; and an id that waits    *)
(* for its answer is the one in flight.  Failures leave it set for good.   *)
GuardHasCause ==
  overlap \/ lost \/
    /\ \A r \in {s_processing_rpc_id} \ {None} :
         \/ r \in down \/ AnswerUnderWay(r)
         \/ \E k \in DOMAIN queue : queue[k] = r
    /\ s_last_rpc_id \in {None, s_processing_rpc_id}

(* Again and again every command issued so far has been forwarded, and     *)
(* answered if it came alone, unless something was dropped or failed.      *)
CommandsServed ==
  []<>(lost \/ \A r \in 1..issued :
                 forwards[r] > 0 /\ (r \in answered \/ overlap))
=============================================================================
