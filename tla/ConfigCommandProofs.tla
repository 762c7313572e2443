------------------------ MODULE ConfigCommandProofs ------------------------
(***************************************************************************)
(* Proofs for ConfigCommand, for all POSTs, all commands from elsewhere    *)
(* and every size of the queue.                                            *)
(***************************************************************************)
EXTENDS ConfigCommand, FiniteSetTheorems, SequenceTheorems, TLAPS

(* The commands of the POST handlers, and those of the other sources.      *)
FromPost ==
  {c \in [type : CommandTypes, source : {"HTTP"}, waiter : 1..MaxPosts,
          section : Sections] : c.type = TypeOf[c.section]}
FromElsewhere ==
  [type : CommandTypes, source : Sources \ {"HTTP"}, waiter : {NULL},
   section : {"none"}]
Sent == FromPost \cup FromElsewhere
Command == Sent \cup {NoCommand}

(* TypeOK by kind: control points, what travels, the POST being served,    *)
(* and sets and records of what happened.                                  *)
Control ==
  /\ task \in {"receive", "publish", "give", "restart"}
  /\ httpd \in {"idle", "section", "wait"}
  /\ up \in {"receive", "take", "signal", "give"}
  /\ reply \in {"none", "ok", "fail", "empty"}
  /\ command_success \in BOOLEAN

Travelling ==
  /\ queue \in Seq(Sent) /\ Len(queue) <= CONFIG_QUEUE_SIZE
  /\ cur \in Command
  /\ cache \in [has : BOOLEAN, source : Sources, waiter : Waiters,
                of : Command]
  /\ frame \in [kind : {"none", "ack", "data"}, ok : BOOLEAN, of : Command]
  /\ upWaiter \in Waiters
  /\ lan \subseteq Command

Serving ==
  /\ post \in Waiters
  /\ body \subseteq Sections /\ todo \subseteq body
  /\ sending \in Sections \cup {"none"}
  /\ httpd = "wait" => post # 0 /\ sending \in Sections
  /\ httpd # "idle" => post # 0
  /\ waiter \in [success : BOOLEAN, given : BOOLEAN,
                 by : {"none", "config", "lan", "data", "timeout"}]

(* Each error is one of a section that has been looked at and is not       *)
(* waited for any more.                                                    *)
Counted ==
  /\ errors \in Nat
  /\ errors + Cardinality(todo) + (IF httpd = "wait" THEN 1 ELSE 0)
       <= Cardinality(body)

Past ==
  /\ routed.to \in {"none", "UART", "HTTP", "local", "server", "offline"}
  /\ taken \subseteq Waiters \X Sections /\ saved \subseteq taken
  /\ timedOut \subseteq 1..post
  /\ overwritten \subseteq Waiters /\ fault \subseteq Waiters
  /\ others \in 0..MaxOthers

(* The source in the cache is that of the command in it.                   *)
Sourced == cache.of.source \in {cache.source, "none"}

(* A task has a command or a waiter in hand only between receiving and     *)
(* giving.                                                                 *)
InHand ==
  /\ task \in {"receive", "restart"} => cur = NoCommand
  /\ up \in {"receive", "take"} => upWaiter = NULL

(* Someone holds the waiter w.                                             *)
InQueue(w) == \E j \in 1..Len(queue) : queue[j].waiter = w
Held(w) ==
  InQueue(w) \/ cur.waiter = w \/ cache.waiter = w \/ upWaiter = w

(* No waiter is held without its POST, and none is given early, unless a   *)
(* wait of it timed out.                                                   *)
OnlyWaiting ==
  /\ fault \subseteq timedOut
  /\ httpd = "section" /\ post \notin timedOut => ~waiter.given
  /\ \A w \in 1..MaxPosts :
       Held(w) /\ w \notin timedOut =>
         w = post /\ httpd = "wait" /\ ~waiter.given

(* One holder at the most, for the POST that is served.                    *)
AtMostOne ==
  post # 0 /\ post \notin timedOut =>
    /\ \A j, k \in 1..Len(queue) :
         queue[j].waiter = post /\ queue[k].waiter = post => j = k
    /\ InQueue(post) =>
         cur.waiter # post /\ cache.waiter # post /\ upWaiter # post
    /\ cur.waiter = post => cache.waiter # post /\ upWaiter # post
    /\ cache.waiter = post => upWaiter # post

(* One holder at least, unless the cache has lost it.                      *)
AtLeastOne ==
  httpd = "wait" /\ ~waiter.given /\ post \notin timedOut \cup overwritten
    => Held(post)

(* The section waited for is in the settings before it can be reported.    *)
Done == sending \in LanSections \/ <<post, sending>> \in taken
Reported ==
  httpd = "wait" /\ post \notin timedOut =>
    /\ waiter.success => Done
    /\ \A j \in 1..Len(queue) :
         queue[j].waiter = post => queue[j].section = sending
    /\ cur.waiter = post =>
         cur.section = sending /\ (command_success => Done)
    /\ cache.waiter = post \/ upWaiter = post => sending \in LanSections

(* Without an error so far, every section is taken over, waited for or to  *)
(* come.                                                                   *)
NoneForgotten ==
  /\ httpd # "idle" =>
       /\ reply # "ok"
       /\ errors = 0 =>
            /\ post \notin timedOut
            /\ \A s \in body \ LanSections :
                 \/ s \in todo \/ <<post, s>> \in taken
                 \/ httpd = "wait" /\ s = sending
  /\ OkMeansTaken

(* The inductive invariant.                                                *)
Inv ==
  /\ Control /\ Travelling /\ Serving /\ Counted /\ Past
  /\ Sourced /\ LastAnswerReachesSource /\ InHand
  /\ OnlyWaiting /\ AtMostOne /\ AtLeastOne /\ Reported /\ NoneForgotten

-----------------------------------------------------------------------------
(* The sections and the types of their commands, spelt out.                *)
LEMMA SectionFacts ==
  /\ Sections = {"internet_type", "wifi", "lte", "wan", "server_type", "mqtt",
                 "http", "coap", "fota", "lan"}
  /\ IsFiniteSet(Sections)
  /\ \A s \in Sections : TypeOf[s] \in CommandTypes
  /\ \A s \in Sections : TypeOf[s] = "MCU_LAN" <=> s \in LanSections
<1>1. Sections = {"internet_type", "wifi", "lte", "wan", "server_type", "mqtt",
                  "http", "coap", "fota", "lan"}
  BY DEF Sections, Place
<1>2. IsFiniteSet({"internet_type", "wifi", "lte", "wan", "server_type",
                   "mqtt", "http", "coap", "fota", "lan"})
  <2>1. \A x, y : IsFiniteSet({x, y})
    <3> TAKE x, y
    <3>1. IsFiniteSet({x} \cup {y})
      BY FS_Singleton, FS_Union
    <3> QED BY <3>1
  <2> DEFINE A == {"internet_type", "wifi"}
             B == {"lte", "wan"}
             C == {"server_type", "mqtt"}
             D == {"http", "coap"}
             E == {"fota", "lan"}
  <2>2. /\ IsFiniteSet(A) /\ IsFiniteSet(B) /\ IsFiniteSet(C)
        /\ IsFiniteSet(D) /\ IsFiniteSet(E)
    BY <2>1
  <2>3. {"internet_type", "wifi", "lte", "wan", "server_type", "mqtt", "http",
         "coap", "fota", "lan"} = (A \cup B) \cup ((C \cup D) \cup E)
    OBVIOUS
  <2> HIDE DEF A, B, C, D, E
  <2>4. IsFiniteSet(A \cup B) /\ IsFiniteSet(C \cup D)
    BY <2>2, FS_Union
  <2>5. IsFiniteSet((C \cup D) \cup E)
    BY <2>2, <2>4, FS_Union
  <2>6. IsFiniteSet((A \cup B) \cup ((C \cup D) \cup E))
    BY <2>4, <2>5, FS_Union
  <2> QED BY <2>3, <2>6
<1>3. \A s \in Sections : TypeOf[s] \in CommandTypes
  BY DEF CommandTypes
<1>4. \A s \in Sections : TypeOf[s] = "MCU_LAN" <=> s \in LanSections
  BY DEF LanSections
<1> QED BY <1>1, <1>2, <1>3, <1>4

(* What a command in the queue is: one of a POST, with its waiter and its  *)
(* section, or one from elsewhere, without.                                *)
LEMMA SentFields ==
  ASSUME NEW c \in Sent
  PROVE  /\ c.type \in CommandTypes /\ c.source \in Sources
         /\ c.waiter \in Waiters /\ c.section \in Sections \cup {"none"}
         /\ c.source = "HTTP" <=> c.waiter # NULL
         /\ c.waiter # NULL => /\ c.waiter \in 1..MaxPosts
                               /\ c.section \in Sections
                               /\ c.type = TypeOf[c.section]
<1>1. CASE c \in FromPost
  BY <1>1, BoundsAssumption DEF FromPost, Sources, Waiters, NULL
<1>2. CASE c \in FromElsewhere
  BY <1>2, BoundsAssumption DEF FromElsewhere, Sources, Waiters, NULL
<1> QED BY <1>1, <1>2 DEF Sent

(* The same of a command in hand, which may be none.                       *)
LEMMA CommandFields ==
  ASSUME NEW c \in Command
  PROVE  IsCommand(c)
<1>1. CASE c \in Sent
  BY <1>1, SentFields DEF IsCommand
<1>2. CASE c = NoCommand
  BY <1>2, BoundsAssumption DEF NoCommand, IsCommand, Waiters, NULL
<1> QED BY <1>1, <1>2 DEF Command

(* The values that stand for nothing.                                      *)
LEMMA NullFacts ==
  /\ NULL \in Waiters /\ NULL = 0
  /\ NoCommand \in Command /\ NoCommand.waiter = NULL
  /\ NoCommand.source = "none"
  /\ EmptyCache \in [has : BOOLEAN, source : Sources, waiter : Waiters,
                     of : Command]
  /\ EmptyCache.waiter = NULL /\ EmptyCache.of = NoCommand
  /\ NoFrame \in [kind : {"none", "ack", "data"}, ok : BOOLEAN, of : Command]
  /\ FreshWaiter \in [success : BOOLEAN, given : BOOLEAN,
                      by : {"none", "config", "lan", "data", "timeout"}]
  /\ FreshWaiter.success = FALSE /\ FreshWaiter.given = FALSE
<1>1. NULL \in Waiters /\ NULL = 0
  BY BoundsAssumption DEF NULL, Waiters
<1>2. /\ NoCommand \in Command /\ NoCommand.waiter = NULL
      /\ NoCommand.source = "none"
  BY DEF NoCommand, Command
<1>3. /\ EmptyCache \in [has : BOOLEAN, source : Sources, waiter : Waiters,
                         of : Command]
      /\ EmptyCache.waiter = NULL /\ EmptyCache.of = NoCommand
  BY <1>1, <1>2 DEF EmptyCache, Sources
<1>4. NoFrame \in [kind : {"none", "ack", "data"}, ok : BOOLEAN, of : Command]
  BY <1>2 DEF NoFrame
<1>5. /\ FreshWaiter \in [success : BOOLEAN, given : BOOLEAN,
                          by : {"none", "config", "lan", "data", "timeout"}]
      /\ FreshWaiter.success = FALSE /\ FreshWaiter.given = FALSE
  BY DEF FreshWaiter
<1> QED BY <1>1, <1>2, <1>3, <1>4, <1>5

(* Queueing a command adds its waiter to those in the queue.               *)
LEMMA QueueAppend ==
  ASSUME queue \in Seq(Sent), NEW c \in Sent, queue' = Append(queue, c)
  PROVE  /\ Len(queue) \in Nat /\ Len(queue') = Len(queue) + 1
         /\ \A j \in 1..Len(queue) : queue'[j] = queue[j]
         /\ queue'[Len(queue) + 1] = c
         /\ \A w : InQueue(w)' <=> InQueue(w) \/ c.waiter = w
<1>1. /\ Len(queue) \in Nat /\ Len(queue') = Len(queue) + 1
      /\ \A j \in 1..Len(queue) : queue'[j] = queue[j]
      /\ queue'[Len(queue) + 1] = c
  OBVIOUS
<1>2. \A w : InQueue(w)' <=> InQueue(w) \/ c.waiter = w
  BY <1>1 DEF InQueue
<1> QED BY <1>1, <1>2

(* Receiving a command takes its waiter from the queue.                    *)
LEMMA QueueTail ==
  ASSUME queue \in Seq(Sent), queue # <<>>, queue' = Tail(queue)
  PROVE  /\ Head(queue) \in Sent /\ Head(queue) = queue[1]
         /\ Len(queue) \in Nat /\ 1 \in 1..Len(queue)
         /\ Len(queue') = Len(queue) - 1
         /\ \A j \in 1..Len(queue') :
              queue'[j] = queue[j + 1] /\ j + 1 \in 1..Len(queue)
         /\ \A w : InQueue(w) <=> Head(queue).waiter = w \/ InQueue(w)'
<1>1. /\ Head(queue) \in Sent /\ Head(queue) = queue[1]
      /\ Len(queue) \in Nat /\ 1 \in 1..Len(queue)
      /\ Len(queue') = Len(queue) - 1
      /\ \A j \in 1..Len(queue') :
           queue'[j] = queue[j + 1] /\ j + 1 \in 1..Len(queue)
  OBVIOUS
<1>2. ASSUME NEW w, InQueue(w) PROVE Head(queue).waiter = w \/ InQueue(w)'
  <2>1. PICK j \in 1..Len(queue) : queue[j].waiter = w
    BY <1>2 DEF InQueue
  <2>2. j = 1 \/ (j - 1 \in 1..Len(queue') /\ (j - 1) + 1 = j)
    BY <1>1
  <2> QED BY <1>1, <2>1, <2>2 DEF InQueue
<1>3. ASSUME NEW w, Head(queue).waiter = w \/ InQueue(w)' PROVE InQueue(w)
  BY <1>1, <1>3 DEF InQueue
<1> QED BY <1>1, <1>2, <1>3

(* The fields of a waiter that is alive, or a fault.                       *)
LEMMA WriteFacts ==
  ASSUME Serving, NEW w, NEW success \in BOOLEAN,
         NEW by \in {"config", "lan", "data"}, WriteResult(w, success, by)
  PROVE  /\ waiter' \in [success : BOOLEAN, given : BOOLEAN,
                         by : {"none", "config", "lan", "data", "timeout"}]
         /\ waiter'.given = waiter.given
         /\ w = NULL => UNCHANGED <<waiter, fault>>
         /\ w # NULL /\ Alive(w) => waiter'.success = success /\ fault' = fault
         /\ w # NULL /\ ~Alive(w) => waiter' = waiter /\ fault' = fault \cup {w}
  BY DEF WriteResult, Serving

(* The semaphore of a waiter that is alive, or a fault.                    *)
LEMMA GiveFacts ==
  ASSUME Serving, NEW w, GiveResult(w)
  PROVE  /\ waiter' \in [success : BOOLEAN, given : BOOLEAN,
                         by : {"none", "config", "lan", "data", "timeout"}]
         /\ waiter'.success = waiter.success
         /\ w = NULL => UNCHANGED <<waiter, fault>>
         /\ w # NULL /\ Alive(w) => waiter'.given /\ fault' = fault
         /\ w # NULL /\ ~Alive(w) => waiter' = waiter /\ fault' = fault \cup {w}
  BY DEF GiveResult, Serving

(* A section's command is one of a POST.                                   *)
LEMMA BuildEffect ==
  ASSUME Control, Travelling, Serving, NEW s \in Sections, BuildSection(s)
  PROVE  /\ httpd = "section" /\ s \in todo /\ todo' = todo \ {s}
         /\ taken \subseteq taken' /\ taken' \subseteq taken \cup {<<post, s>>}
         /\ saved \subseteq taken => saved' \subseteq taken'
         /\ post \in 1..MaxPosts
         /\ \/ /\ httpd' = "wait" /\ sending' = s /\ errors' = errors
               /\ \E c \in Sent : /\ c.waiter = post /\ c.section = s
                                  /\ queue' = Append(queue, c)
                                  /\ Len(queue) < CONFIG_QUEUE_SIZE
               /\ waiter' = [waiter EXCEPT !.success = FALSE, !.by = "none"]
            \/ /\ UNCHANGED <<queue, httpd, sending, waiter>>
               /\ \/ errors' = errors + 1
                  \/ errors' = errors /\ s = "fota" /\ <<post, s>> \in taken'
<1> DEFINE c == [type |-> TypeOf[s], source |-> "HTTP", waiter |-> post,
                 section |-> s]
<1>1. post \in 1..MaxPosts
  BY BoundsAssumption DEF BuildSection, Serving, Waiters
<1>2. c \in FromPost
  BY <1>1, SectionFacts DEF FromPost
<1>3. c \in Sent /\ c.waiter = post /\ c.section = s
  BY <1>2 DEF Sent
<1>4. enqueue_config_cmd(s) =>
        /\ queue' = Append(queue, c) /\ Len(queue) < CONFIG_QUEUE_SIZE
        /\ waiter' = [waiter EXCEPT !.success = FALSE, !.by = "none"]
  BY DEF enqueue_config_cmd
<1> HIDE DEF c
<1> QED BY <1>1, <1>3, <1>4 DEF BuildSection, IsFirst, TakeOver, setVars

(* A command from elsewhere has no waiter.                                 *)
LEMMA OtherEffect ==
  ASSUME NEW o \in OtherCommands, OtherCommand(o[1], o[2])
  PROVE  \E c \in Sent : /\ c.waiter = NULL /\ queue' = Append(queue, c)
                         /\ Len(queue) < CONFIG_QUEUE_SIZE
<1> DEFINE c == [type |-> o[2], source |-> o[1], waiter |-> NULL,
                 section |-> "none"]
<1>1. o[1] \in Sources \ {"HTTP"} /\ o[2] \in CommandTypes
  BY OthersAssumption
<1>2. c \in FromElsewhere /\ c.waiter = NULL
  BY <1>1 DEF FromElsewhere
<1>3. c \in Sent
  BY <1>2 DEF Sent
<1> HIDE DEF c
<1> QED BY <1>2, <1>3 DEF OtherCommand, c

(* A command that is received is cached for the LAN MCU or executed.       *)
LEMMA ReceiveEffect ==
  ASSUME Control, Travelling, ReceiveCommand
  PROVE  /\ task = "receive" /\ queue # <<>> /\ queue' = Tail(queue)
         /\ Head(queue) \in Sent
         /\ saved \subseteq taken => saved' \subseteq taken'
         /\ \/ /\ Head(queue).type = "MCU_LAN"
               /\ task' = "receive" /\ cur' = NoCommand
               /\ cache' = [has |-> TRUE, source |-> Head(queue).source,
                            waiter |-> Head(queue).waiter, of |-> Head(queue)]
               /\ overwritten' = overwritten \cup ({cache.waiter} \ {NULL})
               /\ UNCHANGED <<command_success, taken>>
            \/ /\ task' = "publish" /\ cur' = Head(queue)
               /\ UNCHANGED <<cache, overwritten>>
               /\ command_success' \in BOOLEAN
               /\ Head(queue).type = "MCU_LAN" => ~command_success'
               /\ taken' = IF Head(queue).type # "MCU_LAN"
                                /\ Head(queue).source = "HTTP"
                                /\ command_success'
                             THEN taken \cup {<<Head(queue).waiter,
                                                Head(queue).section>>}
                             ELSE taken
<1> DEFINE c == Head(queue)
<1>1. task = "receive" /\ queue # <<>> /\ queue' = Tail(queue) /\ c \in Sent
  BY DEF ReceiveCommand, Travelling
<1> HIDE DEF c
<1>2. CASE c.type = "MCU_LAN"
  BY <1>1, <1>2
  DEF ReceiveCommand, LanCommand, mcu_lan_handler_update_config, setVars, c
<1>3. CASE c.type # "MCU_LAN"
  BY <1>1, <1>3 DEF ReceiveCommand, WanCommand, TakeOver, setVars, c
<1> QED BY <1>1, <1>2, <1>3 DEF c

(* Every step keeps the control points in their sets.                      *)
LEMMA ControlStep ==
  ASSUME Control, [Next]_vars PROVE Control'
<1> USE DEF Control, taskVars, httpVars, upVars, setVars
<1>1. ASSUME NEW b \in Bodies, BeginPost(b) PROVE Control'
  BY <1>1 DEF BeginPost
<1>2. ASSUME NEW s \in Sections, BuildSection(s) PROVE Control'
  BY <1>2 DEF BuildSection
<1>3. CASE ResultReceived
  BY <1>3 DEF ResultReceived, EndWait
<1>4. CASE ResultTimeout
  BY <1>4 DEF ResultTimeout, EndWait
<1>5. CASE EndPost
  BY <1>5 DEF EndPost
<1>6. ASSUME NEW o \in OtherCommands, OtherCommand(o[1], o[2]) PROVE Control'
  BY <1>6 DEF OtherCommand
<1>7. CASE ReceiveCommand
  BY <1>7 DEF ReceiveCommand, LanCommand, WanCommand
<1>8. CASE config_handler_publish_result
  BY <1>8 DEF config_handler_publish_result
<1>9. CASE GiveAndFree
  BY <1>9 DEF GiveAndFree
<1>10. CASE Restart
  BY <1>10 DEF Restart
<1>11. CASE DeliverConfig
  BY <1>11 DEF DeliverConfig
<1>12. CASE process_data_from_lan
  BY <1>12 DEF process_data_from_lan
<1>13. CASE mcu_lan_handler_take_config_result_waiter
  BY <1>13 DEF mcu_lan_handler_take_config_result_waiter
<1>14. CASE config_handler_publish_result_from_line
  BY <1>14 DEF config_handler_publish_result_from_line
<1>15. CASE UNCHANGED vars
  BY <1>15 DEF vars
<1> QED
  BY <1>1, <1>2, <1>3, <1>4, <1>5, <1>6, <1>7, <1>8, <1>9, <1>10, <1>11,
     <1>12, <1>13, <1>14, <1>15
  DEF Next, Httpd, ConfigTask, Uplink

(* What travels stays a command.                                           *)
LEMMA TravelStep ==
  ASSUME Control, Travelling, Serving, [Next]_vars PROVE Travelling'
<1> USE DEF Travelling, taskVars, httpVars, upVars, setVars
<1>1. ASSUME NEW b \in Bodies, BeginPost(b) PROVE Travelling'
  BY <1>1 DEF BeginPost
<1>2. ASSUME NEW s \in Sections, BuildSection(s) PROVE Travelling'
  <2>1. UNCHANGED <<cur, cache, frame, upWaiter, lan>>
    BY <1>2 DEF BuildSection
  <2>2. \/ queue' = queue
        \/ \E c \in Sent : /\ queue' = Append(queue, c)
                           /\ Len(queue) < CONFIG_QUEUE_SIZE
    <3> HIDE DEF Travelling
    <3> QED BY <1>2, BuildEffect
  <2>3. queue' \in Seq(Sent) /\ Len(queue') <= CONFIG_QUEUE_SIZE
    <3>1. queue \in Seq(Sent) /\ Len(queue) <= CONFIG_QUEUE_SIZE
      OBVIOUS
    <3> HIDE DEF Travelling
    <3> QED BY <2>2, <3>1, QueueAppend, BoundsAssumption
  <2> QED BY <2>1, <2>3
<1>3. CASE ResultReceived
  BY <1>3 DEF ResultReceived
<1>4. CASE ResultTimeout
  BY <1>4 DEF ResultTimeout
<1>5. CASE EndPost
  BY <1>5 DEF EndPost
<1>6. ASSUME NEW o \in OtherCommands, OtherCommand(o[1], o[2]) PROVE
      Travelling'
  <2>1. UNCHANGED <<cur, cache, frame, upWaiter, lan>>
    BY <1>6 DEF OtherCommand
  <2>2. queue' \in Seq(Sent) /\ Len(queue') <= CONFIG_QUEUE_SIZE
    BY <1>6, OtherEffect, QueueAppend, BoundsAssumption
  <2> QED BY <2>1, <2>2
<1>7. CASE ReceiveCommand
  <2>1. UNCHANGED <<frame, upWaiter, lan>>
    BY <1>7 DEF ReceiveCommand
  <2>2. queue' \in Seq(Sent) /\ Len(queue') <= CONFIG_QUEUE_SIZE
    <3>1. queue # <<>> /\ queue' = Tail(queue)
      BY <1>7 DEF ReceiveCommand
    <3>2. Len(queue') = Len(queue) - 1 /\ Len(queue) \in Nat
      BY <3>1
    <3> QED BY <3>1, <3>2, BoundsAssumption
  <2>3. /\ Head(queue) \in Command /\ Head(queue).source \in Sources
        /\ Head(queue).waiter \in Waiters
    BY <1>7, ReceiveEffect, SentFields DEF Command
  <2>4. /\ cur' \in Command
        /\ cache' \in [has : BOOLEAN, source : Sources, waiter : Waiters,
                       of : Command]
    <3>1. \/ cur' = Head(queue) /\ cache' = cache
          \/ /\ cur' = NoCommand
             /\ cache' = [has |-> TRUE, source |-> Head(queue).source,
                          waiter |-> Head(queue).waiter, of |-> Head(queue)]
      BY <1>7, ReceiveEffect
    <3>2. NoCommand \in Command
      BY NullFacts
    <3>3. cache \in [has : BOOLEAN, source : Sources, waiter : Waiters,
                    of : Command]
      BY DEF Travelling
    <3> HIDE DEF Travelling
    <3>4. cur' \in Command
      BY <2>3, <3>1, <3>2
    <3>5. CASE cache' = cache
      BY <3>3, <3>4, <3>5
    <3>6. CASE cache' = [has |-> TRUE, source |-> Head(queue).source,
                         waiter |-> Head(queue).waiter, of |-> Head(queue)]
      <4> DEFINE h == Head(queue)
      <4>1. /\ h \in Command /\ h.source \in Sources /\ h.waiter \in Waiters
            /\ cache' = [has |-> TRUE, source |-> h.source,
                         waiter |-> h.waiter, of |-> h]
        BY <2>3, <3>6
      <4> HIDE DEF h
      <4> QED BY <3>4, <4>1
    <3> QED BY <3>1, <3>5, <3>6
  <2> QED BY <2>1, <2>2, <2>4
<1>8. CASE config_handler_publish_result
  BY <1>8 DEF config_handler_publish_result
<1>9. CASE GiveAndFree
  BY <1>9, NullFacts DEF GiveAndFree
<1>10. CASE Restart
  <2>1. queue' = <<>> /\ Len(<<>>) <= CONFIG_QUEUE_SIZE
    BY <1>10, BoundsAssumption DEF Restart
  <2>2. /\ cur' = NoCommand /\ cache' = EmptyCache /\ frame' = NoFrame
        /\ upWaiter' = NULL /\ lan' = lan
    BY <1>10 DEF Restart
  <2> QED BY <2>1, <2>2, NullFacts
<1>11. CASE DeliverConfig
  BY <1>11 DEF DeliverConfig
<1>12. CASE process_data_from_lan
  <2>1. /\ UNCHANGED <<queue, cur, cache, upWaiter>>
        /\ lan' \subseteq lan /\ (frame' = frame \/ frame' \in Frames)
    BY <1>12 DEF process_data_from_lan
  <2>2. Frames \subseteq [kind : {"none", "ack", "data"}, ok : BOOLEAN,
                         of : Command]
    BY NullFacts DEF Frames
  <2> QED BY <2>1, <2>2
<1>13. CASE mcu_lan_handler_take_config_result_waiter
  <2>1. /\ UNCHANGED <<queue, cur, frame, lan>> /\ upWaiter' \in Waiters
        /\ cache' = cache \/ cache' = [cache EXCEPT !.waiter = NULL]
    BY <1>13, NullFacts DEF mcu_lan_handler_take_config_result_waiter
  <2> QED BY <2>1, NullFacts
<1>14. CASE config_handler_publish_result_from_line
  BY <1>14, NullFacts DEF config_handler_publish_result_from_line
<1>15. CASE UNCHANGED vars
  BY <1>15 DEF vars
<1> QED
  BY <1>1, <1>2, <1>3, <1>4, <1>5, <1>6, <1>7, <1>8, <1>9, <1>10, <1>11,
     <1>12, <1>13, <1>14, <1>15
  DEF Next, Httpd, ConfigTask, Uplink

(* The POST that is served has a number, and a section while it waits.     *)
LEMMA ServingStep ==
  ASSUME Control, Travelling, Serving, [Next]_vars PROVE Serving'
<1> USE DEF Control, Serving, taskVars, httpVars, upVars, setVars
<1>1. ASSUME NEW b \in Bodies, BeginPost(b) PROVE Serving'
  <2>1. post + 1 \in Waiters /\ post + 1 # 0 /\ b \subseteq Sections
    BY <1>1, BoundsAssumption, BodiesAssumption DEF BeginPost, Waiters
  <2> QED BY <1>1, <2>1, NullFacts DEF BeginPost
<1>2. ASSUME NEW s \in Sections, BuildSection(s) PROVE Serving'
  BY <1>2 DEF BuildSection, enqueue_config_cmd, IsFirst
<1>3. CASE ResultReceived
  BY <1>3 DEF ResultReceived, EndWait
<1>4. CASE ResultTimeout
  BY <1>4 DEF ResultTimeout, EndWait
<1>5. CASE EndPost
  BY <1>5 DEF EndPost
<1>6. ASSUME NEW o \in OtherCommands, OtherCommand(o[1], o[2]) PROVE Serving'
  BY <1>6 DEF OtherCommand
<1>7. CASE ReceiveCommand
  BY <1>7 DEF ReceiveCommand
<1>8. CASE config_handler_publish_result
  <2>1. waiter' \in [success : BOOLEAN, given : BOOLEAN,
                     by : {"none", "config", "lan", "data", "timeout"}]
    BY <1>8, WriteFacts DEF config_handler_publish_result
  <2> QED BY <1>8, <2>1 DEF config_handler_publish_result
<1>9. CASE GiveAndFree
  <2>1. waiter' \in [success : BOOLEAN, given : BOOLEAN,
                     by : {"none", "config", "lan", "data", "timeout"}]
    BY <1>9, GiveFacts DEF GiveAndFree
  <2> QED BY <1>9, <2>1 DEF GiveAndFree
<1>10. CASE Restart
  BY <1>10, NullFacts DEF Restart
<1>11. CASE DeliverConfig
  BY <1>11 DEF DeliverConfig
<1>12. CASE process_data_from_lan
  BY <1>12 DEF process_data_from_lan, Frames
<1>13. CASE mcu_lan_handler_take_config_result_waiter
  BY <1>13 DEF mcu_lan_handler_take_config_result_waiter
<1>14. CASE config_handler_publish_result_from_line
  <2>1. frame.ok \in BOOLEAN
    BY DEF Travelling
  <2>2. waiter' \in [success : BOOLEAN, given : BOOLEAN,
                     by : {"none", "config", "lan", "data", "timeout"}]
    BY <1>14, <2>1, WriteFacts, GiveFacts
    DEF config_handler_publish_result_from_line
  <2> QED BY <1>14, <2>2 DEF config_handler_publish_result_from_line
<1>15. CASE UNCHANGED vars
  BY <1>15 DEF vars
<1> QED
  BY <1>1, <1>2, <1>3, <1>4, <1>5, <1>6, <1>7, <1>8, <1>9, <1>10, <1>11,
     <1>12, <1>13, <1>14, <1>15
  DEF Next, Httpd, ConfigTask, Uplink

(* The sections of a POST are finitely many.                               *)
LEMMA BodyFinite ==
  ASSUME Serving
  PROVE  /\ IsFiniteSet(body) /\ Cardinality(body) \in Nat
         /\ IsFiniteSet(todo) /\ Cardinality(todo) \in Nat
  BY SectionFacts, FS_Subset, FS_CardinalityType DEF Serving

(* An error is counted once for each section.                              *)
LEMMA CountedStep ==
  ASSUME Control, Travelling, Serving, Counted, [Next]_vars PROVE Counted'
<1> USE DEF Control, Serving, Counted, taskVars, httpVars, upVars, setVars
<1>1. ASSUME NEW b \in Bodies, BeginPost(b) PROVE Counted'
  <2>1. Cardinality(b) \in Nat
    <3>1. b \subseteq Sections
      BY BodiesAssumption
    <3> QED BY <3>1, SectionFacts, FS_Subset, FS_CardinalityType
  <2> QED BY <1>1, <2>1 DEF BeginPost
<1>2. ASSUME NEW s \in Sections, BuildSection(s) PROVE Counted'
  <2>1. IsFiniteSet(todo) /\ Cardinality(todo) \in Nat
    BY SectionFacts, FS_Subset, FS_CardinalityType
  <2>2. Cardinality(todo') = Cardinality(todo) - 1
    <3>1. s \in todo /\ todo' = todo \ {s}
      BY <1>2, BuildEffect
    <3> HIDE DEF Control, Serving, Counted
    <3>2. Cardinality(todo \ {s}) = Cardinality(todo) - 1
      BY <2>1, <3>1, FS_RemoveElement
    <3> QED BY <3>1, <3>2
  <2>3. body' = body
    BY <1>2 DEF BuildSection
  <2>4. \/ errors' = errors /\ httpd = "section"
        \/ errors' = errors + 1 /\ httpd = "section" /\ httpd' = httpd
    BY <1>2 DEF BuildSection
  <2> QED BY <2>1, <2>2, <2>3, <2>4, BodyFinite
<1>3. CASE ResultReceived
  BY <1>3, BodyFinite DEF ResultReceived, EndWait
<1>4. CASE ResultTimeout
  BY <1>4, BodyFinite DEF ResultTimeout, EndWait
<1>5. CASE EndPost
  BY <1>5, BodyFinite DEF EndPost
<1>6. ASSUME NEW o \in OtherCommands, OtherCommand(o[1], o[2]) PROVE Counted'
  BY <1>6 DEF OtherCommand
<1>7. CASE ReceiveCommand
  BY <1>7 DEF ReceiveCommand
<1>8. CASE config_handler_publish_result
  BY <1>8 DEF config_handler_publish_result
<1>9. CASE GiveAndFree
  BY <1>9 DEF GiveAndFree
<1>10. CASE Restart
  <2>1. Cardinality({}) = 0
    BY FS_EmptySet
  <2> QED BY <1>10, <2>1 DEF Restart
<1>11. CASE DeliverConfig
  BY <1>11 DEF DeliverConfig
<1>12. CASE process_data_from_lan
  BY <1>12 DEF process_data_from_lan
<1>13. CASE mcu_lan_handler_take_config_result_waiter
  BY <1>13 DEF mcu_lan_handler_take_config_result_waiter
<1>14. CASE config_handler_publish_result_from_line
  BY <1>14 DEF config_handler_publish_result_from_line
<1>15. CASE UNCHANGED vars
  BY <1>15 DEF vars
<1> QED
  BY <1>1, <1>2, <1>3, <1>4, <1>5, <1>6, <1>7, <1>8, <1>9, <1>10, <1>11,
     <1>12, <1>13, <1>14, <1>15
  DEF Next, Httpd, ConfigTask, Uplink

(* What has happened stays in its sets.                                    *)
LEMMA PastStep ==
  ASSUME Control, Travelling, Serving, Past, [Next]_vars PROVE Past'
<1> USE DEF Control, Serving, Past, taskVars, httpVars, upVars, setVars
<1>1. ASSUME NEW b \in Bodies, BeginPost(b) PROVE Past'
  <2>1. 1..post \subseteq 1..(post + 1)
    BY BoundsAssumption DEF Waiters
  <2> QED BY <1>1, <2>1 DEF BeginPost
<1>2. ASSUME NEW s \in Sections, BuildSection(s) PROVE Past'
  <2>1. <<post, s>> \in Waiters \X Sections
    OBVIOUS
  <2>2. taken' \subseteq taken \cup {<<post, s>>} /\ saved' \subseteq taken'
    BY <1>2, BuildEffect
  <2> QED BY <1>2, <2>1, <2>2 DEF BuildSection
<1>3. CASE ResultReceived
  BY <1>3 DEF ResultReceived
<1>4. CASE ResultTimeout
  <2>1. post \in 1..post
    BY <1>4, BoundsAssumption DEF ResultTimeout, Waiters
  <2> QED BY <1>4, <2>1 DEF ResultTimeout
<1>5. CASE EndPost
  BY <1>5 DEF EndPost
<1>6. ASSUME NEW o \in OtherCommands, OtherCommand(o[1], o[2]) PROVE Past'
  BY <1>6, BoundsAssumption DEF OtherCommand
<1>7. CASE ReceiveCommand
  <2>1. UNCHANGED <<routed, timedOut, post, fault, others>>
    BY <1>7 DEF ReceiveCommand
  <2>2. cache.waiter \in Waiters
    BY DEF Travelling
  <2>3. overwritten' \subseteq Waiters
    BY <1>7, <2>2, ReceiveEffect
  <2>4. Head(queue).source = "HTTP" =>
          Head(queue).waiter \in Waiters /\ Head(queue).section \in Sections
    BY <1>7, ReceiveEffect, SentFields
  <2>5. taken' \subseteq Waiters \X Sections /\ saved' \subseteq taken'
    BY <1>7, <2>4, ReceiveEffect
  <2> QED BY <2>1, <2>3, <2>5
<1>8. CASE config_handler_publish_result
  <2>1. cur.waiter \in Waiters
    BY CommandFields DEF Travelling, IsCommand
  <2>2. fault' \subseteq Waiters
    BY <1>8, <2>1, WriteFacts DEF config_handler_publish_result
  <2> QED BY <1>8, <2>2 DEF config_handler_publish_result
<1>9. CASE GiveAndFree
  <2>1. cur.waiter \in Waiters
    BY CommandFields DEF Travelling, IsCommand
  <2>2. fault' \subseteq Waiters
    BY <1>9, <2>1, GiveFacts DEF GiveAndFree
  <2> QED BY <1>9, <2>2 DEF GiveAndFree
<1>10. CASE Restart
  BY <1>10 DEF Restart, NotRouted
<1>11. CASE DeliverConfig
  BY <1>11 DEF DeliverConfig
<1>12. CASE process_data_from_lan
  <2>1. routed'.to \in {"none", "UART", "HTTP", "local", "server", "offline"}
    BY <1>12 DEF process_data_from_lan, Route
  <2> QED BY <1>12, <2>1 DEF process_data_from_lan
<1>13. CASE mcu_lan_handler_take_config_result_waiter
  BY <1>13 DEF mcu_lan_handler_take_config_result_waiter
<1>14. CASE config_handler_publish_result_from_line
  <2>1. upWaiter \in Waiters /\ frame.ok \in BOOLEAN
    BY DEF Travelling
  <2>2. fault' \subseteq Waiters
    BY <1>14, <2>1, WriteFacts, GiveFacts
    DEF config_handler_publish_result_from_line
  <2> QED BY <1>14, <2>2 DEF config_handler_publish_result_from_line
<1>15. CASE UNCHANGED vars
  BY <1>15 DEF vars
<1> QED
  BY <1>1, <1>2, <1>3, <1>4, <1>5, <1>6, <1>7, <1>8, <1>9, <1>10, <1>11,
     <1>12, <1>13, <1>14, <1>15
  DEF Next, Httpd, ConfigTask, Uplink

(* The source is cached with its command.                                  *)
LEMMA SourcedStep ==
  ASSUME Control, Travelling, Sourced, [Next]_vars PROVE Sourced'
<1> USE DEF Sourced, taskVars, httpVars, upVars, setVars
<1>1. ASSUME NEW b \in Bodies, BeginPost(b) PROVE Sourced'
  BY <1>1 DEF BeginPost
<1>2. ASSUME NEW s \in Sections, BuildSection(s) PROVE Sourced'
  BY <1>2 DEF BuildSection
<1>3. CASE ResultReceived
  BY <1>3 DEF ResultReceived
<1>4. CASE ResultTimeout
  BY <1>4 DEF ResultTimeout
<1>5. CASE EndPost
  BY <1>5 DEF EndPost
<1>6. ASSUME NEW o \in OtherCommands, OtherCommand(o[1], o[2]) PROVE Sourced'
  BY <1>6 DEF OtherCommand
<1>7. CASE ReceiveCommand
  BY <1>7, ReceiveEffect DEF Travelling
<1>8. CASE config_handler_publish_result
  BY <1>8 DEF config_handler_publish_result
<1>9. CASE GiveAndFree
  BY <1>9 DEF GiveAndFree
<1>10. CASE Restart
  BY <1>10, NullFacts DEF Restart
<1>11. CASE DeliverConfig
  BY <1>11 DEF DeliverConfig, Travelling
<1>12. CASE process_data_from_lan
  BY <1>12 DEF process_data_from_lan
<1>13. CASE mcu_lan_handler_take_config_result_waiter
  BY <1>13 DEF mcu_lan_handler_take_config_result_waiter, Travelling
<1>14. CASE config_handler_publish_result_from_line
  BY <1>14 DEF config_handler_publish_result_from_line
<1>15. CASE UNCHANGED vars
  BY <1>15 DEF vars
<1> QED
  BY <1>1, <1>2, <1>3, <1>4, <1>5, <1>6, <1>7, <1>8, <1>9, <1>10, <1>11,
     <1>12, <1>13, <1>14, <1>15
  DEF Next, Httpd, ConfigTask, Uplink

(* The last command's answer is routed by its own source.                  *)
LEMMA RoutedStep ==
  ASSUME Travelling, Sourced, LastAnswerReachesSource, [Next]_vars
  PROVE  LastAnswerReachesSource'
<1> USE DEF LastAnswerReachesSource, taskVars, httpVars, upVars, setVars
<1>1. ASSUME NEW b \in Bodies, BeginPost(b) PROVE LastAnswerReachesSource'
  BY <1>1 DEF BeginPost
<1>2. ASSUME NEW s \in Sections, BuildSection(s) PROVE
      LastAnswerReachesSource'
  BY <1>2 DEF BuildSection
<1>3. CASE ResultReceived
  BY <1>3 DEF ResultReceived
<1>4. CASE ResultTimeout
  BY <1>4 DEF ResultTimeout
<1>5. CASE EndPost
  BY <1>5 DEF EndPost
<1>6. ASSUME NEW o \in OtherCommands, OtherCommand(o[1], o[2]) PROVE
      LastAnswerReachesSource'
  BY <1>6 DEF OtherCommand
<1>7. CASE ReceiveCommand
  BY <1>7 DEF ReceiveCommand
<1>8. CASE config_handler_publish_result
  BY <1>8 DEF config_handler_publish_result
<1>9. CASE GiveAndFree
  BY <1>9 DEF GiveAndFree
<1>10. CASE Restart
  BY <1>10 DEF Restart, NotRouted
<1>11. CASE DeliverConfig
  BY <1>11 DEF DeliverConfig
<1>12. CASE process_data_from_lan
  BY <1>12 DEF process_data_from_lan, Frames, Route, Sourced
<1>13. CASE mcu_lan_handler_take_config_result_waiter
  BY <1>13 DEF mcu_lan_handler_take_config_result_waiter
<1>14. CASE config_handler_publish_result_from_line
  BY <1>14 DEF config_handler_publish_result_from_line
<1>15. CASE UNCHANGED vars
  BY <1>15 DEF vars
<1> QED
  BY <1>1, <1>2, <1>3, <1>4, <1>5, <1>6, <1>7, <1>8, <1>9, <1>10, <1>11,
     <1>12, <1>13, <1>14, <1>15
  DEF Next, Httpd, ConfigTask, Uplink

(* A task puts down what it has given.                                     *)
LEMMA InHandStep ==
  ASSUME Control, InHand, [Next]_vars PROVE InHand'
<1> USE DEF InHand, Control, taskVars, httpVars, upVars, setVars
<1>1. ASSUME NEW b \in Bodies, BeginPost(b) PROVE InHand'
  BY <1>1 DEF BeginPost
<1>2. ASSUME NEW s \in Sections, BuildSection(s) PROVE InHand'
  BY <1>2 DEF BuildSection
<1>3. CASE ResultReceived
  BY <1>3 DEF ResultReceived
<1>4. CASE ResultTimeout
  BY <1>4 DEF ResultTimeout
<1>5. CASE EndPost
  BY <1>5 DEF EndPost
<1>6. ASSUME NEW o \in OtherCommands, OtherCommand(o[1], o[2]) PROVE InHand'
  BY <1>6 DEF OtherCommand
<1>7. CASE ReceiveCommand
  BY <1>7 DEF ReceiveCommand, LanCommand, WanCommand
<1>8. CASE config_handler_publish_result
  BY <1>8 DEF config_handler_publish_result
<1>9. CASE GiveAndFree
  BY <1>9 DEF GiveAndFree
<1>10. CASE Restart
  BY <1>10 DEF Restart
<1>11. CASE DeliverConfig
  BY <1>11 DEF DeliverConfig
<1>12. CASE process_data_from_lan
  BY <1>12 DEF process_data_from_lan
<1>13. CASE mcu_lan_handler_take_config_result_waiter
  BY <1>13 DEF mcu_lan_handler_take_config_result_waiter
<1>14. CASE config_handler_publish_result_from_line
  BY <1>14 DEF config_handler_publish_result_from_line
<1>15. CASE UNCHANGED vars
  BY <1>15 DEF vars
<1> QED
  BY <1>1, <1>2, <1>3, <1>4, <1>5, <1>6, <1>7, <1>8, <1>9, <1>10, <1>11,
     <1>12, <1>13, <1>14, <1>15
  DEF Next, Httpd, ConfigTask, Uplink

(* What receiving a command, taking the waiter from the cache and putting  *)
(* either down do to those who hold a waiter.                              *)
LEMMA ReceiveHeld ==
  ASSUME Control, Travelling, InHand, ReceiveCommand, NEW w \in 1..MaxPosts
  PROVE  /\ Held(w)' => Held(w)
         /\ Held(w) => Held(w)' \/ w \in overwritten'
<1>1. w # NULL /\ cur.waiter = NULL /\ upWaiter' = upWaiter
  BY NullFacts, ReceiveEffect, BoundsAssumption DEF InHand, ReceiveCommand, upVars
<1>2. InQueue(w) <=> Head(queue).waiter = w \/ InQueue(w)'
  BY ReceiveEffect, QueueTail DEF Travelling
<1>3. CASE /\ cur' = NoCommand
           /\ cache' = [has |-> TRUE, source |-> Head(queue).source,
                        waiter |-> Head(queue).waiter, of |-> Head(queue)]
           /\ overwritten' = overwritten \cup ({cache.waiter} \ {NULL})
  <2>1. cur'.waiter = NULL /\ cache'.waiter = Head(queue).waiter
    BY <1>3, NullFacts
  <2> QED BY <1>1, <1>2, <1>3, <2>1 DEF Held
<1>4. CASE cur' = Head(queue) /\ UNCHANGED <<cache, overwritten>>
  BY <1>1, <1>2, <1>4 DEF Held
<1> QED BY <1>3, <1>4, ReceiveEffect

(* The same for the uplink task.                                           *)
LEMMA TakeHeld ==
  ASSUME Control, Travelling, InHand, NEW w \in 1..MaxPosts,
         mcu_lan_handler_take_config_result_waiter
  PROVE  /\ Held(w)' <=> Held(w)
         /\ cache'.waiter = w => cache.waiter = w /\ upWaiter'= NULL
         /\ upWaiter' = w => cache.waiter = w /\ cache'.waiter = NULL
<1>1. w # NULL /\ upWaiter = NULL /\ UNCHANGED <<queue, cur>>
  BY BoundsAssumption DEF InHand, NULL, taskVars,
     mcu_lan_handler_take_config_result_waiter
<1>2. \/ upWaiter' = cache.waiter /\ cache'.waiter = NULL
      \/ upWaiter' = NULL /\ cache' = cache
  BY DEF mcu_lan_handler_take_config_result_waiter, Travelling
<1>3. InQueue(w)' <=> InQueue(w)
  BY <1>1 DEF InQueue
<1> QED BY <1>1, <1>2, <1>3 DEF Held

(* The waiters that are held are those of POSTs.                           *)
LEMMA HeldTypes ==
  ASSUME Travelling
  PROVE  /\ cur.waiter # NULL => cur.waiter \in 1..MaxPosts
         /\ upWaiter # NULL => upWaiter \in 1..MaxPosts
         /\ cur.waiter # NULL => Held(cur.waiter)
         /\ upWaiter # NULL => Held(upWaiter)
<1>1. cur.waiter \in Waiters /\ upWaiter \in Waiters
  BY CommandFields DEF Travelling, IsCommand
<1> QED BY <1>1, BoundsAssumption DEF Waiters, NULL, Held

(* A step that gives no waiter to anyone keeps OnlyWaiting.                *)
LEMMA OnlyKept ==
  ASSUME OnlyWaiting, UNCHANGED <<timedOut, post, httpd>>,
         fault' \subseteq timedOut, waiter'.given = waiter.given,
         \A w \in 1..MaxPosts : Held(w)' => Held(w)
  PROVE  OnlyWaiting'
  BY DEF OnlyWaiting

(* Writing the result of a waiter that somebody holds is safe until a wait *)
(* has timed out.                                                          *)
LEMMA HeldIsAlive ==
  ASSUME OnlyWaiting, NEW w \in 1..MaxPosts, Held(w), w \notin timedOut
  PROVE  Alive(w) /\ w = post /\ httpd = "wait" /\ ~waiter.given
  BY DEF OnlyWaiting, Alive

(* Giving the waiter that one task has in hand, and nobody else.           *)
LEMMA GiveKeeps ==
  ASSUME Serving, Past, OnlyWaiting, NEW w \in Waiters, GiveResult(w),
         w # NULL => w \in 1..MaxPosts /\ Held(w),
         UNCHANGED <<timedOut, post, httpd>>,
         \A v \in 1..MaxPosts : Held(v)' => Held(v),
         w # NULL /\ w \notin timedOut => ~Held(w)'
  PROVE  OnlyWaiting'
<1>1. CASE w = NULL
  BY <1>1, GiveFacts, OnlyKept DEF OnlyWaiting
<1>2. CASE w # NULL /\ w \in timedOut /\ ~Alive(w)
  <2>1. waiter' = waiter /\ fault' = fault \cup {w}
    BY <1>2, GiveFacts
  <2> QED BY <1>2, <2>1, OnlyKept DEF OnlyWaiting
<1>3. CASE w # NULL /\ w \in timedOut /\ Alive(w)
  <2>1. w = post /\ fault' = fault
    BY <1>3, GiveFacts DEF Alive
  <2> QED BY <1>3, <2>1 DEF OnlyWaiting
<1>4. CASE w # NULL /\ w \notin timedOut
  <2>1. w = post /\ httpd = "wait" /\ fault' = fault
    BY <1>4, GiveFacts, HeldIsAlive
  <2>2. ~Held(post)'
    BY <1>4, <2>1
  <2> QED BY <2>1, <2>2 DEF OnlyWaiting
<1> QED BY <1>1, <1>2, <1>3, <1>4

(* A waiter leaves its POST's wait only through a timeout.                 *)
LEMMA OnlyStep ==
  ASSUME Control, Travelling, Serving, Past, InHand, AtMostOne, OnlyWaiting,
         [Next]_vars
  PROVE  OnlyWaiting'
<1>1. ASSUME NEW b \in Bodies, BeginPost(b) PROVE OnlyWaiting'
  BY <1>1, NullFacts DEF BeginPost, OnlyWaiting, Held, InQueue,
                      taskVars, httpVars, upVars, setVars
<1>2. ASSUME NEW s \in Sections, BuildSection(s) PROVE OnlyWaiting'
  <2>1. UNCHANGED <<cur, cache, upWaiter, post, timedOut, fault>>
    BY <1>2 DEF BuildSection, upVars
  <2>2. httpd = "section" /\ waiter'.given = waiter.given
    BY <1>2, BuildEffect DEF Serving
  <2>3. \/ httpd' = httpd /\ queue' = queue
        \/ /\ httpd' = "wait"
           /\ \E c \in Sent : c.waiter = post /\ queue' = Append(queue, c)
    BY <1>2, BuildEffect
  <2>4. \A w \in 1..MaxPosts : InQueue(w)' => InQueue(w) \/ w = post
    <3>1. CASE queue' = queue
      BY <3>1 DEF InQueue
    <3>2. CASE \E c \in Sent : c.waiter = post /\ queue' = Append(queue, c)
      BY <3>2, QueueAppend DEF Travelling
    <3> QED BY <2>3, <3>1, <3>2
  <2>5. \A w \in 1..MaxPosts : Held(w)' => Held(w) \/ w = post
    BY <2>1, <2>4 DEF Held
  <2>6. CASE httpd' = "wait"
    BY <2>1, <2>2, <2>5, <2>6 DEF OnlyWaiting
  <2>7. CASE httpd' = httpd /\ queue' = queue
    <3>1. \A w \in 1..MaxPosts : Held(w)' => Held(w)
      BY <2>1, <2>7 DEF Held, InQueue
    <3> QED BY <2>1, <2>2, <2>7, <3>1, OnlyKept DEF OnlyWaiting
  <2> QED BY <2>3, <2>6, <2>7
<1>3. CASE ResultReceived
  BY <1>3 DEF ResultReceived, EndWait, OnlyWaiting, Held, InQueue, Serving,
           taskVars, httpVars, upVars, setVars
<1>4. CASE ResultTimeout
  BY <1>4 DEF ResultTimeout, EndWait, OnlyWaiting, Held, InQueue, Serving,
           taskVars, httpVars, upVars, setVars
<1>5. CASE EndPost
  BY <1>5 DEF EndPost, OnlyWaiting, Held, InQueue, taskVars, httpVars,
      upVars, setVars
<1>6. ASSUME NEW o \in OtherCommands, OtherCommand(o[1], o[2]) PROVE
      OnlyWaiting'
  <2>1. UNCHANGED <<cur, cache, upWaiter, post, timedOut, fault, httpd, waiter>>
    BY <1>6 DEF OtherCommand, upVars, httpVars
  <2>2. \A w \in 1..MaxPosts : InQueue(w)' => InQueue(w)
    <3>1. \A w \in 1..MaxPosts : w # NULL
      BY DEF NULL
    <3> QED BY <1>6, <3>1, OtherEffect, QueueAppend DEF Travelling
  <2>3. \A w \in 1..MaxPosts : Held(w)' => Held(w)
    BY <2>1, <2>2 DEF Held
  <2> QED BY <2>1, <2>3, OnlyKept DEF OnlyWaiting
<1>7. CASE ReceiveCommand
  <2>1. UNCHANGED <<post, timedOut, fault, httpd, waiter>>
    BY <1>7 DEF ReceiveCommand, httpVars
  <2> QED BY <1>7, <2>1, ReceiveHeld, OnlyKept DEF OnlyWaiting
<1>8. CASE config_handler_publish_result
  <2>1. /\ UNCHANGED <<queue, cur, cache, upWaiter, post, timedOut, httpd>>
        /\ WriteResult(cur.waiter, command_success, "config")
    BY <1>8 DEF config_handler_publish_result, upVars, httpVars
  <2>2. waiter'.given = waiter.given
    BY <2>1, WriteFacts DEF Control
  <2>3. fault' \subseteq timedOut
    <3>1. cur.waiter # NULL /\ cur.waiter \notin timedOut => Alive(cur.waiter)
      BY HeldTypes, HeldIsAlive
    <3> QED BY <2>1, <3>1, WriteFacts DEF Control, OnlyWaiting
  <2>4. \A w \in 1..MaxPosts : Held(w)' => Held(w)
    BY <2>1 DEF Held, InQueue
  <2> QED BY <2>1, <2>2, <2>3, <2>4, OnlyKept
<1>9. CASE GiveAndFree
  <2>0. PICK w \in Waiters : w = cur.waiter
    BY CommandFields DEF Travelling, IsCommand
  <2>1. /\ UNCHANGED <<queue, cache, upWaiter, post, timedOut, httpd>>
        /\ GiveResult(w) /\ cur' = NoCommand
    BY <1>9, <2>0 DEF GiveAndFree, upVars, httpVars
  <2>2. w # NULL => w \in 1..MaxPosts /\ Held(w)
    BY <2>0, HeldTypes
  <2>3. \A v \in 1..MaxPosts :
          Held(v)' => InQueue(v) \/ cache.waiter = v \/ upWaiter = v
    BY <2>1, NullFacts DEF Held, InQueue
  <2>4. w # NULL /\ w \notin timedOut => ~Held(w)'
    <3> HAVE w # NULL /\ w \notin timedOut
    <3>1. w = post /\ post # 0 /\ w \in 1..MaxPosts
      BY <2>2, HeldIsAlive DEF NULL
    <3> QED BY <2>0, <2>3, <3>1 DEF AtMostOne
  <2>5. \A v \in 1..MaxPosts : Held(v)' => Held(v)
    BY <2>3 DEF Held
  <2> QED BY <2>1, <2>2, <2>4, <2>5, GiveKeeps
<1>10. CASE Restart
  <2>1. /\ UNCHANGED <<fault, timedOut>> /\ httpd' = "idle"
        /\ cur' = NoCommand /\ cache' = EmptyCache /\ upWaiter' = NULL
        /\ queue' = <<>>
    BY <1>10 DEF Restart
  <2>2. \A w \in 1..MaxPosts : ~Held(w)'
    BY <2>1, NullFacts DEF Held, InQueue
  <2> QED BY <2>1, <2>2 DEF OnlyWaiting
<1>11. CASE DeliverConfig
  <2>1. /\ UNCHANGED <<queue, cur, upWaiter, post, timedOut, fault, httpd>>
        /\ waiter' = waiter /\ cache'.waiter = cache.waiter
    BY <1>11 DEF DeliverConfig, upVars, httpVars, taskVars, Travelling
  <2>2. \A w \in 1..MaxPosts : Held(w)' => Held(w)
    BY <2>1 DEF Held, InQueue
  <2> QED BY <2>1, <2>2, OnlyKept DEF OnlyWaiting
<1>12. CASE process_data_from_lan
  <2>1. /\ UNCHANGED <<queue, cur, upWaiter, post, timedOut, fault, httpd>>
        /\ waiter' = waiter /\ cache' = cache
    BY <1>12 DEF process_data_from_lan, httpVars, taskVars
  <2>2. \A w \in 1..MaxPosts : Held(w)' => Held(w)
    BY <2>1 DEF Held, InQueue
  <2> QED BY <2>1, <2>2, OnlyKept DEF OnlyWaiting
<1>13. CASE mcu_lan_handler_take_config_result_waiter
  <2>1. UNCHANGED <<post, timedOut, fault, httpd, waiter>>
    BY <1>13 DEF mcu_lan_handler_take_config_result_waiter, httpVars
  <2> QED BY <1>13, <2>1, TakeHeld, OnlyKept DEF OnlyWaiting
<1>14. CASE config_handler_publish_result_from_line
  <2>1. UNCHANGED <<queue, cur, cache, post, timedOut, httpd>>
    BY <1>14 DEF config_handler_publish_result_from_line, taskVars, httpVars
  <2>2. upWaiter \in Waiters /\ frame.ok \in BOOLEAN
    BY DEF Travelling
  <2>3. CASE /\ WriteResult(upWaiter, frame.ok,
                            IF frame.kind = "ack" THEN "lan" ELSE "data")
             /\ upWaiter' = upWaiter
    <3>1. waiter'.given = waiter.given
      BY <2>2, <2>3, WriteFacts
    <3>2. fault' \subseteq timedOut
      <4>1. upWaiter # NULL /\ upWaiter \notin timedOut => Alive(upWaiter)
        BY HeldTypes, HeldIsAlive
      <4> QED BY <2>2, <2>3, <4>1, WriteFacts DEF OnlyWaiting
    <3>3. \A w \in 1..MaxPosts : Held(w)' => Held(w)
      BY <2>1, <2>3 DEF Held, InQueue
    <3> QED BY <2>1, <3>1, <3>2, <3>3, OnlyKept
  <2>4. CASE GiveResult(upWaiter) /\ upWaiter' = NULL
    <3>0. PICK w \in Waiters : w = upWaiter
      BY <2>2
    <3>1. w # NULL => w \in 1..MaxPosts /\ Held(w)
      BY <3>0, HeldTypes
    <3>2. \A v \in 1..MaxPosts :
            Held(v)' => InQueue(v) \/ cur.waiter = v \/ cache.waiter = v
      BY <2>1, <2>4, NullFacts DEF Held, InQueue
    <3>3. w # NULL /\ w \notin timedOut => ~Held(w)'
      <4> HAVE w # NULL /\ w \notin timedOut
      <4>1. w = post /\ post # 0 /\ w \in 1..MaxPosts
        BY <3>1, HeldIsAlive DEF NULL
      <4> QED BY <3>0, <3>2, <4>1 DEF AtMostOne
    <3>4. \A v \in 1..MaxPosts : Held(v)' => Held(v)
      BY <3>2 DEF Held
    <3>5. GiveResult(w)
      BY <2>4, <3>0
    <3> QED BY <2>1, <3>1, <3>3, <3>4, <3>5, GiveKeeps
  <2> QED BY <1>14, <2>3, <2>4 DEF config_handler_publish_result_from_line
<1>15. CASE UNCHANGED vars
  BY <1>15 DEF vars, OnlyWaiting, Held, InQueue, taskVars, httpVars,
      upVars, setVars
<1> QED
  BY <1>1, <1>2, <1>3, <1>4, <1>5, <1>6, <1>7, <1>8, <1>9, <1>10, <1>11,
     <1>12, <1>13, <1>14, <1>15
  DEF Next, Httpd, ConfigTask, Uplink

(* A waiter passes from hand to hand.                                      *)
LEMMA MostStep ==
  ASSUME Control, Travelling, Serving, Past, InHand, OnlyWaiting, AtMostOne,
         [Next]_vars
  PROVE  AtMostOne'
<1>1. ASSUME NEW b \in Bodies, BeginPost(b) PROVE AtMostOne'
  <2>1. /\ post < MaxPosts /\ post' = post + 1 /\ httpd = "idle"
        /\ UNCHANGED <<queue, cur, cache, upWaiter, timedOut>>
    BY <1>1 DEF BeginPost, taskVars, upVars
  <2>2. post' \in 1..MaxPosts /\ post' \notin timedOut
    BY <2>1, BoundsAssumption DEF Past, Serving, Waiters
  <2>3. ~Held(post')
    BY <2>1, <2>2, HeldIsAlive
  <2> QED BY <2>1, <2>3 DEF AtMostOne, Held, InQueue
<1>2. ASSUME NEW s \in Sections, BuildSection(s) PROVE AtMostOne'
  <2>1. UNCHANGED <<cur, cache, upWaiter, post, timedOut>>
    BY <1>2 DEF BuildSection, upVars
  <2>2. httpd = "section" /\ post \in 1..MaxPosts
    BY <1>2, BuildEffect
  <2>3. post \notin timedOut => ~Held(post)
    BY <2>2, HeldIsAlive
  <2>4. CASE queue' = queue
    BY <2>1, <2>4 DEF AtMostOne, InQueue
  <2>5. ASSUME NEW c \in Sent, queue' = Append(queue, c) PROVE AtMostOne'
    <3>1. /\ Len(queue) \in Nat /\ Len(queue') = Len(queue) + 1
          /\ \A j \in 1..Len(queue) : queue'[j] = queue[j]
      BY <2>5, QueueAppend DEF Travelling
    <3>2. \A j \in 1..Len(queue') :
            queue'[j].waiter = post => j = Len(queue) + 1 \/ InQueue(post)
      BY <3>1 DEF InQueue
    <3> QED BY <2>1, <2>3, <3>2 DEF AtMostOne, Held
  <2> QED BY <1>2, <2>4, <2>5, BuildEffect
<1>3. CASE ResultReceived
  BY <1>3
  DEF ResultReceived, AtMostOne, InQueue, EndWait, taskVars, httpVars,
      upVars, setVars
<1>4. CASE ResultTimeout
  BY <1>4
  DEF ResultTimeout, AtMostOne, InQueue, EndWait, taskVars, httpVars,
      upVars, setVars
<1>5. CASE EndPost
  BY <1>5 DEF EndPost, AtMostOne, InQueue, taskVars, httpVars, upVars, setVars
<1>6. ASSUME NEW o \in OtherCommands, OtherCommand(o[1], o[2]) PROVE
      AtMostOne'
  <2>1. UNCHANGED <<cur, cache, upWaiter, post, timedOut>>
    BY <1>6 DEF OtherCommand, upVars, httpVars
  <2>2. PICK c \in Sent : c.waiter = NULL /\ queue' = Append(queue, c)
    BY <1>6, OtherEffect
  <2>3. post # 0 => \A j \in 1..Len(queue') :
          queue'[j].waiter = post => j \in 1..Len(queue) /\ queue'[j] = queue[j]
    BY <2>2, QueueAppend DEF Travelling, NULL
  <2>4. post # 0 => (InQueue(post)' => InQueue(post))
    BY <2>1, <2>3 DEF InQueue
  <2> QED BY <2>1, <2>3, <2>4 DEF AtMostOne
<1>7. CASE ReceiveCommand
  <2> SUFFICES ASSUME post # 0, post \notin timedOut PROVE AtMostOne'
    BY <1>7 DEF ReceiveCommand, httpVars, AtMostOne
  <2>1. UNCHANGED <<post, timedOut, upWaiter>>
    BY <1>7 DEF ReceiveCommand, httpVars, upVars, setVars
  <2>2. post # NULL /\ cur.waiter = NULL
    BY <1>7, NullFacts, ReceiveEffect DEF InHand
  <2>3. /\ \A j \in 1..Len(queue') :
             /\ queue'[j] = queue[j + 1] /\ j + 1 \in 1..Len(queue)
             /\ j + 1 # 1 /\ j \in Nat
        /\ Head(queue) = queue[1] /\ 1 \in 1..Len(queue)
    BY <1>7, ReceiveEffect, QueueTail DEF Travelling
  <2>4. ASSUME NEW j \in 1..Len(queue'), NEW k \in 1..Len(queue'),
               queue'[j].waiter = post, queue'[k].waiter = post
        PROVE  j = k
    <3>1. j + 1 = k + 1
      BY <2>3, <2>4 DEF AtMostOne
    <3> QED BY <2>3, <3>1
  <2>5. Head(queue).waiter = post => ~InQueue(post)'
    BY <2>1, <2>3 DEF AtMostOne, InQueue
  <2>6. /\ \/ cur'.waiter = NULL /\ cache'.waiter = Head(queue).waiter
           \/ cur' = Head(queue) /\ cache' = cache
    BY <1>7, ReceiveEffect, NullFacts
  <2>7. /\ InQueue(post)' => InQueue(post)
        /\ Head(queue).waiter = post => InQueue(post)
    BY <2>1, <2>3 DEF InQueue
  <2> QED BY <2>1, <2>2, <2>4, <2>5, <2>6, <2>7 DEF AtMostOne
<1>8. CASE config_handler_publish_result
  BY <1>8
  DEF config_handler_publish_result, AtMostOne, InQueue, taskVars, httpVars,
      upVars, setVars
<1>9. CASE GiveAndFree
  <2>1. UNCHANGED <<queue, cache, upWaiter, post, timedOut>> /\ cur' = NoCommand
    BY <1>9 DEF GiveAndFree, upVars, httpVars
  <2>2. cur'.waiter = 0
    BY <2>1, NullFacts
  <2> QED BY <2>1, <2>2 DEF AtMostOne, InQueue
<1>10. CASE Restart
  <2>1. /\ cur' = NoCommand /\ cache' = EmptyCache /\ upWaiter' = NULL
        /\ queue' = <<>>
    BY <1>10 DEF Restart
  <2> QED BY <2>1, NullFacts DEF AtMostOne, InQueue
<1>11. CASE DeliverConfig
  <2>1. /\ UNCHANGED <<queue, cur, upWaiter, post, timedOut>>
        /\ cache'.waiter = cache.waiter
    BY <1>11 DEF DeliverConfig, upVars, httpVars, taskVars, Travelling
  <2> QED BY <2>1 DEF AtMostOne, InQueue
<1>12. CASE process_data_from_lan
  BY <1>12
  DEF process_data_from_lan, AtMostOne, InQueue, taskVars, httpVars,
      upVars, setVars
<1>13. CASE mcu_lan_handler_take_config_result_waiter
  <2>1. UNCHANGED <<queue, cur, post, timedOut>>
    BY <1>13 DEF mcu_lan_handler_take_config_result_waiter, httpVars, taskVars
  <2>2. post # 0 => post \in 1..MaxPosts /\ post # NULL
    BY BoundsAssumption DEF Serving, Waiters, NULL
  <2>3. post # 0 =>
          /\ cache'.waiter = post => cache.waiter = post /\ upWaiter' = NULL
          /\ upWaiter' = post => cache.waiter = post /\ cache'.waiter = NULL
    BY <1>13, <2>2, TakeHeld
  <2> QED BY <2>1, <2>2, <2>3 DEF AtMostOne, InQueue
<1>14. CASE config_handler_publish_result_from_line
  <2>1. /\ UNCHANGED <<queue, cur, cache, post, timedOut>>
        /\ upWaiter' = upWaiter \/ upWaiter' = 0
    BY <1>14, NullFacts DEF config_handler_publish_result_from_line, taskVars,
           httpVars
  <2> QED BY <2>1 DEF AtMostOne, InQueue
<1>15. CASE UNCHANGED vars
  BY <1>15 DEF vars, AtMostOne, InQueue, taskVars, httpVars, upVars, setVars
<1> QED
  BY <1>1, <1>2, <1>3, <1>4, <1>5, <1>6, <1>7, <1>8, <1>9, <1>10, <1>11,
     <1>12, <1>13, <1>14, <1>15
  DEF Next, Httpd, ConfigTask, Uplink

(* No hand loses a waiter, except the cache.                               *)
LEMMA LeastStep ==
  ASSUME Control, Travelling, Serving, Past, InHand, AtLeastOne, [Next]_vars
  PROVE  AtLeastOne'
<1>1. ASSUME NEW b \in Bodies, BeginPost(b) PROVE AtLeastOne'
  BY <1>1 DEF BeginPost, AtLeastOne
<1>2. ASSUME NEW s \in Sections, BuildSection(s) PROVE AtLeastOne'
  <2>1. UNCHANGED <<cur, cache, upWaiter, post, timedOut>>
    BY <1>2 DEF BuildSection, upVars
  <2>2. httpd = "section"
    BY <1>2, BuildEffect
  <2>3. CASE httpd' = httpd
    BY <2>2, <2>3 DEF AtLeastOne
  <2>4. ASSUME NEW c \in Sent, c.waiter = post, queue' = Append(queue, c)
        PROVE  AtLeastOne'
    <3>1. Len(queue') \in 1..Len(queue') /\ queue'[Len(queue')] = c
      BY <2>4, QueueAppend DEF Travelling
    <3> QED BY <2>1, <2>4, <3>1 DEF AtLeastOne, Held, InQueue
  <2> QED BY <1>2, <2>3, <2>4, BuildEffect
<1>3. CASE ResultReceived
  BY <1>3 DEF ResultReceived, EndWait, AtLeastOne
<1>4. CASE ResultTimeout
  BY <1>4 DEF ResultTimeout, EndWait, AtLeastOne
<1>5. CASE EndPost
  BY <1>5 DEF EndPost, AtLeastOne
<1>6. ASSUME NEW o \in OtherCommands, OtherCommand(o[1], o[2]) PROVE
      AtLeastOne'
  <2>1. UNCHANGED <<cur, cache, upWaiter, httpVars, waiter, timedOut,
                    overwritten>>
    BY <1>6 DEF OtherCommand, upVars
  <2>2. \A j \in 1..Len(queue) : j \in 1..Len(queue') /\ queue'[j] = queue[j]
    BY <1>6, OtherEffect, QueueAppend DEF Travelling
  <2> QED BY <2>1, <2>2 DEF AtLeastOne, Held, InQueue, httpVars
<1>7. CASE ReceiveCommand
  <2>1. UNCHANGED <<httpd, post, waiter, timedOut>>
    BY <1>7 DEF ReceiveCommand, httpVars
  <2>2. PICK w : w = post
    OBVIOUS
  <2>3. httpd = "wait" => w \in 1..MaxPosts
    BY <2>2, BoundsAssumption DEF Serving, Waiters
  <2>4. httpd = "wait" /\ Held(w) => Held(w)' \/ w \in overwritten'
    BY <1>7, <2>3, ReceiveHeld
  <2>5. overwritten \subseteq overwritten'
    BY <1>7, ReceiveEffect
  <2>6. Held(post) => Held(w)
    BY <2>2
  <2>7. Held(w)' => Held(post)'
    BY <2>1, <2>2 DEF Held, InQueue
  <2> QED BY <2>1, <2>2, <2>4, <2>5, <2>6, <2>7 DEF AtLeastOne
<1>8. CASE config_handler_publish_result
  <2>1. /\ UNCHANGED <<queue, cur, cache, upWaiter, httpd, post, timedOut>>
        /\ overwritten' = overwritten
        /\ WriteResult(cur.waiter, command_success, "config")
    BY <1>8 DEF config_handler_publish_result, upVars, httpVars
  <2>2. waiter'.given = waiter.given
    BY <2>1, WriteFacts DEF Control
  <2> QED BY <2>1, <2>2 DEF AtLeastOne, Held, InQueue
<1>9. CASE GiveAndFree
  <2>1. /\ UNCHANGED <<queue, cache, upWaiter, httpd, post, timedOut>>
        /\ overwritten' = overwritten
        /\ GiveResult(cur.waiter)
    BY <1>9 DEF GiveAndFree, upVars, httpVars
  <2>2. CASE httpd = "wait" /\ cur.waiter = post
    <3>1. cur.waiter # NULL /\ Alive(cur.waiter)
      BY <2>2, NullFacts DEF Alive, Serving
    <3> QED BY <2>1, <3>1, GiveFacts DEF AtLeastOne
  <2>3. CASE cur.waiter # post
    <3>1. waiter' = waiter
      BY <2>1, <2>3, GiveFacts DEF Alive
    <3> QED BY <2>1, <2>3, <3>1 DEF AtLeastOne, Held, InQueue
  <2> QED BY <2>1, <2>2, <2>3 DEF AtLeastOne
<1>10. CASE Restart
  BY <1>10 DEF Restart, AtLeastOne
<1>11. CASE DeliverConfig
  <2>1. /\ UNCHANGED <<queue, cur, upWaiter, httpd, post, waiter, timedOut>>
        /\ overwritten' = overwritten /\ cache'.waiter = cache.waiter
    BY <1>11 DEF DeliverConfig, upVars, httpVars, taskVars, Travelling
  <2> QED BY <2>1 DEF AtLeastOne, Held, InQueue
<1>12. CASE process_data_from_lan
  BY <1>12
  DEF process_data_from_lan, AtLeastOne, Held, InQueue, taskVars, httpVars,
      upVars, setVars
<1>13. CASE mcu_lan_handler_take_config_result_waiter
  <2>1. UNCHANGED <<queue, cur, httpd, post, waiter, timedOut, overwritten>>
    BY <1>13 DEF mcu_lan_handler_take_config_result_waiter, httpVars, taskVars
  <2>2. upWaiter = NULL
    BY <1>13 DEF InHand, mcu_lan_handler_take_config_result_waiter
  <2>3. \/ upWaiter' = cache.waiter
        \/ upWaiter' = NULL /\ cache' = cache
    BY <1>13 DEF mcu_lan_handler_take_config_result_waiter
  <2>4. httpd = "wait" => post # NULL
    BY DEF Serving, NULL
  <2> QED BY <2>1, <2>2, <2>3, <2>4 DEF AtLeastOne, Held, InQueue
<1>14. CASE config_handler_publish_result_from_line
  <2>1. UNCHANGED <<queue, cur, cache, httpd, post, timedOut, overwritten>>
    BY <1>14 DEF config_handler_publish_result_from_line, taskVars, httpVars
  <2>2. frame.ok \in BOOLEAN
    BY DEF Travelling
  <2>3. CASE /\ WriteResult(upWaiter, frame.ok,
                            IF frame.kind = "ack" THEN "lan" ELSE "data")
             /\ upWaiter' = upWaiter
    <3>1. waiter'.given = waiter.given
      BY <2>2, <2>3, WriteFacts
    <3> QED BY <2>1, <2>3, <3>1 DEF AtLeastOne, Held, InQueue
  <2>4. CASE GiveResult(upWaiter) /\ upWaiter' = NULL
    <3>1. CASE httpd = "wait" /\ upWaiter = post
      <4>1. upWaiter # NULL /\ Alive(upWaiter)
        BY <3>1, NullFacts DEF Alive, Serving
      <4> QED BY <2>1, <2>4, <4>1, GiveFacts DEF AtLeastOne
    <3>2. CASE upWaiter # post
      <4>1. waiter' = waiter
        BY <2>4, <3>2, GiveFacts DEF Alive
      <4> QED BY <2>1, <3>2, <4>1 DEF AtLeastOne, Held, InQueue
    <3> QED BY <2>1, <3>1, <3>2 DEF AtLeastOne
  <2> QED BY <1>14, <2>3, <2>4 DEF config_handler_publish_result_from_line
<1>15. CASE UNCHANGED vars
  BY <1>15 DEF vars, AtLeastOne, Held, InQueue, taskVars, httpVars,
      upVars, setVars
<1> QED
  BY <1>1, <1>2, <1>3, <1>4, <1>5, <1>6, <1>7, <1>8, <1>9, <1>10, <1>11,
     <1>12, <1>13, <1>14, <1>15
  DEF Next, Httpd, ConfigTask, Uplink

(* A success that is reported is one that has happened.                    *)
LEMMA ReportedStep ==
  ASSUME Control, Travelling, Serving, Past, InHand, OnlyWaiting, Reported,
         [Next]_vars
  PROVE  Reported'
<1>1. ASSUME NEW b \in Bodies, BeginPost(b) PROVE Reported'
  BY <1>1 DEF BeginPost, Reported
<1>2. ASSUME NEW s \in Sections, BuildSection(s) PROVE Reported'
  <2>1. UNCHANGED <<cur, cache, upWaiter, post, timedOut>>
    BY <1>2 DEF BuildSection, upVars
  <2>2. httpd = "section" /\ post \in 1..MaxPosts
    BY <1>2, BuildEffect
  <2>3. post \notin timedOut => ~Held(post)
    BY <2>2, HeldIsAlive
  <2>4. CASE httpd' = httpd
    BY <2>2, <2>4 DEF Reported
  <2>5. ASSUME NEW c \in Sent, c.section = s, sending' = s,
               queue' = Append(queue, c), ~waiter'.success
        PROVE  Reported'
    <3>1. \A j \in 1..Len(queue') :
            \/ j \in 1..Len(queue) /\ queue'[j] = queue[j]
            \/ queue'[j] = c
      BY <2>5, QueueAppend DEF Travelling
    <3>2. \A j \in 1..Len(queue') : queue'[j].waiter = post =>
            queue'[j].section = s \/ InQueue(post)
      BY <2>5, <3>1 DEF InQueue
    <3> QED BY <2>1, <2>3, <2>5, <3>2 DEF Reported, Held
  <2>6. waiter' = [waiter EXCEPT !.success = FALSE, !.by = "none"]
          => ~waiter'.success
    BY DEF Serving
  <2> QED BY <1>2, <2>4, <2>5, <2>6, BuildEffect
<1>3. CASE ResultReceived
  BY <1>3 DEF ResultReceived, EndWait, Reported
<1>4. CASE ResultTimeout
  BY <1>4 DEF ResultTimeout, EndWait, Reported
<1>5. CASE EndPost
  BY <1>5 DEF EndPost, Reported
<1>6. ASSUME NEW o \in OtherCommands, OtherCommand(o[1], o[2]) PROVE
      Reported'
  <2>1. UNCHANGED <<cur, cache, upWaiter, httpd, post, sending, waiter,
                    command_success, taken, timedOut>>
    BY <1>6 DEF OtherCommand, upVars, httpVars, setVars
  <2>2. PICK c \in Sent : c.waiter = NULL /\ queue' = Append(queue, c)
    BY <1>6, OtherEffect
  <2>3. \A j \in 1..Len(queue') :
          \/ j \in 1..Len(queue) /\ queue'[j] = queue[j]
          \/ queue'[j] = c
    BY <2>2, QueueAppend DEF Travelling
  <2>4. httpd = "wait" => post # NULL
    BY DEF Serving, NULL
  <2> QED BY <2>1, <2>2, <2>3, <2>4 DEF Reported, Done
<1>7. CASE ReceiveCommand
  <2> SUFFICES ASSUME httpd = "wait", post \notin timedOut PROVE Reported'
    BY <1>7 DEF ReceiveCommand, httpVars, Reported
  <2> DEFINE h == Head(queue)
  <2>1. UNCHANGED <<httpd, post, sending, waiter, timedOut, upWaiter>>
    BY <1>7 DEF ReceiveCommand, httpVars, upVars, setVars
  <2>2. /\ \A j \in 1..Len(queue') :
             queue'[j] = queue[j + 1] /\ j + 1 \in 1..Len(queue)
        /\ h = queue[1] /\ 1 \in 1..Len(queue) /\ h \in Sent
    BY <1>7, ReceiveEffect, QueueTail DEF Travelling
  <2>3. h.waiter = post =>
          h.section = sending /\ h.type = TypeOf[sending] /\ h.source = "HTTP"
            /\ sending \in Sections
    <3>1. post # NULL
      BY DEF Serving, NULL
    <3> QED BY <2>2, <3>1, SentFields DEF Reported
  <2>4. h.waiter = post /\ h.type = "MCU_LAN" => sending \in LanSections
    BY <2>3, SectionFacts
  <2>5. taken \subseteq taken' /\ (Done => Done')
    BY <1>7, <2>1, ReceiveEffect DEF Done
  <2>6. CASE /\ h.type = "MCU_LAN" /\ cur' = NoCommand
             /\ cache'.waiter = h.waiter
    <3>1. cur'.waiter # post
      BY <2>6, NullFacts DEF Serving
    <3> HIDE DEF h
    <3> QED BY <2>1, <2>2, <2>4, <2>5, <2>6, <3>1 DEF Reported
  <2>7. CASE /\ cur' = h /\ cache' = cache
             /\ h.type = "MCU_LAN" => ~command_success'
             /\ h.type # "MCU_LAN" /\ h.source = "HTTP" /\ command_success'
                  => <<h.waiter, h.section>> \in taken'
    <3>1. h.waiter = post /\ command_success' => Done'
      <4> HAVE h.waiter = post /\ command_success'
      <4>1. <<post, sending>> \in taken'
        BY <2>3, <2>7
      <4> QED BY <2>1, <4>1 DEF Done
    <3> HIDE DEF h
    <3> QED BY <2>1, <2>2, <2>3, <2>5, <2>7, <3>1 DEF Reported
  <2> QED BY <1>7, <2>6, <2>7, ReceiveEffect
<1>8. CASE config_handler_publish_result
  <2>1. /\ UNCHANGED <<queue, cur, cache, upWaiter, httpd, post, timedOut>>
        /\ UNCHANGED <<command_success, taken, sending>>
        /\ WriteResult(cur.waiter, command_success, "config")
    BY <1>8 DEF config_handler_publish_result, upVars, httpVars, setVars
  <2>2. \/ waiter' = waiter
        \/ cur.waiter = post /\ (waiter'.success => command_success)
    BY <2>1 DEF WriteResult, Control, Alive, Serving
  <2> QED BY <2>1, <2>2 DEF Reported, Done
<1>9. CASE GiveAndFree
  <2>1. /\ UNCHANGED <<queue, cache, upWaiter, httpd, post, timedOut>>
        /\ UNCHANGED <<command_success, taken, sending>>
        /\ GiveResult(cur.waiter) /\ cur' = NoCommand
    BY <1>9 DEF GiveAndFree, upVars, httpVars, setVars
  <2>2. waiter'.success = waiter.success
    BY <2>1, GiveFacts
  <2>3. httpd = "wait" => cur'.waiter # post
    BY <2>1, NullFacts DEF Serving
  <2> QED BY <2>1, <2>2, <2>3 DEF Reported, Done
<1>10. CASE Restart
  BY <1>10 DEF Restart, Reported
<1>11. CASE DeliverConfig
  <2>1. /\ UNCHANGED <<queue, cur, upWaiter, httpd, post, waiter, timedOut>>
        /\ UNCHANGED <<command_success, taken, sending>>
        /\ cache'.waiter = cache.waiter
    BY <1>11 DEF DeliverConfig, upVars, httpVars, taskVars, Travelling, setVars
  <2> QED BY <2>1 DEF Reported, Done
<1>12. CASE process_data_from_lan
  <2>1. /\ UNCHANGED <<queue, cur, upWaiter, httpd, post, waiter, timedOut>>
        /\ UNCHANGED <<command_success, taken, sending, cache>>
    BY <1>12 DEF process_data_from_lan, httpVars, taskVars, setVars
  <2> QED BY <2>1 DEF Reported, Done
<1>13. CASE mcu_lan_handler_take_config_result_waiter
  <2>1. UNCHANGED <<queue, cur, httpd, post, waiter, timedOut, taken, sending,
                    command_success>>
    BY <1>13 DEF mcu_lan_handler_take_config_result_waiter, httpVars,
        taskVars, setVars
  <2>2. httpd = "wait" => post \in 1..MaxPosts
    BY BoundsAssumption DEF Serving, Waiters
  <2>3. httpd = "wait" /\ (cache'.waiter = post \/ upWaiter' = post) =>
          cache.waiter = post
    BY <1>13, <2>2, TakeHeld
  <2> QED BY <2>1, <2>3 DEF Reported, Done
<1>14. CASE config_handler_publish_result_from_line
  <2>1. UNCHANGED <<queue, cur, cache, httpd, post, timedOut, taken, sending,
                    command_success>>
    BY <1>14 DEF config_handler_publish_result_from_line, taskVars,
        httpVars, setVars
  <2>2. frame.ok \in BOOLEAN
    BY DEF Travelling
  <2>3. CASE /\ WriteResult(upWaiter, frame.ok,
                            IF frame.kind = "ack" THEN "lan" ELSE "data")
             /\ upWaiter' = upWaiter
    <3>1. waiter' = waiter \/ upWaiter = post
      BY <2>2, <2>3, WriteFacts DEF Alive
    <3> QED BY <2>1, <2>3, <3>1 DEF Reported, Done
  <2>4. CASE GiveResult(upWaiter) /\ upWaiter' = NULL
    <3>1. waiter'.success = waiter.success
      BY <2>4, GiveFacts
    <3>2. httpd = "wait" => upWaiter' # post
      BY <2>4, NullFacts DEF Serving
    <3> QED BY <2>1, <3>1, <3>2 DEF Reported, Done
  <2> QED BY <1>14, <2>3, <2>4 DEF config_handler_publish_result_from_line
<1>15. CASE UNCHANGED vars
  BY <1>15 DEF vars, Reported, Done, taskVars, httpVars, upVars, setVars
<1> QED
  BY <1>1, <1>2, <1>3, <1>4, <1>5, <1>6, <1>7, <1>8, <1>9, <1>10, <1>11,
     <1>12, <1>13, <1>14, <1>15
  DEF Next, Httpd, ConfigTask, Uplink

(* A section is passed over only with an error.                            *)
LEMMA ForgottenStep ==
  ASSUME Control, Travelling, Serving, Counted, Past, Reported,
         NoneForgotten, [Next]_vars
  PROVE  NoneForgotten'
<1>1. ASSUME NEW b \in Bodies, BeginPost(b) PROVE NoneForgotten'
  <2>1. /\ post' = post + 1 /\ timedOut' = timedOut
        /\ todo' = body' /\ reply' = "none"
    BY <1>1 DEF BeginPost
  <2>2. post' \notin timedOut
    BY <2>1, BoundsAssumption DEF Past, Serving, Waiters
  <2> QED BY <2>1, <2>2 DEF NoneForgotten, OkMeansTaken
<1>2. ASSUME NEW s \in Sections, BuildSection(s) PROVE NoneForgotten'
  <2>1. UNCHANGED <<post, timedOut, body, reply>>
    BY <1>2 DEF BuildSection
  <2>2. /\ httpd = "section" /\ todo' = todo \ {s} /\ taken \subseteq taken'
        /\ \/ httpd' = "wait" /\ sending' = s /\ errors' = errors
           \/ errors' = errors + 1 /\ httpd' = httpd
           \/ errors' = errors /\ httpd' = httpd /\ <<post, s>> \in taken'
    BY <1>2, BuildEffect
  <2>3. errors' = 0 => errors' = errors
    BY <2>2 DEF Counted
  <2> QED BY <2>1, <2>2, <2>3 DEF NoneForgotten, OkMeansTaken
<1>3. CASE ResultReceived
  <2>1. /\ UNCHANGED <<post, timedOut, body, reply, taken, todo>>
        /\ httpd = "wait" /\ httpd' = "section"
        /\ errors' = 0 => errors = 0 /\ waiter.success
    BY <1>3 DEF ResultReceived, EndWait, Counted, setVars
  <2>2. waiter.success /\ post \notin timedOut => Done
    BY <2>1 DEF Reported
  <2> QED BY <2>1, <2>2 DEF NoneForgotten, OkMeansTaken, Done
<1>4. CASE ResultTimeout
  <2>1. reply' = reply /\ httpd = "wait" /\ errors' # 0
    BY <1>4 DEF ResultTimeout, EndWait, Counted
  <2> QED BY <2>1 DEF NoneForgotten, OkMeansTaken
<1>5. CASE EndPost
  BY <1>5 DEF EndPost, NoneForgotten, OkMeansTaken, setVars
<1>6. ASSUME NEW o \in OtherCommands, OtherCommand(o[1], o[2]) PROVE
      NoneForgotten'
  BY <1>6
  DEF OtherCommand, NoneForgotten, OkMeansTaken, taskVars, httpVars,
      upVars, setVars
<1>7. CASE ReceiveCommand
  <2>1. UNCHANGED httpVars /\ timedOut' = timedOut
    BY <1>7 DEF ReceiveCommand
  <2>2. taken \subseteq taken'
    BY <1>7, ReceiveEffect
  <2> QED BY <2>1, <2>2 DEF NoneForgotten, OkMeansTaken, httpVars
<1>8. CASE config_handler_publish_result
  BY <1>8
  DEF config_handler_publish_result, NoneForgotten, OkMeansTaken, taskVars,
      httpVars, upVars, setVars
<1>9. CASE GiveAndFree
  BY <1>9
  DEF GiveAndFree, NoneForgotten, OkMeansTaken, taskVars, httpVars,
      upVars, setVars
<1>10. CASE Restart
  BY <1>10 DEF Restart, NoneForgotten, OkMeansTaken
<1>11. CASE DeliverConfig
  BY <1>11
  DEF DeliverConfig, NoneForgotten, OkMeansTaken, taskVars, httpVars,
      upVars, setVars
<1>12. CASE process_data_from_lan
  BY <1>12
  DEF process_data_from_lan, NoneForgotten, OkMeansTaken, taskVars, httpVars,
      upVars, setVars
<1>13. CASE mcu_lan_handler_take_config_result_waiter
  BY <1>13
  DEF mcu_lan_handler_take_config_result_waiter, NoneForgotten, OkMeansTaken,
      taskVars, httpVars, upVars, setVars
<1>14. CASE config_handler_publish_result_from_line
  BY <1>14
  DEF config_handler_publish_result_from_line, NoneForgotten, OkMeansTaken,
      taskVars, httpVars, upVars, setVars
<1>15. CASE UNCHANGED vars
  BY <1>15 DEF vars, NoneForgotten, OkMeansTaken, taskVars, httpVars,
      upVars, setVars
<1> QED
  BY <1>1, <1>2, <1>3, <1>4, <1>5, <1>6, <1>7, <1>8, <1>9, <1>10, <1>11,
     <1>12, <1>13, <1>14, <1>15
  DEF Next, Httpd, ConfigTask, Uplink

(* The parts of Inv that give TypeOK.                                      *)
LEMMA TypeParts ==
  ASSUME Control, Travelling, Serving, Counted, Past
  PROVE  TypeOK
<1>1. \A i \in DOMAIN queue : IsCommand(queue[i])
  BY CommandFields DEF Travelling, Command
<1>2. IsCommand(cur) /\ IsCommand(cache.of) /\ IsCommand(frame.of)
  BY CommandFields DEF Travelling
<1>3. \A c \in lan : IsCommand(c)
  BY CommandFields DEF Travelling
<1>4. errors \in 0..Cardinality(body)
  BY BodyFinite DEF Counted
<1>5. timedOut \subseteq Waiters
  BY BoundsAssumption DEF Past, Serving, Waiters
<1> QED BY <1>1, <1>2, <1>3, <1>4, <1>5
    DEF TypeOK, Control, Travelling, Serving, Past

(* The initial state satisfies Inv.                                        *)
LEMMA InitInv == Init => Inv
<1> SUFFICES ASSUME Init PROVE Inv
  OBVIOUS
<1> USE DEF Init
<1>1. Control /\ Sourced /\ LastAnswerReachesSource /\ InHand
  BY NullFacts DEF Control, Sourced, LastAnswerReachesSource, InHand, NotRouted
<1>2. Travelling
  BY NullFacts, BoundsAssumption DEF Travelling
<1>3. Serving /\ Past
  BY NullFacts, BoundsAssumption DEF Serving, Past, NotRouted
<1>4. Counted
  BY FS_EmptySet DEF Counted
<1>5. \A w \in 1..MaxPosts : ~Held(w)
  BY NullFacts DEF Held, InQueue
<1>6. OnlyWaiting
  BY <1>5 DEF OnlyWaiting
<1>7. AtMostOne /\ AtLeastOne /\ Reported /\ NoneForgotten
  BY DEF AtMostOne, AtLeastOne, Reported, NoneForgotten, OkMeansTaken
<1> QED BY <1>1, <1>2, <1>3, <1>4, <1>6, <1>7 DEF Inv

(* Inv holds in every state.                                               *)
LEMMA Invariance == Spec => []Inv
<1>1. Inv /\ [Next]_vars => Inv'
  <2> SUFFICES ASSUME Inv, [Next]_vars PROVE Inv'
    OBVIOUS
  <2>1. Control' /\ Travelling' /\ Serving' /\ Counted' /\ Past'
    BY ControlStep, TravelStep, ServingStep, CountedStep, PastStep DEF Inv
  <2>2. Sourced' /\ LastAnswerReachesSource' /\ InHand'
    BY SourcedStep, RoutedStep, InHandStep DEF Inv
  <2>3. OnlyWaiting' /\ AtMostOne' /\ AtLeastOne'
    BY OnlyStep, MostStep, LeastStep DEF Inv
  <2>4. Reported' /\ NoneForgotten'
    BY ReportedStep, ForgottenStep DEF Inv
  <2> QED BY <2>1, <2>2, <2>3, <2>4 DEF Inv
<1> QED BY <1>1, InitInv, PTL DEF Spec

(* One holder at the most and one at least make one.                       *)
LEMMA HeldOnce ==
  ASSUME Travelling, Serving, AtMostOne, AtLeastOne
  PROVE  WaiterHeldOnce
<1> SUFFICES ASSUME httpd = "wait", ~waiter.given,
                    post \notin timedOut \cup overwritten
             PROVE  Cardinality(Holders(post)) = 1
  BY DEF WaiterHeldOnce
<1>1. post # 0 /\ Held(post)
  BY DEF Serving, AtLeastOne
<1>2. DOMAIN queue = 1..Len(queue)
  BY DEF Travelling
<1>3. \E x : Holders(post) = {x}
  <2>1. CASE InQueue(post)
    <3>1. PICK j \in 1..Len(queue) : queue[j].waiter = post
      BY <2>1 DEF InQueue
    <3>2. {k \in DOMAIN queue : queue[k].waiter = post} = {j}
      BY <1>1, <1>2, <3>1 DEF AtMostOne
    <3>3. Holders(post) = {<<"queue", j>>}
      BY <1>1, <2>1, <3>2 DEF Holders, AtMostOne
    <3> QED BY <3>3
  <2>2. CASE ~InQueue(post)
    <3>1. {k \in DOMAIN queue : queue[k].waiter = post} = {}
      BY <1>2, <2>2 DEF InQueue
    <3>2. CASE cur.waiter = post
      BY <1>1, <3>1, <3>2 DEF Holders, AtMostOne
    <3>3. CASE cache.waiter = post
      BY <1>1, <3>1, <3>3 DEF Holders, AtMostOne
    <3>4. CASE upWaiter = post
      BY <1>1, <3>1, <3>4 DEF Holders, AtMostOne
    <3> QED BY <1>1, <2>2, <3>2, <3>3, <3>4 DEF Held
  <2> QED BY <2>1, <2>2
<1> QED BY <1>3, FS_Singleton

-----------------------------------------------------------------------------
(* Every variable keeps its type: commands are never mixed up with their   *)
(* waiters or sections, and a POST counts at most one error per section.   *)
THEOREM TypeCorrect == Spec => []TypeOK
  BY Invariance, TypeParts, PTL DEF Inv

(* A waiter of a POST that has returned is written only if one of its      *)
(* waits timed out.                                                        *)
THEOREM FaultsNeedTimeouts == Spec => []FaultNeedsTimeout
<1>1. Inv => FaultNeedsTimeout
  BY DEF Inv, OnlyWaiting, FaultNeedsTimeout
<1> QED BY <1>1, Invariance, PTL

(* While a POST waits, exactly one of the queue, the configuration task,   *)
(* the cache and the uplink task holds its waiter.                         *)
THEOREM WaitersHeldOnce == Spec => []WaiterHeldOnce
<1>1. Inv => WaiterHeldOnce
  BY HeldOnce DEF Inv
<1> QED BY <1>1, Invariance, PTL

(* A POST that is answered "ok" has every section that concerns this MCU   *)
(* in the settings in use.                                                 *)
THEOREM OkIsTaken == Spec => []OkMeansTaken
<1>1. Inv => OkMeansTaken
  BY DEF Inv, NoneForgotten
<1> QED BY <1>1, Invariance, PTL

(* The LAN MCU's answer to the last command goes where the command came    *)
(* from.                                                                   *)
THEOREM AnswersReachSource == Spec => []LastAnswerReachesSource
<1>1. Inv => LastAnswerReachesSource
  BY DEF Inv
<1> QED BY <1>1, Invariance, PTL

=============================================================================
