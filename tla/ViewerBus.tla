------------------------------ MODULE ViewerBus ------------------------------
(***************************************************************************)
(* The command channel of the viewer: Redis pub/sub, its publishers and    *)
(* the ViewerSubscriber thread (src/src/anthias_viewer/messaging.py).      *)
(*                                                                         *)
(* The server publishes through send_to_viewer(), which puts the topic     *)
(* word "viewer" before the command; two Celery paths publish the bare     *)
(* command.  Pub/sub keeps nothing for an absent subscriber.  Redis may go *)
(* away at any moment, and the thread starts before main() has made the    *)
(* Scheduler that some of the handlers use.                                *)
(***************************************************************************)
EXTENDS Integers, Sequences

CONSTANTS
    Command,            \* the commands that are published
    NeedsScheduler,     \* those whose handler dereferences the scheduler
    InitialDelay,       \* INITIAL_RETRY_DELAY_S
    MaxDelay,           \* MAX_RETRY_DELAY_S
    MaxQueue,           \* bound: messages waiting on the connection
    MaxOutages,         \* bound: times Redis goes away
    MaxMessages         \* bound: messages published

BusAssumption ==
    /\ NeedsScheduler \subseteq Command
    /\ "reload" \in Command
    /\ InitialDelay \in Nat \ {0}
    /\ MaxDelay \in Nat /\ InitialDelay <= MaxDelay
    /\ MaxQueue \in Nat /\ MaxOutages \in Nat /\ MaxMessages \in Nat

VARIABLES
    redisUp,
    outages, published,     \* bounds
    queue,          \* what Redis has delivered on the subscription
    subscribed,     \* Redis knows the subscription
    thread,         \* where ViewerSubscriber.run() is
    delay,
    readyFlag,      \* the key viewer-subscriber-ready
    schedulerReady, \* main() has assigned the global scheduler
    reloads         \* reload messages handed to _handle_reload, modulo 2

vars == <<redisUp, outages, published, queue, subscribed, thread, delay,
          readyFlag, schedulerReady, reloads>>

Message == [topic : BOOLEAN, command : Command]

\* Besides the types: a working subscriber is back at the initial delay, so a
\* later outage does not start from an earlier one's back-off.
TypeOK ==
    /\ redisUp \in BOOLEAN
    /\ outages \in 0..MaxOutages
    /\ published \in 0..MaxMessages
    /\ queue \in Seq(Message) /\ Len(queue) <= MaxQueue
    /\ subscribed \in BOOLEAN
    /\ thread \in {"subscribe", "announce", "consume", "lost", "sleep", "dead"}
    /\ delay \in InitialDelay..MaxDelay
    /\ thread = "consume" => delay = InitialDelay
    /\ readyFlag \in BOOLEAN
    /\ schedulerReady \in BOOLEAN
    /\ reloads \in {0, 1}

Init ==
    /\ redisUp \in BOOLEAN
    /\ outages = 0 /\ published = 0
    /\ queue = <<>> /\ subscribed = FALSE
    /\ thread = "subscribe" /\ delay = InitialDelay
    /\ readyFlag = FALSE
    /\ schedulerReady = FALSE
    /\ reloads = 0

-----------------------------------------------------------------------------
(* Redis, the publishers and main(). *)

RedisGoesDown ==
    /\ redisUp /\ outages < MaxOutages
    /\ redisUp' = FALSE
    /\ outages' = outages + 1
    /\ queue' = <<>> /\ subscribed' = FALSE
    /\ UNCHANGED <<published, thread, delay, readyFlag, schedulerReady,
                   reloads>>

RedisComesUp ==
    /\ ~redisUp
    /\ redisUp' = TRUE
    /\ UNCHANGED <<outages, published, queue, subscribed, thread, delay,
                   readyFlag, schedulerReady, reloads>>

Deliver(m) ==
    /\ redisUp
    /\ published < MaxMessages
    /\ Len(queue) < MaxQueue
    /\ published' = published + 1
    /\ queue' = IF subscribed THEN Append(queue, m) ELSE queue
    /\ UNCHANGED <<redisUp, outages, subscribed, thread, delay, readyFlag,
                   schedulerReady, reloads>>

\* ViewerPublisher.send_to_viewer
SendToViewer(c) == Deliver([topic |-> TRUE, command |-> c])

\* _notify() after a normalisation and probe_video_duration() publish "reload"
\* without the topic word.
CeleryPublishReload == Deliver([topic |-> FALSE, command |-> "reload"])

SchedulerStarts ==
    /\ ~schedulerReady
    /\ schedulerReady' = TRUE
    /\ UNCHANGED <<redisUp, outages, published, queue, subscribed, thread,
                   delay, readyFlag, reloads>>

-----------------------------------------------------------------------------
(* ViewerSubscriber.run() *)

Subscribe ==
    /\ thread = "subscribe"
    /\ thread' = IF redisUp THEN "announce" ELSE "lost"
    /\ subscribed' = redisUp
    /\ UNCHANGED <<redisUp, outages, published, queue, delay, readyFlag,
                   schedulerReady, reloads>>

Announce ==
    /\ thread = "announce"
    /\ IF redisUp
       THEN readyFlag' = TRUE /\ delay' = InitialDelay /\ thread' = "consume"
       ELSE thread' = "lost" /\ UNCHANGED <<readyFlag, delay>>
    /\ UNCHANGED <<redisUp, outages, published, queue, subscribed,
                   schedulerReady, reloads>>

\* _consume(): a message whose topic word is missing is passed over; a handler
\* that raises anything but a ConnectionError ends the thread.
Handles(m) == m.topic
Raises(m) == m.command \in NeedsScheduler /\ ~schedulerReady

Consume ==
    LET m == Head(queue) IN
    /\ thread = "consume"
    /\ queue # <<>>
    /\ IF Handles(m) /\ Raises(m)
       THEN /\ thread' = "dead" /\ subscribed' = FALSE /\ queue' = <<>>
            /\ UNCHANGED reloads
       ELSE /\ queue' = Tail(queue)
            /\ reloads' = IF Handles(m) /\ m.command = "reload"
                          THEN 1 - reloads ELSE reloads
            /\ UNCHANGED <<thread, subscribed>>
    /\ UNCHANGED <<redisUp, outages, published, delay, readyFlag,
                   schedulerReady>>

\* listen() finds the connection gone.
ConsumeLosesConnection ==
    /\ thread = "consume"
    /\ ~subscribed
    /\ thread' = "lost"
    /\ UNCHANGED <<redisUp, outages, published, queue, subscribed, delay,
                   readyFlag, schedulerReady, reloads>>

\* The except branch and the finally branch (pubsub.close()).
MarkUnready ==
    /\ thread = "lost"
    /\ thread' = "sleep"
    /\ readyFlag' = IF redisUp THEN FALSE ELSE readyFlag
    /\ subscribed' = FALSE /\ queue' = <<>>
    /\ UNCHANGED <<redisUp, outages, published, delay, schedulerReady,
                   reloads>>

Retry ==
    /\ thread = "sleep"
    /\ delay' = IF delay * 2 < MaxDelay THEN delay * 2 ELSE MaxDelay
    /\ thread' = "subscribe"
    /\ UNCHANGED <<redisUp, outages, published, queue, subscribed, readyFlag,
                   schedulerReady, reloads>>

Run ==
    \/ Subscribe \/ Announce \/ Consume \/ ConsumeLosesConnection
    \/ MarkUnready \/ Retry

Next ==
    \/ RedisGoesDown \/ RedisComesUp
    \/ \E c \in Command : SendToViewer(c)
    \/ CeleryPublishReload
    \/ SchedulerStarts
    \/ Run

Spec == Init /\ [][Next]_vars

\* The thread is scheduled; wait_for_server() and wait_for_db_schema() let
\* main() reach the Scheduler; the container runtime restarts Redis.
FairSpec ==
    /\ Spec
    /\ WF_vars(Run) /\ WF_vars(SchedulerStarts) /\ WF_vars(RedisComesUp)

-----------------------------------------------------------------------------
(* Properties *)

\* Unless a handler killed it, the subscriber ends up listening again after
\* the last outage, with nothing left to consume.
SubscriberIsBack ==
    thread = "dead" \/ (thread = "consume" /\ subscribed /\ queue = <<>>)
SubscriberComesBack == []<>SubscriberIsBack

-----------------------------------------------------------------------------
(* What comments and docs say and the code does not do. *)

\* "re-subscribe ... instead of letting the thread die silently (which would
\* leave the viewer unable to receive" commands "for the rest of the process
\* lifetime)".
SubscriberSurvives == thread # "dead"

\* "Tell the viewer to reload its playlist now": a reload that reaches the
\* subscriber is handed to _handle_reload().
ReloadReachesHandler ==
    [][ (queue # <<>> /\ Head(queue).command = "reload"
            /\ queue' = Tail(queue) /\ redisUp')
            => reloads' # reloads ]_vars

=============================================================================
