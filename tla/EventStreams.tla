---------------------------- MODULE EventStreams ----------------------------
(***************************************************************************)
(* GET /api/devices/events and the event bus behind it.  Three kinds of    *)
(* threads meet here: the MQTT thread publishes a change of a device to    *)
(* the subscribers, one after the other; the event loop opens, resumes and *)
(* closes the streams; and a limited number of executor threads wait on    *)
(* their queues, up to 15 seconds each.                                    *)
(*                                                                         *)
(* The list of subscribers is not copied or locked: the MQTT thread walks  *)
(* it by position while the event loop changes it.  Each step is one       *)
(* bytecode-atomic access to what is shared.                               *)
(***************************************************************************)
EXTENDS Integers, Sequences, FiniteSets, SequencesExt

CONSTANTS
    NoEvent,    \* nothing is published, or a wait ended without an event
    Threads,    \* threads of the executor
    MaxStreams, \* bound: requests for /events
    MaxEvents   \* bound: changes of devices

ASSUME StreamAssumption ==
    /\ Threads \in Nat \ {0} /\ MaxStreams \in Nat /\ MaxEvents \in Nat
    /\ NoEvent \notin Nat

Event == 1..MaxEvents
Stream == 1..MaxStreams \* numbered in the order they open

VARIABLES
    subscribers, \* _subscribers[DeviceStateChangedEvent]
    published,   \* events published so far
    publishing,  \* the event publish() is at, or NoEvent
    position,    \* the position it will look at next
    phase,       \* phase[s]: "new", "opened" (subscribed), "waiting" (in to_thread), "gone"
    queue,       \* queue[s]: `events`
    waiting,     \* calls of events.get no executor thread has taken yet
    running,     \* streams whose call a thread is in
    answer,      \* answer[s]: what the call returned, <<>> if the generator has not been resumed
    told,        \* told[s]: what the client has been sent while it is there
    \* what the properties remember:
    owed         \* owed[s]: events published while s was open

busVars == <<subscribers, published, publishing, position>>
poolVars == <<waiting, running>>
streamVars == <<busVars, poolVars, phase, queue, answer, told, owed>>

IsOpen(s) == phase[s] \in {"opened", "waiting"}

StreamsInit ==
    /\ subscribers = <<>>
    /\ published = 0 /\ publishing = NoEvent /\ position = 1
    /\ phase = [s \in Stream |-> "new"]
    /\ queue = [s \in Stream |-> <<>>]
    /\ waiting = <<>> /\ running = {}
    /\ answer = [s \in Stream |-> <<>>]
    /\ told = [s \in Stream |-> <<>>]
    /\ owed = [s \in Stream |-> {}]

\* stream_device_events: subscribes before the generator has started.
Open(s) ==
    /\ phase[s] = "new" /\ \A u \in 1..(s - 1) : phase[u] # "new"
    /\ phase' = [phase EXCEPT ![s] = "opened"]
    /\ subscribers' = Append(subscribers, s)
    /\ UNCHANGED <<published, publishing, position, poolVars, queue, answer, told, owed>>

\* asyncio.to_thread(events.get, True, 15): the call joins the queue of the executor.
AskAgain(s) == waiting' = Append(waiting, s)

\* The server takes the first item of the generator.
Start(s) ==
    /\ phase[s] = "opened"
    /\ phase' = [phase EXCEPT ![s] = "waiting"]
    /\ AskAgain(s)
    /\ UNCHANGED <<busVars, running, queue, answer, told, owed>>

ThreadTakes ==
    /\ waiting # <<>>
    /\ Cardinality(running) < Threads
    /\ running' = running \cup {Head(waiting)}
    /\ waiting' = Tail(waiting)
    /\ UNCHANGED <<busVars, phase, queue, answer, told, owed>>

\* The thread is free again; a stream that has gone does not hear of it.
Returns(s, result) ==
    /\ running' = running \ {s}
    /\ answer' = IF phase[s] = "waiting" THEN [answer EXCEPT ![s] = <<result>>] ELSE answer

GetsEvent(s) ==
    /\ s \in running /\ queue[s] # <<>>
    /\ queue' = [queue EXCEPT ![s] = Tail(@)]
    /\ Returns(s, Head(queue[s]))
    /\ UNCHANGED <<busVars, waiting, phase, told, owed>>

\* Fault: events.get without its timeout.
FaultTimesOut(s) == FALSE /\ UNCHANGED streamVars

\* 15 seconds without an event: Empty.
TimesOut(s) ==
    /\ s \in running /\ queue[s] = <<>>
    /\ Returns(s, NoEvent)
    /\ UNCHANGED <<busVars, waiting, phase, queue, told, owed>>

\* The event in hand, if the wait ended with one.
InReply(s) == IF answer[s] = <<NoEvent>> THEN <<>> ELSE answer[s]

\* The generator goes on: an event or a keep-alive is sent, and it asks again.
Resume(s) ==
    /\ phase[s] = "waiting" /\ answer[s] # <<>>
    /\ told' = [told EXCEPT ![s] = @ \o InReply(s)]
    /\ answer' = [answer EXCEPT ![s] = <<>>]
    /\ AskAgain(s)
    /\ UNCHANGED <<busVars, running, phase, queue, owed>>

\* Fault: the handler at the head of the list is removed instead of the stream's own.
FaultUnsubscribe(s) == Tail(subscribers)

Unsubscribe(s) == RemoveFirst(subscribers, s)

\* Nobody reads the list at a position that has just been taken away: whoever is behind the
\* removed subscriber moves up, past the publisher if it stands there.
Skipped(s) ==
    {u \in Stream : publishing # NoEvent /\ SelectInSeq(subscribers, LAMBDA x : x = s) < position
                    /\ position <= Len(subscribers) /\ u = subscribers[position]}

\* The client closes the connection while the generator is suspended: `finally` unsubscribes
\* it.  A call no thread has taken is cancelled; one that is running waits on, for nobody.
Leave(s) ==
    /\ phase[s] = "waiting"
    /\ phase' = [phase EXCEPT ![s] = "gone"]
    /\ subscribers' = Unsubscribe(s)
    /\ waiting' = RemoveFirst(waiting, s)
    /\ answer' = [answer EXCEPT ![s] = <<>>]
    /\ owed' = [u \in Stream |->
                  IF u = s THEN {}
                  ELSE IF u \in Skipped(s) THEN owed[u] \ {publishing} ELSE owed[u]]
    /\ told' = [told EXCEPT ![s] = <<>>]
    /\ UNCHANGED <<published, publishing, position, running, queue>>

\* The client closes it before the generator has started: its body has not been entered, so no
\* `finally` runs, and the subscriber stays with a queue nobody reads.
LeaveEarly(s) ==
    /\ phase[s] = "opened"
    /\ phase' = [phase EXCEPT ![s] = "gone"]
    /\ owed' = [owed EXCEPT ![s] = {}]
    /\ UNCHANGED <<busVars, poolVars, queue, answer, told>>

\* update_state has committed on the MQTT thread and calls publish().
Publish ==
    /\ publishing = NoEvent /\ published < MaxEvents
    /\ published' = published + 1
    /\ publishing' = published + 1
    /\ position' = 1
    /\ owed' = [s \in Stream |-> IF IsOpen(s) THEN owed[s] \cup {published + 1} ELSE owed[s]]
    /\ UNCHANGED <<subscribers, poolVars, phase, queue, answer, told>>

\* One turn of publish(): the iterator looks at its position in the list as it is now.
NextHandler ==
    /\ publishing # NoEvent
    /\ IF position <= Len(subscribers)
       THEN /\ queue' = [queue EXCEPT ![subscribers[position]] = Append(@, publishing)]
            /\ position' = position + 1
            /\ UNCHANGED publishing
       ELSE publishing' = NoEvent /\ position' = 1 /\ UNCHANGED queue
    /\ UNCHANGED <<subscribers, published, poolVars, phase, answer, told, owed>>

StreamsNext ==
    \/ Publish \/ NextHandler \/ ThreadTakes
    \/ \E s \in Stream :
          \/ Open(s) \/ Start(s) \/ Resume(s) \/ Leave(s) \/ LeaveEarly(s)
          \/ GetsEvent(s) \/ TimesOut(s)

\* The threads go on: the publisher walks its list, the executor takes calls in order, every
\* wait ends after 15 seconds at the latest, and the event loop resumes what can be resumed.
\* Nothing is assumed of the clients or of the devices.
StreamsFairness ==
    /\ WF_streamVars(NextHandler) /\ WF_streamVars(ThreadTakes)
    /\ \A s \in Stream :
          /\ WF_streamVars(Start(s)) /\ WF_streamVars(Resume(s))
          /\ WF_streamVars(GetsEvent(s) \/ TimesOut(s))

StreamsSpec == StreamsInit /\ [][StreamsNext]_streamVars /\ StreamsFairness

-----------------------------------------------------------------------------
\* What has been put to s, in the order it arrived.
Received(s) == told[s] \o InReply(s) \o queue[s]

\* Every change that was published while a stream was open is on its way to the client, once and
\* in order, whichever other streams open and leave meanwhile; excepted is the one subscriber that
\* moves up to the publisher's position when an earlier one is removed, which publish() passes over.
StreamsTellEveryChange ==
    \A s \in Stream : IsOpen(s) =>
        /\ \A i, j \in DOMAIN Received(s) : i < j => Received(s)[i] < Received(s)[j]
        /\ publishing = NoEvent => owed[s] \subseteq ToSet(Received(s))

\* What has been put in the queue of an open stream reaches its client, or the client leaves, with
\* fewer executor threads than streams too: a wait for a quiet stream ends and makes room.
EventsReachTheirClient ==
    \A s \in Stream :
        (IsOpen(s) /\ Received(s) # told[s]) ~> (Received(s) = told[s] \/ phase[s] = "gone")
=============================================================================
