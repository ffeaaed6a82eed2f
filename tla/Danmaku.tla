------------------------------ MODULE Danmaku ------------------------------
(***************************************************************************)
(* Comments on one segment of a video: publishing, the history with its    *)
(* cache in Redis, and the realtime connections of one API instance.       *)
(*                                                                         *)
(* A request inserts a comment, invalidates the cached segment and         *)
(* publishes the comment on a Redis channel, best effort.  The subscriber  *)
(* of the instance hands what it receives to the hub.  The hub is one      *)
(* goroutine; it owns the registry of connections and talks to the         *)
(* goroutines of each connection through channels: the handler, which      *)
(* registers, reads and unregisters, and the writer.  Stop may find the    *)
(* connections and requests anywhere.                                      *)
(***************************************************************************)
EXTENDS Integers, Sequences, FiniteSets

CONSTANTS
    Messages,      \* comments, by client message identifier
    Publishers,    \* requests that publish, at most so many at once
    Readers,       \* instances that load the segment; one load each at a time
    Clients,       \* connections
    QueueSize,     \* of the broadcast queue of the hub
    SendSize,      \* of the send queue of a connection
    MaxAttempts,   \* bound on the requests that publish
    RetryAttempts, \* how often the Redis client repeats a command
    MaxFailures    \* bound on crashes, lost replies, broken subscriptions and timeouts

NoMessage == "no message"
NoClient == "no client"
Ready == "connection ready"
Error == "protocol error"

ASSUME DanmakuConstants ==
    /\ QueueSize \in Nat \ {0} /\ SendSize \in Nat \ {0}
    /\ MaxAttempts \in Nat /\ MaxFailures \in Nat /\ RetryAttempts \in Nat
    /\ IsFiniteSet(Clients)
    /\ {Ready, Error} \cap (Messages \X (0 .. RetryAttempts)) = {}

VARIABLES
    stored,      \* MySQL: the comments of the segment
    cache,       \* Redis: {the cached segment}, or NoSegment
    publisher,   \* request |-> its step, its comment, whether it inserted it
    attempts,    \* requests so far
    resent,      \* comment |-> replies to its PUBLISH that were lost
    reader,      \* instance |-> its step and what it has loaded
    channel,     \* copies of comments on their way to the subscription
    subscriber,  \* "subscribed", "down" or "stopped"
    queue,       \* broadcast queue of the hub
    hub,         \* the goroutine of the hub: its step, and the request it serves
    stopping,    \* Stop was called
    registered,  \* the registry of connections
    gauge,       \* the metric of open connections
    answered,    \* connections whose last request has its result
    client,      \* connection |-> step of its handler
    writer,      \* connection |-> state of its writer
    send,        \* connection |-> its send queue
    closed,      \* connections whose done channel is closed
    socket,      \* connections whose socket is open
    received,    \* connection |-> copies of comments the browser got
    timeouts,    \* connections that gave up waiting to be unregistered
    failures

history == <<stored, cache, publisher, attempts, reader>>
feed == <<resent, channel, subscriber, queue>>
hubState == <<hub, stopping, registered, gauge, answered>>
conns == <<client, writer, send, closed, socket, received, timeouts>>
vars == <<history, feed, hubState, conns, failures>>

NoSegment == {}

\* What Redis passes on for the n-th repetition of the PUBLISH of comment m is
\* <<m, n>>.  The number is for the reader: subscribers see the comment only.
Copies == Messages \X (0 .. RetryAttempts)
Frames == Copies \cup {Ready, Error}

ClientSteps == {"new", "register", "await", "ready", "serve", "leave", "awaitLeave", "gone"}

TypeOK ==
    /\ stored \subseteq Messages
    /\ cache = NoSegment \/ \E segment \in SUBSET Messages : cache = {segment}
    /\ publisher \in [Publishers -> [pc : {"idle", "insert", "requery", "invalidate", "publish"},
                                     message : Messages \cup {NoMessage}, first : BOOLEAN]]
    /\ attempts \in 0 .. MaxAttempts
    /\ reader \in [Readers -> [pc : {"idle", "load", "store"}, seen : SUBSET Messages]]
    /\ resent \in [Messages -> 0 .. RetryAttempts]
    /\ channel \in Seq(Copies) /\ queue \in Seq(Copies) /\ Len(queue) <= QueueSize
    /\ subscriber \in {"subscribed", "down", "stopped"}
    /\ hub \in [pc : {"check", "select", "add", "remove", "done"}, client : Clients \cup {NoClient}]
    /\ stopping \in BOOLEAN
    /\ gauge \in Int
    /\ {registered, answered, closed, socket, timeouts} \subseteq SUBSET Clients
    /\ client \in [Clients -> ClientSteps]
    /\ writer \in [Clients -> {"none", "run", "done"}]
    /\ send \in [Clients -> Seq(Frames)]
    /\ received \in [Clients -> Seq(Copies)]
    /\ failures \in 0 .. MaxFailures

NoRequest == [pc |-> "idle", message |-> NoMessage, first |-> FALSE]
NoLoad == [pc |-> "idle", seen |-> {}]

Init ==
    /\ stored = {} /\ cache = NoSegment
    /\ publisher = [p \in Publishers |-> NoRequest] /\ attempts = 0
    /\ reader = [r \in Readers |-> NoLoad]
    /\ resent = [m \in Messages |-> 0]
    /\ channel = << >> /\ queue = << >> /\ subscriber = "subscribed"
    /\ hub = [pc |-> "check", client |-> NoClient]
    /\ stopping = FALSE /\ registered = {} /\ gauge = 0 /\ answered = {}
    /\ client = [c \in Clients |-> "new"]
    /\ writer = [c \in Clients |-> "none"]
    /\ send = [c \in Clients |-> << >>] /\ received = [c \in Clients |-> << >>]
    /\ closed = {} /\ socket = Clients /\ timeouts = {}
    /\ failures = 0

Failure == failures < MaxFailures /\ failures' = failures + 1

-----------------------------------------------------------------------------
(* Publish. *)

StepP(p, pc) == publisher' = [publisher EXCEPT ![p].pc = pc]
EndP(p) == publisher' = [publisher EXCEPT ![p] = NoRequest]

\* A request, or its retry by the browser, for a valid comment on a video that
\* is ready.
BeginPublish(p, m) ==
    /\ publisher[p].pc = "idle"
    /\ attempts < MaxAttempts
    /\ attempts' = attempts + 1
    /\ publisher' = [publisher EXCEPT ![p] = [pc |-> "insert", message |-> m, first |-> FALSE]]
    /\ UNCHANGED <<stored, cache, reader, feed, hubState, conns, failures>>

\* The unique key of the client message identifier decides who was first.
Insert(p) ==
    LET m == publisher[p].message IN
    /\ publisher[p].pc = "insert"
    /\ IF m \in stored
         THEN StepP(p, "requery") /\ UNCHANGED stored
         ELSE /\ publisher' = [publisher EXCEPT ![p].pc = "invalidate", ![p].first = TRUE]
              /\ stored' = stored \cup {m}
    /\ UNCHANGED <<cache, attempts, reader, feed, hubState, conns, failures>>

\* GetByClientMessage: the same content is a retry, another one a conflict.
Requery(p) ==
    /\ publisher[p].pc = "requery"
    /\ StepP(p, "invalidate") \/ EndP(p)
    /\ UNCHANGED <<stored, cache, attempts, reader, feed, hubState, conns, failures>>

\* Fault: a retry publishes the comment as well.
PublishesFault(p) == TRUE

\* Only the request that inserted the comment publishes it.
Publishes(p) == publisher[p].first

\* A failed invalidation is ignored; a repeated one does what ExpireSegment may
\* do at any time.
InvalidateSegment(p) ==
    /\ publisher[p].pc = "invalidate"
    /\ \/ cache' = NoSegment /\ UNCHANGED failures
       \/ cache # NoSegment /\ Failure /\ UNCHANGED cache
    /\ IF Publishes(p) THEN StepP(p, "publish") ELSE EndP(p)
    /\ UNCHANGED <<stored, attempts, reader, feed, hubState, conns>>

\* PUBLISH: Redis Pub/Sub keeps nothing for a subscription that is down.
Send(p) ==
    LET m == publisher[p].message IN
    channel' = IF subscriber = "subscribed" THEN Append(channel, <<m, resent[m]>>) ELSE channel

\* The command is answered, or was the last try: an error is only logged.
PublishRealtime(p) ==
    /\ publisher[p].pc = "publish"
    /\ Send(p)
    /\ EndP(p)
    /\ UNCHANGED <<stored, cache, attempts, reader, resent, subscriber, queue, hubState, conns,
                   failures>>

\* The reply is lost, and the client of the cache sends the command again.
PublishReplyLost(p) ==
    LET m == publisher[p].message IN
    /\ publisher[p].pc = "publish"
    /\ resent[m] < RetryAttempts
    /\ Failure
    /\ Send(p)
    /\ resent' = [resent EXCEPT ![m] = @ + 1]
    /\ UNCHANGED <<history, subscriber, queue, hubState, conns>>

\* The process ends, or the call fails.
PublishFails(p) ==
    /\ publisher[p].pc # "idle"
    /\ Failure
    /\ EndP(p)
    /\ UNCHANGED <<stored, cache, attempts, reader, feed, hubState, conns>>

-----------------------------------------------------------------------------
(* ListHistory: a miss loads the segment and stores it. *)

\* A GET that fails is a miss as well.
Miss(r) ==
    /\ reader[r].pc = "idle"
    /\ \/ cache = NoSegment /\ UNCHANGED failures
       \/ cache # NoSegment /\ Failure
    /\ reader' = [reader EXCEPT ![r].pc = "load"]
    /\ UNCHANGED <<stored, cache, publisher, attempts, feed, hubState, conns>>

Load(r) ==
    /\ reader[r].pc = "load"
    /\ reader' = [reader EXCEPT ![r] = [pc |-> "store", seen |-> stored]]
    /\ UNCHANGED <<stored, cache, publisher, attempts, feed, hubState, conns, failures>>

\* Nothing tells the reader that the segment was invalidated since it loaded it.
\* If the write fails, it still answers with what it loaded; if only the reply
\* is lost, the client writes again.
Store(r) ==
    /\ reader[r].pc = "store"
    /\ \/ /\ reader' = [reader EXCEPT ![r] = NoLoad]
          /\ \/ cache' = {reader[r].seen} /\ UNCHANGED failures
             \/ Failure /\ UNCHANGED cache
       \/ cache' = {reader[r].seen} /\ Failure /\ UNCHANGED reader
    /\ UNCHANGED <<stored, publisher, attempts, feed, hubState, conns>>

\* Fault: the segment is stored without an expiry.
ExpiresFault == FALSE

\* The segment expires after five minutes.
Expires == cache # NoSegment

ExpireSegment ==
    /\ Expires
    /\ cache' = NoSegment
    /\ UNCHANGED <<stored, publisher, attempts, reader, feed, hubState, conns, failures>>

-----------------------------------------------------------------------------
(* The subscriber. *)

\* Broadcast never waits: a hub that is stopping or has a full queue loses the
\* comment.
Broadcast(m) ==
    queue' = IF stopping \/ Len(queue) = QueueSize THEN queue ELSE Append(queue, m)

Consume ==
    /\ subscriber = "subscribed" /\ channel # << >>
    /\ channel' = Tail(channel)
    /\ Broadcast(Head(channel))
    /\ UNCHANGED <<history, resent, subscriber, hubState, conns, failures>>

SubscriptionBreaks ==
    /\ subscriber = "subscribed"
    /\ Failure
    /\ subscriber' = "down" /\ channel' = << >>
    /\ UNCHANGED <<history, resent, queue, hubState, conns>>

Resubscribe ==
    /\ subscriber = "down"
    /\ subscriber' = "subscribed"
    /\ UNCHANGED <<history, resent, channel, queue, hubState, conns, failures>>

StopSubscriber ==
    /\ subscriber # "stopped"
    /\ subscriber' = "stopped" /\ channel' = << >>
    /\ UNCHANGED <<history, resent, queue, hubState, conns, failures>>

-----------------------------------------------------------------------------
(* The goroutine of the hub. *)

HubAt(pc) == hub.pc = pc
HubStep(pc, c) == hub' = [pc |-> pc, client |-> c]

\* The loop looks at stopping first; the select that follows may still take
\* another event if both are ready.
Check ==
    /\ HubAt("check") /\ ~stopping
    /\ HubStep("select", NoClient)
    /\ UNCHANGED <<history, feed, stopping, registered, gauge, answered, conns, failures>>

TakeRegister(c) ==
    /\ HubAt("select") /\ client[c] = "register"
    /\ HubStep("add", c)
    /\ client' = [client EXCEPT ![c] = "await"]
    /\ UNCHANGED <<history, feed, stopping, registered, gauge, answered, writer, send, closed,
                   socket, received, timeouts, failures>>

Add ==
    /\ HubAt("add")
    /\ registered' = registered \cup {hub.client}
    /\ gauge' = gauge + 1
    /\ answered' = answered \cup {hub.client}
    /\ HubStep("check", NoClient)
    /\ UNCHANGED <<history, feed, stopping, conns, failures>>

TakeUnregister(c) ==
    /\ HubAt("select") /\ client[c] = "leave"
    /\ HubStep("remove", c)
    /\ client' = [client EXCEPT ![c] = "awaitLeave"]
    /\ answered' = answered \ {c}
    /\ UNCHANGED <<history, feed, stopping, registered, gauge, writer, send, closed, socket,
                   received, timeouts, failures>>

Remove ==
    LET c == hub.client IN
    /\ HubAt("remove")
    /\ registered' = registered \ {c}
    /\ closed' = closed \cup {c}
    /\ gauge' = IF c \in registered THEN gauge - 1 ELSE gauge
    /\ answered' = answered \cup {c}
    /\ HubStep("check", NoClient)
    /\ UNCHANGED <<history, feed, stopping, client, writer, send, socket, received, timeouts,
                   failures>>

\* A connection whose queue is full misses the comment; nobody waits for it.
BroadcastToVideo ==
    /\ HubAt("select") /\ queue # << >>
    /\ queue' = Tail(queue)
    /\ send' = [c \in Clients |-> IF c \in registered /\ Len(send[c]) < SendSize
                                    THEN Append(send[c], Head(queue))
                                    ELSE send[c]]
    /\ HubStep("check", NoClient)
    /\ UNCHANGED <<history, resent, channel, subscriber, stopping, registered, gauge, answered, client,
                   writer, closed, socket, received, timeouts, failures>>

\* The service stops the hub after the subscriber, or when waiting for that
\* took too long.
Stop ==
    /\ ~stopping
    /\ \/ subscriber = "stopped" /\ UNCHANGED failures
       \/ subscriber # "stopped" /\ Failure
    /\ stopping' = TRUE
    /\ UNCHANGED <<history, feed, hub, registered, gauge, answered, conns>>

\* Fault: the registry is emptied, its connections are not closed.
DrainedFault == closed

\* The connections the hub leaves behind are told to end.
Drained == closed \cup registered

Shutdown ==
    /\ hub.pc \in {"check", "select"} /\ stopping
    /\ closed' = Drained
    /\ registered' = {} /\ gauge' = gauge - Cardinality(registered)
    /\ HubStep("done", NoClient)
    /\ UNCHANGED <<history, feed, stopping, answered, client, writer, send, socket, received,
                   timeouts, failures>>

-----------------------------------------------------------------------------
(* The handler of a connection. *)

Goto(c, pc) == client' = [client EXCEPT ![c] = pc]

\* Upgrade and authentication have succeeded.
Connect(c) ==
    /\ client[c] = "new"
    /\ Goto(c, "register")
    /\ UNCHANGED <<history, feed, hubState, writer, send, closed, socket, received, timeouts,
                   failures>>

\* Authentication fails, or the request is cancelled before the hub takes it.
ConnectRejected(c) ==
    /\ client[c] \in {"new", "register"}
    /\ Goto(c, "gone")
    /\ socket' = socket \ {c}
    /\ UNCHANGED <<history, feed, hubState, writer, send, closed, received, timeouts, failures>>

Registered(c) ==
    /\ client[c] = "await" /\ c \in answered
    /\ Goto(c, "ready")
    /\ UNCHANGED <<history, feed, hubState, writer, send, closed, socket, received, timeouts,
                   failures>>

\* Register and Unregister return when the hub is stopping, whether or not it
\* has taken the request; the connection is closed either way.  A connection
\* without a writer is closed by its handler.
HubStopped(c) ==
    /\ stopping
    /\ client[c] \in {"register", "await", "leave", "awaitLeave"}
    /\ Goto(c, "gone")
    /\ closed' = closed \cup {c}
    /\ socket' = IF writer[c] = "none" THEN socket \ {c} ELSE socket
    /\ UNCHANGED <<history, feed, hubState, writer, send, received, timeouts, failures>>

\* Fault: a handler whose connection is too slow already just returns.
AfterFullQueueFault == "gone"

\* A connection that is too slow already is unregistered again.
AfterFullQueue == "leave"

\* Comments may have filled the queue since the connection was registered.
EnqueueReady(c) ==
    /\ client[c] = "ready"
    /\ IF Len(send[c]) < SendSize
         THEN /\ send' = [send EXCEPT ![c] = Append(@, Ready)]
              /\ writer' = [writer EXCEPT ![c] = "run"]
              /\ Goto(c, "serve")
         ELSE /\ Goto(c, AfterFullQueue)
              /\ UNCHANGED <<send, writer>>
    /\ UNCHANGED <<history, feed, hubState, closed, socket, received, timeouts, failures>>

\* The browser goes away, or its socket times out.
BrowserLeaves(c) ==
    /\ client[c] = "serve"
    /\ c \in socket
    /\ socket' = socket \ {c}
    /\ UNCHANGED <<history, feed, hubState, client, writer, send, closed, received, timeouts,
                   failures>>

\* A data frame is answered with an error; a connection with a full queue is
\* closed instead.
DataFrame(c) ==
    /\ client[c] = "serve" /\ c \in socket
    /\ IF Len(send[c]) < SendSize
         THEN send' = [send EXCEPT ![c] = Append(@, Error)] /\ UNCHANGED closed
         ELSE closed' = closed \cup {c} /\ UNCHANGED send
    /\ UNCHANGED <<history, feed, hubState, client, writer, socket, received, timeouts, failures>>

\* A frame that is not binary ends the reader; the socket stays open.
TextFrame(c) ==
    /\ client[c] = "serve" /\ c \in socket
    /\ Goto(c, "leave")
    /\ UNCHANGED <<history, feed, hubState, writer, send, closed, socket, received, timeouts,
                   failures>>

ReadFails(c) ==
    /\ client[c] = "serve" /\ c \notin socket
    /\ Goto(c, "leave")
    /\ UNCHANGED <<history, feed, hubState, writer, send, closed, socket, received, timeouts,
                   failures>>

\* The hub has not taken the request for ten seconds: the handler returns, and
\* the registry keeps the connection.
UnregisterTimesOut(c) ==
    /\ client[c] = "leave"
    /\ Failure
    /\ Goto(c, "gone")
    /\ timeouts' = timeouts \cup {c}
    /\ socket' = IF writer[c] = "none" THEN socket \ {c} ELSE socket
    /\ UNCHANGED <<history, feed, hubState, writer, send, closed, received>>

Left(c) ==
    /\ client[c] = "awaitLeave" /\ c \in answered
    /\ Goto(c, "gone")
    /\ socket' = IF writer[c] = "none" THEN socket \ {c} ELSE socket
    /\ UNCHANGED <<history, feed, hubState, writer, send, closed, received, timeouts, failures>>

HandlerStep(c) == Registered(c) \/ HubStopped(c) \/ EnqueueReady(c) \/ ReadFails(c) \/ Left(c)

-----------------------------------------------------------------------------
(* The writer of a connection. *)

WriteFrame(c) ==
    /\ writer[c] = "run" /\ send[c] # << >>
    /\ send' = [send EXCEPT ![c] = Tail(@)]
    /\ IF c \in socket
         THEN /\ received' = IF Head(send[c]) \in Copies
                               THEN [received EXCEPT ![c] = Append(@, Head(send[c]))]
                               ELSE received
              /\ UNCHANGED writer
         ELSE writer' = [writer EXCEPT ![c] = "done"] /\ UNCHANGED received
    /\ UNCHANGED <<history, feed, hubState, client, closed, socket, timeouts, failures>>

\* Fault: the writer ends with its handler only.
WriterDoneFault(c) == client[c] = "gone"

\* The done channel is closed, a ping fails, or the handler has returned, which
\* ends the context of the request.
WriterDone(c) == c \in closed \/ c \notin socket \/ client[c] = "gone"

WriterEnds(c) ==
    /\ writer[c] = "run" /\ WriterDone(c)
    /\ writer' = [writer EXCEPT ![c] = "done"]
    /\ closed' = IF client[c] = "gone" THEN closed \cup {c} ELSE closed
    /\ socket' = socket \ {c}
    /\ UNCHANGED <<history, feed, hubState, client, send, received, timeouts, failures>>

-----------------------------------------------------------------------------
HubEvent ==
    \/ Check \/ Add \/ Remove \/ BroadcastToVideo \/ Shutdown
    \/ \E c \in Clients : TakeRegister(c) \/ TakeUnregister(c)

PublisherStep(p) == Insert(p) \/ Requery(p) \/ InvalidateSegment(p) \/ PublishRealtime(p)

Next ==
    \/ \E p \in Publishers : PublisherStep(p) \/ PublishReplyLost(p) \/ PublishFails(p)
    \/ \E p \in Publishers, m \in Messages : BeginPublish(p, m)
    \/ \E r \in Readers : Miss(r) \/ Load(r) \/ Store(r)
    \/ ExpireSegment
    \/ Consume \/ SubscriptionBreaks \/ Resubscribe \/ StopSubscriber
    \/ HubEvent \/ Stop
    \/ \E c \in Clients :
         \/ Connect(c) \/ ConnectRejected(c) \/ BrowserLeaves(c) \/ DataFrame(c)
         \/ TextFrame(c) \/ UnregisterTimesOut(c)
         \/ HandlerStep(c) \/ WriteFrame(c) \/ WriterEnds(c)

Spec == Init /\ [][Next]_vars

\* The scheduler runs every goroutine; a select between a frame and the end of
\* the connection does not starve the end; time passes for the cache.
Fairness ==
    /\ WF_vars(HubEvent)
    /\ \A c \in Clients : WF_vars(HandlerStep(c)) /\ SF_vars(WriterEnds(c))
    /\ \A r \in Readers : WF_vars(Load(r) \/ Store(r))
    /\ WF_vars(ExpireSegment)

FairSpec == Spec /\ Fairness

-----------------------------------------------------------------------------
\* When the hub has stopped, every connection it ever took has been told to end
\* and none is counted, also one whose registration or removal was under way.
StoppedIsDrained ==
    hub.pc = "done" =>
      /\ registered = {} /\ gauge = 0
      /\ \A c \in Clients :
           client[c] \in {"await", "ready", "serve", "leave", "awaitLeave"} => c \in closed

\* While the hub runs, a connection whose handler has returned is no longer in
\* the registry, unless it gave up waiting for the hub.
GoneIsForgotten ==
    \A c \in Clients :
      client[c] = "gone" /\ ~stopping /\ c \notin timeouts => c \notin registered

\* No browser is sent one PUBLISH of a comment twice, however often the comment
\* is published again and however these requests overlap: it gets a comment at
\* most once, and once more for each reply to the PUBLISH that was lost (these
\* copies have one id, by which the client drops them).
PushedOncePerPublish ==
    \A c \in Clients : LET frames == received[c] \o send[c]
                       IN \A i, j \in 1 .. Len(frames) : frames[i] \in Copies =>
                            /\ frames[i] = frames[j] => i = j
                            /\ frames[i][2] <= resent[frames[i][1]]

\* After Stop every handler returns and every socket is closed in the end, and
\* stays so.
ConnectionsEnd ==
    \A c \in Clients :
      <>[](stopping /\ client[c] # "new" => client[c] = "gone" /\ c \notin socket)

\* A stored comment is in the cached segment in the end and stays there, though
\* readers that loaded the segment before may store it after the invalidation.
HistoryConverges ==
    \A m \in Messages : <>[](m \in stored => \A segment \in cache : m \in segment)
=============================================================================
