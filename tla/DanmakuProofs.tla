--------------------------- MODULE DanmakuProofs ---------------------------
(***************************************************************************)
(* Proofs about Danmaku, for every number of comments, requests, readers,  *)
(* connections, failures and every size of the queues.                     *)
(*                                                                         *)
(* Two invariants carry them.  HubInv follows a connection through its     *)
(* registration: between the moment the hub takes a request and the moment *)
(* it answers, the handler is waiting, or has returned because the hub is  *)
(* stopping.  PushInv follows a copy of a comment, one for each PUBLISH    *)
(* that is sent: the request that inserted the comment, the channel, the   *)
(* queue of the hub and the queue of a connection hold it one after the    *)
(* other, never two of them at once.                                       *)
(***************************************************************************)
EXTENDS Danmaku, FiniteSetTheorems, SequenceTheorems, TLAPS

-----------------------------------------------------------------------------
(***************************************************************************)
(* Types.                                                                  *)
(***************************************************************************)

HistoryTypes ==
    /\ stored \subseteq Messages
    /\ cache = NoSegment \/ \E segment \in SUBSET Messages : cache = {segment}
    /\ publisher \in [Publishers -> [pc : {"idle", "insert", "requery", "invalidate", "publish"},
                                     message : Messages \cup {NoMessage}, first : BOOLEAN]]
    /\ attempts \in 0 .. MaxAttempts
    /\ reader \in [Readers -> [pc : {"idle", "load", "store"}, seen : SUBSET Messages]]

FeedTypes ==
    /\ resent \in [Messages -> 0 .. RetryAttempts]
    /\ channel \in Seq(Copies) /\ queue \in Seq(Copies) /\ Len(queue) <= QueueSize
    /\ subscriber \in {"subscribed", "down", "stopped"}

HubTypes ==
    /\ hub \in [pc : {"check", "select", "add", "remove", "done"}, client : Clients \cup {NoClient}]
    /\ stopping \in BOOLEAN
    /\ gauge \in Int
    /\ registered \in SUBSET Clients /\ answered \in SUBSET Clients

ConnTypes ==
    /\ client \in [Clients -> ClientSteps]
    /\ writer \in [Clients -> {"none", "run", "done"}]
    /\ send \in [Clients -> Seq(Frames)]
    /\ received \in [Clients -> Seq(Copies)]
    /\ closed \in SUBSET Clients /\ socket \in SUBSET Clients /\ timeouts \in SUBSET Clients

\* While the hub serves a request it knows whose.
HubClient == hub.pc \in {"add", "remove"} => hub.client \in Clients

\* A request under way has a comment.
HasComment == \A p \in Publishers : publisher[p].pc # "idle" => publisher[p].message \in Messages

Types == TypeOK /\ HubClient /\ HasComment

\* The types of the four parts, before and after a step.
LEMMA TypeParts ==
    /\ TypeOK <=> HistoryTypes /\ FeedTypes /\ HubTypes /\ ConnTypes /\ failures \in 0 .. MaxFailures
    /\ TypeOK' <=> HistoryTypes' /\ FeedTypes' /\ HubTypes' /\ ConnTypes' /\ failures' \in 0 .. MaxFailures
  BY DEF TypeOK, HistoryTypes, FeedTypes, HubTypes, ConnTypes

\* A part that a step leaves alone keeps its types.
LEMMA SamePart ==
    /\ HistoryTypes /\ HasComment /\ UNCHANGED history => HistoryTypes' /\ HasComment'
    /\ FeedTypes /\ UNCHANGED feed => FeedTypes'
    /\ HubTypes /\ HubClient /\ UNCHANGED hubState => HubTypes' /\ HubClient'
    /\ ConnTypes /\ UNCHANGED conns => ConnTypes'
  BY DEF HistoryTypes, HasComment, history, FeedTypes, feed, HubTypes, HubClient, hubState,
         ConnTypes, conns

\* Everything is empty at the start, and no connection is open.
LEMMA TypesInit == Init => Types
  <1> SUFFICES ASSUME Init PROVE Types
    OBVIOUS
  <1> USE DEF Init
  <1>1. attempts \in 0 .. MaxAttempts /\ failures \in 0 .. MaxFailures
    BY DanmakuConstants DEF DanmakuConstants
  <1>2. HistoryTypes /\ HasComment
    BY <1>1 DEF HistoryTypes, HasComment, NoRequest, NoLoad, NoSegment
  <1>3. FeedTypes
    <2>1. << >> \in Seq(Copies) /\ Len(<< >>) = 0
      OBVIOUS
    <2>2. resent \in [Messages -> 0 .. RetryAttempts]
      BY DanmakuConstants DEF DanmakuConstants
    <2> QED
      BY <2>1, <2>2, DanmakuConstants DEF FeedTypes, DanmakuConstants
  <1>4. HubTypes /\ HubClient
    <2>1. stopping \in BOOLEAN
      BY Zenon
    <2>2. hub \in [pc : {"check", "select", "add", "remove", "done"}, client : Clients \cup {NoClient}]
      OBVIOUS
    <2> QED
      BY <2>1, <2>2 DEF HubTypes, HubClient
  <1>5. ConnTypes
    <2>1. << >> \in Seq(Copies) /\ << >> \in Seq(Frames)
      OBVIOUS
    <2> QED
      BY <2>1 DEF ConnTypes, ClientSteps
  <1> QED
    BY <1>1, <1>2, <1>3, <1>4, <1>5, TypeParts DEF Types

\* A queue that gains or loses a comment is still one.
LEMMA QueueTypes ==
    ASSUME NEW T, NEW s \in Seq(T), NEW x \in T
    PROVE  /\ Append(s, x) \in Seq(T) /\ Len(Append(s, x)) = Len(s) + 1 /\ Len(s) \in Nat
           /\ s # << >> => Tail(s) \in Seq(T) /\ Head(s) \in T /\ Len(Tail(s)) = Len(s) - 1
  OBVIOUS

\* Failures are counted up to the bound.
LEMMA FailureTypes == failures \in 0 .. MaxFailures /\ Failure => failures' \in 0 .. MaxFailures
  BY DanmakuConstants DEF Failure, DanmakuConstants

PublisherActs(p) ==
    PublisherStep(p) \/ PublishReplyLost(p) \/ PublishFails(p) \/ \E m \in Messages : BeginPublish(p, m)
ReaderActs(r) == Miss(r) \/ Load(r) \/ Store(r)
FeedActs == Consume \/ SubscriptionBreaks \/ Resubscribe \/ StopSubscriber
ClientActs(c) ==
    \/ Connect(c) \/ ConnectRejected(c) \/ BrowserLeaves(c) \/ DataFrame(c)
    \/ TextFrame(c) \/ UnregisterTimesOut(c) \/ HandlerStep(c)
WriterActs(c) == WriteFrame(c) \/ WriterEnds(c)

\* The steps of a request that publishes.
LEMMA PublisherTypes ==
    ASSUME Types, NEW p \in Publishers, PublisherActs(p)
    PROVE  Types'
  <1>1. HistoryTypes /\ FeedTypes /\ HubTypes /\ ConnTypes /\ failures \in 0 .. MaxFailures
        /\ HasComment /\ HubClient
    BY TypeParts DEF Types
  <1>2. UNCHANGED hubState /\ UNCHANGED conns
    BY DEF PublisherActs, PublisherStep, Insert, Requery, InvalidateSegment, PublishRealtime, PublishReplyLost, PublishFails,
           BeginPublish
  <1>3. failures' \in 0 .. MaxFailures
    <2>1. Failure \/ UNCHANGED failures
      BY DEF PublisherActs, PublisherStep, Insert, Requery, InvalidateSegment, PublishRealtime, PublishReplyLost, PublishFails,
             BeginPublish
    <2> QED
      BY <1>1, <2>1, FailureTypes
  <1>4. FeedTypes'
    <2>1. CASE UNCHANGED feed
      BY <1>1, <2>1, SamePart
    <2>2. CASE PublishRealtime(p) \/ PublishReplyLost(p)
      <3> DEFINE m == publisher[p].message
                 x == <<m, resent[m]>>
      <3>1. m \in Messages /\ x \in Copies /\ resent[m] \in 0 .. RetryAttempts
        BY <1>1, <2>2 DEF HasComment, FeedTypes, Copies, PublishRealtime, PublishReplyLost
      <3>2. channel' = channel \/ channel' = Append(channel, x)
        BY <2>2 DEF PublishRealtime, PublishReplyLost, Send
      <3>3. channel' \in Seq(Copies)
        BY <1>1, <3>1, <3>2, QueueTypes DEF FeedTypes
      <3>4. \/ resent' = resent
            \/ resent[m] < RetryAttempts /\ resent' = [resent EXCEPT ![m] = @ + 1]
        BY <2>2 DEF PublishRealtime, PublishReplyLost
      <3>5. resent' \in [Messages -> 0 .. RetryAttempts]
        <4>1. resent \in [Messages -> 0 .. RetryAttempts]
          BY <1>1 DEF FeedTypes
        <4>2. CASE resent' = resent
          BY <4>1, <4>2
        <4>3. CASE resent[m] < RetryAttempts /\ resent' = [resent EXCEPT ![m] = @ + 1]
          <5>1. resent[m] + 1 \in 0 .. RetryAttempts
            BY <3>1, <4>3, DanmakuConstants DEF DanmakuConstants
          <5> QED
            BY <4>1, <4>3, <5>1
        <4> QED
          BY <3>4, <4>2, <4>3
      <3>6. UNCHANGED <<subscriber, queue>>
        BY <2>2 DEF PublishRealtime, PublishReplyLost
      <3> QED
        BY <1>1, <3>3, <3>5, <3>6 DEF FeedTypes
    <2> QED
      BY <2>1, <2>2 DEF PublisherActs, PublisherStep, Insert, Requery, InvalidateSegment, PublishFails,
                        BeginPublish
  <1>5. HistoryTypes' /\ HasComment'
    <2>1. stored' \subseteq Messages
      BY <1>1 DEF PublisherActs, PublisherStep, Insert, Requery, InvalidateSegment, PublishRealtime, PublishReplyLost,
                  PublishFails, BeginPublish, history, HistoryTypes, HasComment
    <2>2. cache' = NoSegment \/ \E segment \in SUBSET Messages : cache' = {segment}
      BY <1>1 DEF PublisherActs, PublisherStep, Insert, Requery, InvalidateSegment, PublishRealtime, PublishReplyLost,
                  PublishFails, BeginPublish, history, HistoryTypes
    <2>3. attempts' \in 0 .. MaxAttempts /\ UNCHANGED reader
      BY <1>1, DanmakuConstants
         DEF PublisherActs, PublisherStep, Insert, Requery, InvalidateSegment, PublishRealtime, PublishReplyLost,
             PublishFails, BeginPublish, history, HistoryTypes, DanmakuConstants
    <2> DEFINE Pcs == {"idle", "insert", "requery", "invalidate", "publish"}
    <2>4. \/ PublishReplyLost(p)
          \/ \E pc \in Pcs \ {"idle"}, b \in BOOLEAN :
               publisher[p].pc # "idle" /\ publisher' = [publisher EXCEPT ![p].pc = pc, ![p].first = b]
          \/ publisher' = [publisher EXCEPT ![p] = NoRequest]
          \/ \E m \in Messages :
               publisher' = [publisher EXCEPT ![p] = [pc |-> "insert", message |-> m, first |-> FALSE]]
      <3>1. ASSUME NEW pc, StepP(p, pc)
            PROVE  \E b \in BOOLEAN : publisher' = [publisher EXCEPT ![p].pc = pc, ![p].first = b]
        <4>1. publisher[p].first \in BOOLEAN
          BY <1>1 DEF HistoryTypes
        <4>2. publisher' = [publisher EXCEPT ![p].pc = pc, ![p].first = publisher[p].first]
          BY <1>1, <3>1 DEF StepP, HistoryTypes
        <4> QED
          BY <4>1, <4>2
      <3>2. CASE Insert(p)
        BY <3>1, <3>2 DEF Insert
      <3>3. CASE Requery(p)
        BY <3>1, <3>3 DEF Requery, EndP
      <3>4. CASE InvalidateSegment(p)
        BY <3>1, <3>4 DEF InvalidateSegment, EndP
      <3>5. CASE PublishRealtime(p) \/ PublishFails(p)
        BY <3>5 DEF PublishRealtime, PublishReplyLost, PublishFails, EndP
      <3>6. CASE \E m \in Messages : BeginPublish(p, m)
        BY <3>6 DEF BeginPublish
      <3> QED
        BY <3>2, <3>3, <3>4, <3>5, <3>6 DEF PublisherActs, PublisherStep
    <2>5. \/ PublishReplyLost(p)
          \/ /\ publisher' \in [Publishers -> [pc : Pcs, message : Messages \cup {NoMessage}, first : BOOLEAN]]
             /\ HasComment'
      <3>1. publisher \in [Publishers -> [pc : Pcs, message : Messages \cup {NoMessage}, first : BOOLEAN]]
        BY <1>1 DEF HistoryTypes
      <3>2. ASSUME NEW pc \in Pcs \ {"idle"}, NEW b \in BOOLEAN, publisher[p].pc # "idle",
                   publisher' = [publisher EXCEPT ![p].pc = pc, ![p].first = b]
            PROVE  /\ publisher' \in [Publishers -> [pc : Pcs, message : Messages \cup {NoMessage}, first : BOOLEAN]]
                   /\ HasComment'
        <4>1. /\ publisher'[p] = [pc |-> pc, message |-> publisher[p].message, first |-> b]
              /\ \A q \in Publishers : q # p => publisher'[q] = publisher[q]
              /\ publisher' = [q \in Publishers |-> publisher'[q]]
          BY <3>1, <3>2
        <4>2. \A q \in Publishers :
                publisher'[q] \in [pc : Pcs, message : Messages \cup {NoMessage}, first : BOOLEAN]
          BY <3>1, <3>2, <4>1
        <4>3. publisher[p].message \in Messages /\ publisher'[p].message = publisher[p].message
          BY <1>1, <3>2, <4>1 DEF HasComment
        <4>4. HasComment'
          <5> SUFFICES ASSUME NEW q \in Publishers, publisher'[q].pc # "idle" PROVE publisher'[q].message \in Messages
            BY DEF HasComment
          <5> QED
            BY <1>1, <4>1, <4>3 DEF HasComment
        <4> QED
          BY <4>1, <4>2, <4>4
      <3>3. CASE publisher' = [publisher EXCEPT ![p] = NoRequest]
        BY <1>1, <3>1, <3>3 DEF HasComment, NoRequest
      <3>4. CASE \E m \in Messages :
                   publisher' = [publisher EXCEPT ![p] = [pc |-> "insert", message |-> m, first |-> FALSE]]
        BY <1>1, <3>1, <3>4 DEF HasComment
      <3> QED
        BY <2>4, <3>2, <3>3, <3>4
    <2>6. CASE PublishReplyLost(p)
      BY <1>1, <2>6, SamePart DEF PublishReplyLost
    <2> QED
      BY <1>1, <2>1, <2>2, <2>3, <2>5, <2>6 DEF HistoryTypes
  <1> QED
    BY <1>1, <1>2, <1>3, <1>4, <1>5, SamePart, TypeParts DEF Types

\* Readers, the expiry of the cache and the subscriber.
LEMMA FeedStepTypes ==
    ASSUME Types, (\E r \in Readers : ReaderActs(r)) \/ ExpireSegment \/ FeedActs
    PROVE  Types'
  <1>1. HistoryTypes /\ FeedTypes /\ HubTypes /\ ConnTypes /\ failures \in 0 .. MaxFailures
        /\ HasComment /\ HubClient
    BY TypeParts DEF Types
  <1>2. UNCHANGED hubState /\ UNCHANGED conns /\ UNCHANGED <<stored, publisher, attempts>>
        /\ (Failure \/ UNCHANGED failures)
    BY DEF ReaderActs, Miss, Load, Store, ExpireSegment, FeedActs, Consume, SubscriptionBreaks,
           Resubscribe, StopSubscriber, history
  <1>3. failures' \in 0 .. MaxFailures
    BY <1>1, <1>2, FailureTypes
  <1>4. HistoryTypes' /\ HasComment'
    <2>1. CASE UNCHANGED <<reader, cache>>
      BY <1>1, <1>2, <2>1, SamePart DEF history
    <2>2. ASSUME NEW r \in Readers, ReaderActs(r) PROVE HistoryTypes' /\ HasComment'
      <3>1. reader' \in [Readers -> [pc : {"idle", "load", "store"}, seen : SUBSET Messages]]
        BY <1>1, <2>2 DEF ReaderActs, Miss, Load, Store, HistoryTypes, NoLoad
      <3>2. cache' = NoSegment \/ \E segment \in SUBSET Messages : cache' = {segment}
        <4>1. CASE UNCHANGED cache
          BY <1>1, <4>1 DEF HistoryTypes
        <4>2. CASE cache' = {reader[r].seen}
          BY <1>1, <4>2 DEF HistoryTypes
        <4> QED
          BY <2>2, <4>1, <4>2 DEF ReaderActs, Miss, Load, Store
      <3> QED
        BY <1>1, <1>2, <3>1, <3>2 DEF HistoryTypes, HasComment
    <2>3. CASE ExpireSegment
      BY <1>1, <1>2, <2>3 DEF ExpireSegment, HistoryTypes, HasComment
    <2> QED
      BY <2>1, <2>2, <2>3 DEF FeedActs, Consume, SubscriptionBreaks, Resubscribe, StopSubscriber, history
  <1>5. FeedTypes'
    <2>1. CASE UNCHANGED feed
      BY <1>1, <2>1, SamePart
    <2>2. CASE Consume
      <3>1. channel' \in Seq(Copies) /\ Head(channel) \in Copies /\ UNCHANGED <<resent, subscriber>>
        BY <1>1, <2>2 DEF Consume, FeedTypes
      <3>2. queue' \in Seq(Copies) /\ Len(queue') <= QueueSize
        <4>1. CASE queue' = queue
          BY <1>1, <4>1 DEF FeedTypes
        <4>2. CASE Len(queue) # QueueSize /\ queue' = Append(queue, Head(channel))
          BY <1>1, <3>1, <4>2, QueueTypes, DanmakuConstants DEF FeedTypes, DanmakuConstants
        <4> QED
          BY <2>2, <4>1, <4>2 DEF Consume, Broadcast
      <3> QED
        BY <1>1, <3>1, <3>2 DEF FeedTypes
    <2>3. CASE SubscriptionBreaks \/ Resubscribe \/ StopSubscriber
      <3>1. << >> \in Seq(Copies)
        OBVIOUS
      <3> QED
        BY <1>1, <2>3, <3>1 DEF FeedTypes, SubscriptionBreaks, Resubscribe, StopSubscriber
    <2> QED
      BY <2>1, <2>2, <2>3 DEF FeedActs, ReaderActs, Miss, Load, Store, ExpireSegment
  <1> QED
    BY <1>1, <1>2, <1>3, <1>4, <1>5, SamePart, TypeParts DEF Types

\* The goroutine of the hub, and Stop.
LEMMA HubStepTypes ==
    ASSUME Types, HubEvent \/ Stop
    PROVE  Types'
  <1>1. HistoryTypes /\ FeedTypes /\ HubTypes /\ ConnTypes /\ failures \in 0 .. MaxFailures
        /\ HasComment /\ HubClient
    BY TypeParts DEF Types
  <1> USE DEF HubStep, HubAt
  <1>2. UNCHANGED history /\ (Failure \/ UNCHANGED failures)
    BY DEF HubEvent, Stop, Check, Add, Remove, BroadcastToVideo, Shutdown, TakeRegister, TakeUnregister
  <1>3. HubTypes' /\ HubClient'
    <2>1. ASSUME NEW c \in Clients, TakeRegister(c) \/ TakeUnregister(c) PROVE HubTypes' /\ HubClient'
      BY <1>1, <2>1 DEF TakeRegister, TakeUnregister, HubTypes, HubClient
    <2>2. CASE Check \/ BroadcastToVideo
      BY <1>1, <2>2 DEF Check, BroadcastToVideo, HubTypes, HubClient
    <2>5. CASE Stop
      <3>1. stopping' \in BOOLEAN /\ UNCHANGED <<hub, registered, gauge, answered>>
        BY <2>5, Zenon DEF Stop
      <3> QED
        BY <1>1, <3>1 DEF HubTypes, HubClient
    <2>3. CASE Add \/ Remove
      BY <1>1, <2>3 DEF Add, Remove, HubTypes, HubClient
    <2>4. CASE Shutdown
      <3>1. Cardinality(registered) \in Nat
        BY <1>1, DanmakuConstants, FS_Subset, FS_CardinalityType DEF HubTypes, DanmakuConstants
      <3> QED
        BY <1>1, <2>4, <3>1 DEF Shutdown, HubTypes, HubClient
    <2> QED
      BY <2>1, <2>2, <2>3, <2>4, <2>5 DEF HubEvent
  <1>4. FeedTypes'
    <2>1. CASE UNCHANGED feed
      BY <1>1, <2>1, SamePart
    <2>2. CASE BroadcastToVideo
      <3>1. queue' \in Seq(Copies) /\ Len(queue') <= QueueSize /\ UNCHANGED <<resent, channel, subscriber>>
        BY <1>1, <2>2, DanmakuConstants DEF BroadcastToVideo, FeedTypes, DanmakuConstants
      <3> QED
        BY <1>1, <3>1 DEF FeedTypes
    <2> QED
      BY <2>1, <2>2 DEF HubEvent, Stop, Check, Add, Remove, Shutdown, TakeRegister, TakeUnregister
  <1>5. ConnTypes'
    <2>1. ASSUME NEW c \in Clients, TakeRegister(c) \/ TakeUnregister(c) PROVE ConnTypes'
      BY <1>1, <2>1 DEF TakeRegister, TakeUnregister, ConnTypes, ClientSteps
    <2>2. CASE Check \/ Add \/ Stop
      BY <1>1, <2>2, SamePart DEF Check, Add, Stop
    <2>3. CASE Remove \/ Shutdown
      BY <1>1, <2>3 DEF Remove, Shutdown, Drained, ConnTypes, HubTypes, HubClient
    <2>4. CASE BroadcastToVideo
      <3>1. Head(queue) \in Frames
        BY <1>1, <2>4 DEF BroadcastToVideo, FeedTypes, Frames
      <3>2. \A c \in Clients : send'[c] = send[c] \/ send'[c] = Append(send[c], Head(queue))
        BY <2>4 DEF BroadcastToVideo
      <3>3. \A c \in Clients : send'[c] \in Seq(Frames)
        BY <1>1, <3>1, <3>2, QueueTypes DEF ConnTypes
      <3>4. send' \in [Clients -> Seq(Frames)]
        BY <2>4, <3>3 DEF BroadcastToVideo
      <3> QED
        BY <1>1, <2>4, <3>4 DEF BroadcastToVideo, ConnTypes
    <2> QED
      BY <2>1, <2>2, <2>3, <2>4 DEF HubEvent
  <1>6. failures' \in 0 .. MaxFailures
    BY <1>1, <1>2, FailureTypes
  <1> QED
    BY <1>1, <1>2, <1>3, <1>4, <1>5, <1>6, SamePart, TypeParts DEF Types

\* The handler and the writer of a connection.
LEMMA ConnStepTypes ==
    ASSUME Types, NEW c \in Clients, ClientActs(c) \/ WriterActs(c)
    PROVE  Types'
  <1>1. HistoryTypes /\ FeedTypes /\ HubTypes /\ ConnTypes /\ failures \in 0 .. MaxFailures
        /\ HasComment /\ HubClient
    BY TypeParts DEF Types
  <1> USE DEF Goto
  <1>2. UNCHANGED history /\ UNCHANGED feed /\ UNCHANGED hubState /\ (Failure \/ UNCHANGED failures)
    BY DEF ClientActs, WriterActs, Connect, ConnectRejected, BrowserLeaves, DataFrame, TextFrame,
           UnregisterTimesOut, HandlerStep, Registered, HubStopped, EnqueueReady, ReadFails, Left,
           WriteFrame, WriterEnds
  <1>3. failures' \in 0 .. MaxFailures
    BY <1>1, <1>2, FailureTypes
  <1>4. ConnTypes'
    <2>1. Ready \in Frames /\ Error \in Frames /\ send[c] \in Seq(Frames) /\ received[c] \in Seq(Copies)
      BY <1>1 DEF Frames, ConnTypes
    <2>2. CASE Connect(c) \/ ConnectRejected(c) \/ BrowserLeaves(c) \/ TextFrame(c) \/ UnregisterTimesOut(c)
      BY <1>1, <2>2 DEF Connect, ConnectRejected, BrowserLeaves, TextFrame, UnregisterTimesOut, ConnTypes,
                        ClientSteps
    <2>3. CASE Registered(c) \/ HubStopped(c) \/ ReadFails(c) \/ Left(c)
      BY <1>1, <2>3 DEF Registered, HubStopped, ReadFails, Left, ConnTypes, ClientSteps
    <2>4. CASE EnqueueReady(c)
      <3>1. Append(send[c], Ready) \in Seq(Frames)
        BY <2>1, QueueTypes
      <3> QED
        BY <1>1, <2>4, <3>1 DEF EnqueueReady, ConnTypes, ClientSteps, AfterFullQueue
    <2>5. CASE DataFrame(c)
      <3>1. Append(send[c], Error) \in Seq(Frames)
        BY <2>1, QueueTypes
      <3> QED
        BY <1>1, <2>5, <3>1 DEF DataFrame, ConnTypes
    <2>6. CASE WriteFrame(c)
      <3>1. Tail(send[c]) \in Seq(Frames)
        BY <2>1, <2>6 DEF WriteFrame
      <3>2. Head(send[c]) \in Copies => Append(received[c], Head(send[c])) \in Seq(Copies)
        BY <2>1, QueueTypes
      <3> QED
        BY <1>1, <2>6, <3>1, <3>2 DEF WriteFrame, ConnTypes
    <2>7. CASE WriterEnds(c)
      BY <1>1, <2>7 DEF WriterEnds, ConnTypes
    <2> QED
      BY <2>2, <2>3, <2>4, <2>5, <2>6, <2>7 DEF ClientActs, WriterActs, HandlerStep
  <1> QED
    BY <1>1, <1>2, <1>3, <1>4, SamePart, TypeParts DEF Types

\* The steps, by who takes them.
LEMMA WhoSteps ==
    Next => \/ \E p \in Publishers : PublisherActs(p)
            \/ (\E r \in Readers : ReaderActs(r)) \/ ExpireSegment \/ FeedActs
            \/ HubEvent \/ Stop
            \/ \E c \in Clients : ClientActs(c) \/ WriterActs(c)
  BY DEF Next, PublisherActs, ReaderActs, FeedActs, ClientActs, WriterActs

\* Every step keeps the types.
LEMMA TypesStep == Types /\ [Next]_vars => Types'
  <1> SUFFICES ASSUME Types, [Next]_vars PROVE Types'
    OBVIOUS
  <1>1. CASE UNCHANGED vars
    <2>1. UNCHANGED history /\ UNCHANGED feed /\ UNCHANGED hubState /\ UNCHANGED conns /\ UNCHANGED failures
      BY <1>1 DEF vars
    <2> QED
      BY <2>1, SamePart, TypeParts DEF Types
  <1> QED
    BY <1>1, WhoSteps, PublisherTypes, FeedStepTypes, HubStepTypes, ConnStepTypes

\* Every variable keeps its type: no queue of the hub grows beyond its size,
\* and no step leaves the ones of its goroutine (hub.go, websocket.go).
THEOREM DanmakuTypes == Spec => []TypeOK
  <1>1. Types => TypeOK
    BY DEF Types
  <1> QED
    BY TypesInit, TypesStep, <1>1, PTL DEF Spec

-----------------------------------------------------------------------------
(***************************************************************************)
(* Registration.                                                           *)
(***************************************************************************)

Joined == {"await", "ready", "serve", "leave", "awaitLeave"}
Adding(c) == hub.pc = "add" /\ hub.client = c
Removing(c) == hub.pc = "remove" /\ hub.client = c

\* The metric counts the registry.
GaugeCounts == gauge = Cardinality(registered)

\* Whose request the hub serves: a handler that waits for the answer, or that
\* has returned because the hub is stopping.
HubServes ==
    \A c \in Clients :
      /\ Adding(c) => c \notin registered /\ c \notin answered
                      /\ (client[c] = "await" \/ (client[c] = "gone" /\ stopping))
      /\ Removing(c) => c \notin answered
                      /\ (client[c] = "awaitLeave" \/ (client[c] = "gone" /\ stopping))

DoneIsEmpty == hub.pc = "done" => registered = {} /\ stopping

NewAreUnknown ==
    \A c \in Clients : client[c] \in {"new", "register"} => c \notin registered /\ c \notin answered

\* A connection the hub has taken is in the registry, or was told to end.
JoinedAreKnown ==
    \A c \in Clients : client[c] \in Joined => c \in registered \cup closed \/ Adding(c)

LeftAreForgotten ==
    \A c \in Clients : client[c] = "awaitLeave" /\ c \in answered => c \notin registered

HubInv ==
    GaugeCounts /\ HubServes /\ DoneIsEmpty /\ NewAreUnknown /\ JoinedAreKnown /\ LeftAreForgotten
    /\ GoneIsForgotten

\* No connection is known at the start.
LEMMA HubInit == Init => HubInv
  <1> SUFFICES ASSUME Init PROVE HubInv
    OBVIOUS
  <1>1. GaugeCounts
    BY FS_EmptySet DEF Init, GaugeCounts
  <1>2. hub.pc = "check" /\ \A c \in Clients : client[c] = "new"
    BY DEF Init
  <1> QED
    BY <1>1, <1>2 DEF Init, HubInv, HubServes, DoneIsEmpty, NewAreUnknown, JoinedAreKnown,
                      LeftAreForgotten, GoneIsForgotten, Adding, Removing, Joined

\* The registry is finite: adding and removing one changes its size by one.
LEMMA RegistrySize ==
    ASSUME Types, NEW c \in Clients
    PROVE  /\ Cardinality(registered) \in Nat /\ Cardinality({}) = 0
           /\ c \notin registered => Cardinality(registered \cup {c}) = Cardinality(registered) + 1
           /\ c \in registered => Cardinality(registered \ {c}) = Cardinality(registered) - 1
  <1>1. IsFiniteSet(registered)
    BY DanmakuConstants, FS_Subset DEF DanmakuConstants, Types, TypeOK
  <1> QED
    BY <1>1, FS_AddElement, FS_RemoveElement, FS_EmptySet, FS_CardinalityType

\* The goroutine of the hub, and Stop.
LEMMA HubSteps ==
    ASSUME Types, HubInv, HubEvent \/ Stop
    PROVE  HubInv'
  <1> USE DEF HubStep, HubAt, Adding, Removing, Joined
  <1>0. /\ client \in [Clients -> ClientSteps] /\ gauge \in Int
        /\ registered \in SUBSET Clients /\ closed \in SUBSET Clients /\ answered \in SUBSET Clients
    BY DEF Types, TypeOK
  <1>1. CASE Check \/ Stop \/ BroadcastToVideo
    <2>1. UNCHANGED <<registered, gauge, answered, client, closed, timeouts>>
      BY <1>1 DEF Check, Stop, BroadcastToVideo, conns
    <2>2. \/ hub.pc \in {"check", "select"} /\ hub'.pc \in {"check", "select"} /\ UNCHANGED stopping
          \/ UNCHANGED hub /\ stopping'
      BY <1>1 DEF Check, Stop, BroadcastToVideo
    <2>3. GaugeCounts' /\ NewAreUnknown' /\ LeftAreForgotten'
      BY <2>1 DEF HubInv, GaugeCounts, NewAreUnknown, LeftAreForgotten
    <2>4. HubServes' /\ DoneIsEmpty' /\ JoinedAreKnown'
      BY <2>1, <2>2 DEF HubInv, HubServes, DoneIsEmpty, JoinedAreKnown
    <2>5. GoneIsForgotten'
      BY <2>1, <2>2 DEF HubInv, GoneIsForgotten
    <2> QED
      BY <2>3, <2>4, <2>5 DEF HubInv
  <1>2. ASSUME NEW c \in Clients, TakeRegister(c) PROVE HubInv'
    <2>1. /\ UNCHANGED <<registered, gauge, answered, closed, timeouts, stopping>>
          /\ client[c] = "register" /\ client' = [client EXCEPT ![c] = "await"]
          /\ hub.pc = "select" /\ hub'.pc = "add" /\ hub'.client = c
      BY <1>2 DEF TakeRegister
    <2>2. /\ client'[c] = "await"
          /\ \A d \in Clients : d # c => client'[d] = client[d]
      BY <1>0, <2>1
    <2>3. GaugeCounts' /\ DoneIsEmpty' /\ LeftAreForgotten' /\ GoneIsForgotten'
      BY <2>1, <2>2 DEF HubInv, GaugeCounts, DoneIsEmpty, LeftAreForgotten, GoneIsForgotten
    <2>4. HubServes'
      <3> SUFFICES ASSUME NEW d \in Clients, Adding(d)' \/ Removing(d)'
                   PROVE  /\ d = c /\ ~Removing(d)' /\ d \notin registered' /\ d \notin answered'
                          /\ client'[d] = "await"
        BY DEF HubServes
      <3>1. d = c /\ ~Removing(d)'
        BY <2>1
      <3>2. c \notin registered /\ c \notin answered
        BY <2>1 DEF HubInv, NewAreUnknown
      <3> QED
        BY <2>1, <2>2, <3>1, <3>2
    <2>5. NewAreUnknown'
      BY <2>1, <2>2 DEF HubInv, NewAreUnknown
    <2>6. JoinedAreKnown'
      BY <2>1, <2>2 DEF HubInv, JoinedAreKnown
    <2> QED
      BY <2>3, <2>4, <2>5, <2>6 DEF HubInv
  <1>3. ASSUME NEW c \in Clients, TakeUnregister(c) PROVE HubInv'
    <2>1. /\ UNCHANGED <<registered, gauge, closed, timeouts, stopping>>
          /\ answered' = answered \ {c}
          /\ client[c] = "leave" /\ client' = [client EXCEPT ![c] = "awaitLeave"]
          /\ hub.pc = "select" /\ hub'.pc = "remove" /\ hub'.client = c
      BY <1>3 DEF TakeUnregister
    <2>2. /\ client'[c] = "awaitLeave"
          /\ \A d \in Clients : d # c => client'[d] = client[d]
      BY <1>0, <2>1
    <2>3. GaugeCounts' /\ DoneIsEmpty' /\ LeftAreForgotten' /\ GoneIsForgotten'
      BY <2>1, <2>2 DEF HubInv, GaugeCounts, DoneIsEmpty, LeftAreForgotten, GoneIsForgotten
    <2>4. HubServes'
      <3> SUFFICES ASSUME NEW d \in Clients, Adding(d)' \/ Removing(d)'
                   PROVE  d = c /\ ~Adding(d)' /\ d \notin answered' /\ client'[d] = "awaitLeave"
        BY DEF HubServes
      <3>1. d = c /\ ~Adding(d)'
        BY <2>1
      <3> QED
        BY <2>1, <2>2, <3>1
    <2>5. NewAreUnknown'
      BY <2>1, <2>2 DEF HubInv, NewAreUnknown
    <2>6. JoinedAreKnown'
      BY <2>1, <2>2 DEF HubInv, JoinedAreKnown
    <2> QED
      BY <2>3, <2>4, <2>5, <2>6 DEF HubInv
  <1>4. CASE Add
    <2> DEFINE c == hub.client
    <2>1. /\ UNCHANGED <<client, closed, timeouts, stopping>>
          /\ registered' = registered \cup {c} /\ answered' = answered \cup {c} /\ gauge' = gauge + 1
          /\ hub.pc = "add" /\ hub'.pc = "check"
      BY <1>4 DEF Add, conns
    <2>2. /\ c \in Clients /\ c \notin registered
          /\ client[c] = "await" \/ (client[c] = "gone" /\ stopping)
      BY <2>1 DEF HubInv, HubServes, Types, HubClient
    <2>3. GaugeCounts'
      BY <1>0, <2>1, <2>2, RegistrySize DEF HubInv, GaugeCounts
    <2>4. HubServes' /\ DoneIsEmpty'
      BY <2>1 DEF HubServes, DoneIsEmpty
    <2> HIDE DEF c
    <2>5. NewAreUnknown' /\ LeftAreForgotten' /\ GoneIsForgotten'
      BY <2>1, <2>2 DEF HubInv, NewAreUnknown, LeftAreForgotten, GoneIsForgotten
    <2>6. JoinedAreKnown'
      BY <2>1, <2>2 DEF HubInv, JoinedAreKnown, c
    <2> QED
      BY <2>3, <2>4, <2>5, <2>6 DEF HubInv
  <1>5. CASE Remove
    <2> DEFINE c == hub.client
    <2>1. /\ UNCHANGED <<client, timeouts, stopping>>
          /\ registered' = registered \ {c} /\ answered' = answered \cup {c} /\ closed' = closed \cup {c}
          /\ gauge' = IF c \in registered THEN gauge - 1 ELSE gauge
          /\ hub.pc = "remove" /\ hub'.pc = "check"
      BY <1>5 DEF Remove
    <2>2. /\ c \in Clients
          /\ client[c] = "awaitLeave" \/ (client[c] = "gone" /\ stopping)
      BY <2>1 DEF HubInv, HubServes, Types, HubClient
    <2>3. GaugeCounts'
      <3>1. c \notin registered => registered' = registered
        BY <2>1
      <3> QED
        BY <1>0, <2>1, <2>2, <3>1, RegistrySize DEF HubInv, GaugeCounts
    <2>4. HubServes' /\ DoneIsEmpty'
      BY <2>1 DEF HubServes, DoneIsEmpty
    <2> HIDE DEF c
    <2>5. NewAreUnknown' /\ LeftAreForgotten' /\ GoneIsForgotten'
      BY <2>1, <2>2 DEF HubInv, NewAreUnknown, LeftAreForgotten, GoneIsForgotten
    <2>6. JoinedAreKnown'
      BY <2>1, <2>2 DEF HubInv, JoinedAreKnown
    <2> QED
      BY <2>3, <2>4, <2>5, <2>6 DEF HubInv
  <1>6. CASE Shutdown
    <2>1. /\ UNCHANGED <<client, timeouts, stopping, answered>> /\ stopping
          /\ registered' = {} /\ closed' = closed \cup registered
          /\ gauge' = gauge - Cardinality(registered)
          /\ hub.pc \in {"check", "select"} /\ hub'.pc = "done"
      BY <1>6 DEF Shutdown, Drained
    <2>2. GaugeCounts'
      <3>1. Cardinality({}) = 0
        BY FS_EmptySet
      <3>2. gauge = Cardinality(registered)
        BY DEF HubInv, GaugeCounts
      <3> QED
        BY <1>0, <2>1, <3>1, <3>2 DEF GaugeCounts
    <2>3. NewAreUnknown' /\ LeftAreForgotten' /\ GoneIsForgotten'
      BY <2>1 DEF HubInv, NewAreUnknown, LeftAreForgotten, GoneIsForgotten
    <2>4. HubServes' /\ DoneIsEmpty' /\ JoinedAreKnown'
      BY <2>1 DEF HubInv, HubServes, DoneIsEmpty, JoinedAreKnown
    <2> QED
      BY <2>2, <2>3, <2>4 DEF HubInv
  <1> QED
    BY <1>1, <1>2, <1>3, <1>4, <1>5, <1>6 DEF HubEvent

\* How the handler of a connection moves.
LEMMA HandlerMoves ==
    ASSUME Types, NEW c \in Clients, ClientActs(c) \/ WriterActs(c)
    PROVE  /\ UNCHANGED hubState /\ closed \subseteq closed' /\ timeouts \subseteq timeouts'
           /\ \A d \in Clients : d # c => client'[d] = client[d]
           /\ \/ client'[c] = client[c]
              \/ client[c] = "new" /\ client'[c] = "register"
              \/ client[c] \in {"new", "register"} /\ client'[c] = "gone"
              \/ client[c] = "await" /\ c \in answered /\ client'[c] = "ready"
              \/ client[c] = "ready" /\ client'[c] \in {"serve", "leave"}
              \/ client[c] = "serve" /\ client'[c] = "leave"
              \/ client'[c] = "gone" /\ stopping
              \/ client[c] = "leave" /\ client'[c] = "gone" /\ c \in timeouts'
              \/ client[c] = "awaitLeave" /\ c \in answered /\ client'[c] = "gone"
  <1>1. client \in [Clients -> ClientSteps]
    BY DEF Types, TypeOK
  <1> USE DEF Goto, conns
  <1>2. CASE Connect(c) \/ ConnectRejected(c) \/ TextFrame(c) \/ UnregisterTimesOut(c)
    BY <1>1, <1>2 DEF Connect, ConnectRejected, TextFrame, UnregisterTimesOut
  <1>3. CASE BrowserLeaves(c) \/ DataFrame(c)
    BY <1>3 DEF BrowserLeaves, DataFrame
  <1>4. CASE Registered(c) \/ HubStopped(c) \/ ReadFails(c) \/ Left(c)
    BY <1>1, <1>4 DEF Registered, HubStopped, ReadFails, Left, hubState
  <1>5. CASE EnqueueReady(c)
    BY <1>1, <1>5 DEF EnqueueReady, AfterFullQueue
  <1>6. CASE WriteFrame(c) \/ WriterEnds(c)
    BY <1>6 DEF WriteFrame, WriterEnds
  <1> QED
    BY <1>2, <1>3, <1>4, <1>5, <1>6 DEF ClientActs, WriterActs, HandlerStep

\* The steps of a connection.
LEMMA ConnSteps ==
    ASSUME Types, HubInv, NEW c \in Clients, ClientActs(c) \/ WriterActs(c)
    PROVE  HubInv'
  <1> USE DEF Adding, Removing, Joined
  <1>1. /\ UNCHANGED <<hub, stopping, registered, gauge, answered>>
        /\ closed \subseteq closed' /\ timeouts \subseteq timeouts'
        /\ \A d \in Clients : d # c => client'[d] = client[d]
    BY HandlerMoves DEF hubState
  <1>2. \/ client'[c] = client[c]
        \/ client[c] = "new" /\ client'[c] = "register"
        \/ client[c] \in {"new", "register"} /\ client'[c] = "gone"
        \/ client[c] = "await" /\ c \in answered /\ client'[c] = "ready"
        \/ client[c] = "ready" /\ client'[c] \in {"serve", "leave"}
        \/ client[c] = "serve" /\ client'[c] = "leave"
        \/ client'[c] = "gone" /\ stopping
        \/ client[c] = "leave" /\ client'[c] = "gone" /\ c \in timeouts'
        \/ client[c] = "awaitLeave" /\ c \in answered /\ client'[c] = "gone"
    BY HandlerMoves
  <1>3. GaugeCounts' /\ DoneIsEmpty'
    BY <1>1 DEF HubInv, GaugeCounts, DoneIsEmpty
  <1>4. HubServes'
    BY <1>1, <1>2 DEF HubInv, HubServes
  <1>5. NewAreUnknown' /\ LeftAreForgotten'
    BY <1>1, <1>2 DEF HubInv, NewAreUnknown, LeftAreForgotten
  <1>6. JoinedAreKnown'
    BY <1>1, <1>2 DEF HubInv, JoinedAreKnown
  <1>7. GoneIsForgotten'
    BY <1>1, <1>2 DEF HubInv, GoneIsForgotten, NewAreUnknown, LeftAreForgotten
  <1> QED
    BY <1>3, <1>4, <1>5, <1>6, <1>7 DEF HubInv

\* Every step keeps what the hub and the handlers know of each other.
LEMMA HubInvStep == Types /\ HubInv /\ [Next]_vars => HubInv'
  <1> SUFFICES ASSUME Types, HubInv, [Next]_vars PROVE HubInv'
    OBVIOUS
  <1>1. CASE UNCHANGED hubState /\ UNCHANGED conns
    BY <1>1 DEF hubState, conns, HubInv, GaugeCounts, HubServes, DoneIsEmpty, NewAreUnknown, JoinedAreKnown,
                LeftAreForgotten, GoneIsForgotten, Adding, Removing, Joined
  <1>2. CASE \/ \E p \in Publishers : PublisherActs(p)
             \/ (\E r \in Readers : ReaderActs(r)) \/ ExpireSegment \/ FeedActs
             \/ UNCHANGED vars
    <2>1. UNCHANGED hubState /\ UNCHANGED conns
      BY <1>2 DEF PublisherActs, PublisherStep, Insert, Requery, InvalidateSegment, PublishRealtime, PublishReplyLost,
                  PublishFails, BeginPublish, ReaderActs, Miss, Load, Store, ExpireSegment, FeedActs,
                  Consume, SubscriptionBreaks, Resubscribe, StopSubscriber, vars
    <2> QED
      BY <1>1, <2>1
  <1> QED
    BY <1>2, WhoSteps, HubSteps, ConnSteps

\* When the hub has stopped, every connection it took was told to end and none
\* is counted, also one it was adding or removing (Hub.Run, shutdown).
THEOREM StopDrains == Spec => []StoppedIsDrained
  <1>1. Types /\ HubInv => StoppedIsDrained
    <2> SUFFICES ASSUME Types, HubInv, hub.pc = "done"
                 PROVE  /\ registered = {} /\ gauge = 0
                        /\ \A c \in Clients : client[c] \in Joined => c \in closed
      BY DEF StoppedIsDrained, Joined
    <2>1. registered = {} /\ gauge = Cardinality(registered) /\ Cardinality({}) = 0
      BY FS_EmptySet DEF HubInv, DoneIsEmpty, GaugeCounts
    <2> QED
      BY <2>1 DEF HubInv, JoinedAreKnown, Adding
  <1> QED
    BY TypesInit, TypesStep, HubInit, HubInvStep, <1>1, PTL DEF Spec

\* While the hub runs, a handler that has returned without giving up leaves no
\* connection in the registry (Register, Unregister and their contexts).
THEOREM GoneAreForgotten == Spec => []GoneIsForgotten
  <1>1. HubInv => GoneIsForgotten
    BY DEF HubInv
  <1> QED
    BY TypesInit, TypesStep, HubInit, HubInvStep, <1>1, PTL DEF Spec

-----------------------------------------------------------------------------
(***************************************************************************)
(* Comments.                                                               *)
(***************************************************************************)

Has(s, x) == \E i \in 1 .. Len(s) : s[i] = x

\* No copy is in s twice.  (Frames that are not comments may be.)
Distinct(s) == \A i, j \in 1 .. Len(s) : s[i] = s[j] /\ s[i] \in Copies => i = j

\* Some request inserted the comment and has not sent this copy yet.
Unpublished(x) ==
    \E p \in Publishers : publisher[p].first /\ publisher[p].message = x[1] /\ resent[x[1]] <= x[2]

Sent(x) == \E c \in Clients : Has(send[c], x) \/ Has(received[c], x)

FirstOnce ==
    \A p, q \in Publishers :
      publisher[p].first /\ publisher[q].first /\ publisher[p].message = publisher[q].message => p = q

FirstSteps ==
    \A p \in Publishers :
      /\ publisher[p].first => publisher[p].pc \in {"invalidate", "publish"}
      /\ publisher[p].pc = "publish" => publisher[p].first

\* Copies are of stored comments, and of commands that were sent.
OnlyStored ==
    \A x \in Copies :
      Unpublished(x) \/ Has(channel, x) \/ Has(queue, x) \/ Sent(x) => x[1] \in stored

OnlySent ==
    \A x \in Copies : Has(channel, x) \/ Has(queue, x) \/ Sent(x) => x[2] <= resent[x[1]]

AllDistinct ==
    /\ Distinct(channel) /\ Distinct(queue)
    /\ \A c \in Clients : Distinct(send[c]) /\ Distinct(received[c])

\* A copy that is still on its way to one place has not come further.
OnePlace ==
    \A x \in Copies :
      /\ Unpublished(x) => ~Has(channel, x) /\ ~Has(queue, x) /\ ~Sent(x)
      /\ Has(channel, x) => ~Has(queue, x) /\ ~Sent(x)
      /\ Has(queue, x) => ~Sent(x)
      /\ \A c \in Clients : Has(send[c], x) => ~Has(received[c], x)

PushInv == FirstOnce /\ FirstSteps /\ OnlyStored /\ OnlySent /\ AllDistinct /\ OnePlace

\* The empty queue has no comments.
LEMMA EmptyHas == (\A m : ~Has(<< >>, m)) /\ Distinct(<< >>)
  BY DEF Has, Distinct

\* A queue that gains a frame.
LEMMA AppendHas ==
    ASSUME NEW T, NEW s \in Seq(T), NEW x \in T
    PROVE  /\ \A m : Has(Append(s, x), m) <=> Has(s, m) \/ m = x
           /\ Distinct(s) /\ (x \in Copies => ~Has(s, x)) => Distinct(Append(s, x))
  <1> DEFINE t == Append(s, x)
  <1>1. /\ Len(t) = Len(s) + 1 /\ Len(s) \in Nat /\ t[Len(s) + 1] = x
        /\ \A i \in 1 .. Len(s) : t[i] = s[i]
    OBVIOUS
  <1> HIDE DEF t
  <1>2. \A i \in 1 .. Len(t) : i \in 1 .. Len(s) \/ i = Len(s) + 1
    BY <1>1
  <1>3. ASSUME NEW m PROVE Has(t, m) <=> Has(s, m) \/ m = x
    <2>1. ASSUME Has(s, m) \/ m = x PROVE Has(t, m)
      <3>1. 1 .. Len(s) \subseteq 1 .. Len(t) /\ Len(s) + 1 \in 1 .. Len(t)
        BY <1>1
      <3> QED
        BY <1>1, <2>1, <3>1 DEF Has
    <2>2. ASSUME Has(t, m) PROVE Has(s, m) \/ m = x
      <3>1. PICK i \in 1 .. Len(t) : t[i] = m
        BY <2>2 DEF Has
      <3> QED
        BY <1>1, <1>2, <3>1 DEF Has
    <2> QED
      BY <2>1, <2>2
  <1>4. ASSUME Distinct(s), x \in Copies => ~Has(s, x) PROVE Distinct(t)
    <2> SUFFICES ASSUME NEW i \in 1 .. Len(t), NEW j \in 1 .. Len(t), t[i] = t[j], t[i] \in Copies PROVE i = j
      BY DEF Distinct
    <2>1. CASE i \in 1 .. Len(s) /\ j \in 1 .. Len(s)
      BY <1>1, <1>4, <2>1 DEF Distinct
    <2>2. CASE i = Len(s) + 1 /\ j = Len(s) + 1
      BY <2>2
    <2>3. CASE i \in 1 .. Len(s) /\ j = Len(s) + 1
      BY <1>1, <1>4, <2>3 DEF Has
    <2>4. CASE i = Len(s) + 1 /\ j \in 1 .. Len(s)
      BY <1>1, <1>4, <2>4 DEF Has
    <2> QED
      BY <1>2, <2>1, <2>2, <2>3, <2>4
  <1> QED
    BY <1>3, <1>4 DEF t

\* A queue that loses its first frame.
LEMMA TailHas ==
    ASSUME NEW T, NEW s \in Seq(T), s # << >>
    PROVE  /\ Head(s) \in T /\ Has(s, Head(s))
           /\ \A m : Has(Tail(s), m) => Has(s, m)
           /\ Distinct(s) => Distinct(Tail(s)) /\ (Head(s) \in Copies => ~Has(Tail(s), Head(s)))
  <1> DEFINE t == Tail(s)
             h == Head(s)
  <1>1. /\ Len(s) \in Nat /\ Len(s) > 0 /\ Len(t) = Len(s) - 1 /\ h = s[1] /\ h \in T
        /\ \A i \in 1 .. Len(t) : t[i] = s[i + 1]
    OBVIOUS
  <1> HIDE DEF t, h
  <1>2. /\ 1 \in 1 .. Len(s)
        /\ \A i \in 1 .. Len(t) : i + 1 \in 1 .. Len(s) /\ i + 1 # 1 /\ i \in Int
    BY <1>1
  <1>3. Has(s, h)
    BY <1>1, <1>2 DEF Has
  <1>4. \A m : Has(t, m) => Has(s, m)
    BY <1>1, <1>2 DEF Has
  <1>5. ASSUME Distinct(s) PROVE Distinct(t) /\ (h \in Copies => ~Has(t, h))
    <2>1. Distinct(t)
      <3> SUFFICES ASSUME NEW i \in 1 .. Len(t), NEW j \in 1 .. Len(t), t[i] = t[j], t[i] \in Copies PROVE i = j
        BY DEF Distinct
      <3>1. i + 1 = j + 1
        BY <1>1, <1>2, <1>5 DEF Distinct
      <3> QED
        BY <1>2, <3>1
    <2>2. ASSUME h \in Copies, NEW i \in 1 .. Len(t), t[i] = h PROVE FALSE
      BY <1>1, <1>2, <1>5, <2>2 DEF Distinct
    <2> QED
      BY <2>1, <2>2 DEF Has
  <1> QED
    BY <1>1, <1>3, <1>4, <1>5 DEF t, h

\* Nothing is published at the start.
LEMMA PushInit == Init => PushInv
  <1> SUFFICES ASSUME Init PROVE PushInv
    OBVIOUS
  <1>1. \A p \in Publishers : publisher[p].pc = "idle" /\ publisher[p].first = FALSE
    BY DEF Init, NoRequest
  <1>2. /\ channel = << >> /\ queue = << >>
        /\ \A c \in Clients : send[c] = << >> /\ received[c] = << >>
    BY DEF Init
  <1>3. \A m : ~Unpublished(m) /\ ~Has(channel, m) /\ ~Has(queue, m) /\ ~Sent(m)
               /\ \A c \in Clients : ~Has(send[c], m)
    BY <1>1, <1>2, EmptyHas DEF Unpublished, Sent
  <1>4. AllDistinct
    BY <1>2, EmptyHas DEF AllDistinct
  <1> QED
    BY <1>1, <1>3, <1>4 DEF PushInv, FirstOnce, FirstSteps, OnlyStored, OnlySent, OnePlace

\* A step that brings no comment to a place where it was not.
LEMMA NothingNew ==
    ASSUME PushInv, FirstOnce', FirstSteps', AllDistinct', stored \subseteq stored', UNCHANGED resent,
           \A m \in Copies :
             /\ Unpublished(m)' => Unpublished(m)
             /\ Has(channel', m) => Has(channel, m)
             /\ Has(queue', m) => Has(queue, m)
             /\ \A c \in Clients : /\ Has(send'[c], m) => Has(send[c], m)
                                   /\ Has(received'[c], m) => Has(received[c], m)
    PROVE  PushInv'
  <1>1. \A m \in Copies : Sent(m)' => Sent(m)
    BY DEF Sent
  <1>2. OnlyStored' /\ OnlySent'
    BY <1>1 DEF PushInv, OnlyStored, OnlySent
  <1>3. OnePlace'
    BY <1>1 DEF PushInv, OnePlace
  <1> QED
    BY <1>2, <1>3 DEF PushInv

\* A request moves on without publishing: it is first only if it was.
LEMMA RequestPush ==
    ASSUME Types, PushInv, NEW p \in Publishers, UNCHANGED <<stored, resent, channel, queue, send, received>>,
           \A q \in Publishers : q # p => publisher'[q] = publisher[q],
           publisher'[p].first => publisher[p].first /\ publisher'[p].message = publisher[p].message
                                  /\ publisher'[p].pc \in {"invalidate", "publish"},
           publisher'[p].pc = "publish" => publisher'[p].first
    PROVE  PushInv'
  <1>1. \A m \in Copies : Unpublished(m)' => Unpublished(m)
    BY DEF Unpublished
  <1>2. FirstOnce'
    BY DEF PushInv, FirstOnce
  <1>3. FirstSteps'
    BY DEF PushInv, FirstSteps
  <1>4. AllDistinct'
    BY DEF PushInv, AllDistinct
  <1> QED
    BY <1>1, <1>2, <1>3, <1>4, NothingNew

\* The unique key decides who publishes: a comment that is new in the table is
\* nowhere else.
LEMMA InsertPush ==
    ASSUME Types, PushInv, NEW p \in Publishers, Insert(p)
    PROVE  PushInv'
  <1> DEFINE x == publisher[p].message
  <1>1. UNCHANGED <<resent, channel, queue, send, received>> /\ publisher[p].pc = "insert"
    BY DEF Insert, feed, conns
  <1>2. x \in Messages /\ ~publisher[p].first /\ publisher \in [Publishers -> [pc : {"idle", "insert", "requery",
            "invalidate", "publish"}, message : Messages \cup {NoMessage}, first : BOOLEAN]]
    BY <1>1 DEF Types, TypeOK, HasComment, PushInv, FirstSteps
  <1>3. CASE x \in stored
    <2>1. UNCHANGED stored /\ publisher' = [publisher EXCEPT ![p].pc = "requery"]
      BY <1>3 DEF Insert, StepP
    <2>2. /\ publisher'[p].pc = "requery" /\ publisher'[p].first = publisher[p].first
          /\ \A q \in Publishers : q # p => publisher'[q] = publisher[q]
      BY <1>2, <2>1
    <2> QED
      BY <1>1, <1>2, <2>1, <2>2, RequestPush
  <1>4. CASE x \notin stored
    <2>1. stored' = stored \cup {x} /\ publisher' = [publisher EXCEPT ![p].pc = "invalidate", ![p].first = TRUE]
      BY <1>4 DEF Insert
    <2>2. /\ publisher'[p] = [pc |-> "invalidate", message |-> x, first |-> TRUE]
          /\ \A q \in Publishers : q # p => publisher'[q] = publisher[q]
      BY <1>2, <2>1
    <2>3. \A y \in Copies : y[1] = x => ~Unpublished(y) /\ ~Has(channel, y) /\ ~Has(queue, y) /\ ~Sent(y)
      BY <1>2, <1>4 DEF PushInv, OnlyStored
    <2>4. \A y \in Copies : /\ Unpublished(y)' => Unpublished(y) \/ y[1] = x
                            /\ Sent(y)' <=> Sent(y)
      BY <1>1, <2>2 DEF Unpublished, Sent
    <2>5. FirstOnce'
      <3>1. \A q \in Publishers : publisher[q].first => publisher[q].message # x
        <4>1. <<x, RetryAttempts>> \in Copies /\ resent[x] <= RetryAttempts
          BY <1>2, DanmakuConstants DEF Copies, Types, TypeOK, DanmakuConstants
        <4>2. ~Unpublished(<<x, RetryAttempts>>)
          BY <2>3, <4>1
        <4> QED
          BY <4>1, <4>2 DEF Unpublished
      <3> QED
        BY <2>2, <3>1 DEF PushInv, FirstOnce
    <2>6. FirstSteps'
      BY <2>2 DEF PushInv, FirstSteps
    <2>7. AllDistinct'
      BY <1>1 DEF PushInv, AllDistinct
    <2>8. OnlyStored' /\ OnlySent'
      BY <1>1, <2>1, <2>4 DEF PushInv, OnlyStored, OnlySent
    <2>9. OnePlace'
      <3> SUFFICES ASSUME NEW m \in Copies
                   PROVE  /\ Unpublished(m)' => ~Has(channel, m) /\ ~Has(queue, m) /\ ~Sent(m)
                          /\ Has(channel, m) => ~Has(queue, m) /\ ~Sent(m)
                          /\ Has(queue, m) => ~Sent(m)
                          /\ \A c \in Clients : Has(send[c], m) => ~Has(received[c], m)
        BY <1>1, <2>4 DEF OnePlace
      <3> QED
        BY <2>3, <2>4 DEF PushInv, OnePlace
    <2> QED
      BY <2>5, <2>6, <2>7, <2>8, <2>9 DEF PushInv
  <1> QED
    BY <1>3, <1>4

\* A copy of the comment goes from its request to the channel.
LEMMA RealtimePush ==
    ASSUME Types, PushInv, NEW p \in Publishers, PublishRealtime(p) \/ PublishReplyLost(p)
    PROVE  PushInv'
  <1> DEFINE m == publisher[p].message
             x == <<m, resent[m]>>
  <1>1. /\ UNCHANGED <<stored, queue, send, received>> /\ publisher[p].pc = "publish"
        /\ channel' = channel \/ channel' = Append(channel, x)
    BY DEF PublishRealtime, PublishReplyLost, Send, history, conns
  <1>2. /\ m \in Messages /\ publisher[p].first /\ channel \in Seq(Copies)
        /\ resent \in [Messages -> 0 .. RetryAttempts]
        /\ publisher \in [Publishers -> [pc : {"idle", "insert", "requery", "invalidate", "publish"},
                                         message : Messages \cup {NoMessage}, first : BOOLEAN]]
    BY <1>1 DEF Types, TypeOK, HasComment, PushInv, FirstSteps
  <1>3. x \in Copies /\ x[1] = m /\ x[2] = resent[m] /\ resent[m] \in Int
    BY <1>2 DEF Copies
  <1>4. \/ /\ resent' = resent /\ publisher'[p].first = FALSE /\ publisher'[p].pc = "idle"
           /\ \A q \in Publishers : q # p => publisher'[q] = publisher[q]
        \/ /\ publisher' = publisher /\ resent'[m] = resent[m] + 1
           /\ \A n \in Messages : n # m => resent'[n] = resent[n]
    BY <1>2 DEF PublishRealtime, PublishReplyLost, EndP, NoRequest, history
  <1> HIDE DEF m, x
  <1>5. FirstOnce' /\ FirstSteps'
    BY <1>4 DEF PushInv, FirstOnce, FirstSteps
  <1>6. Unpublished(x) /\ ~Has(channel, x) /\ ~Has(queue, x) /\ ~Sent(x) /\ m \in stored
    <2>1. Unpublished(x)
      BY <1>2, <1>3 DEF Unpublished, m
    <2> QED
      BY <1>3, <2>1 DEF PushInv, OnePlace, OnlyStored
  <1>7. ASSUME NEW y \in Copies, Unpublished(y)' PROVE Unpublished(y) /\ y # x
    <2>1. PICK q \in Publishers : publisher'[q].first /\ publisher'[q].message = y[1] /\ resent'[y[1]] <= y[2]
      BY <1>7 DEF Unpublished
    <2>2. y[1] \in Messages /\ y[2] \in Int /\ resent[y[1]] \in Int
      BY <1>2 DEF Copies
    <2>3. CASE publisher'[p].first = FALSE /\ resent' = resent
               /\ \A r \in Publishers : r # p => publisher'[r] = publisher[r]
      <3>1. q # p /\ publisher'[q] = publisher[q]
        BY <2>1, <2>3
      <3>2. y[1] # m
        BY <1>2, <2>1, <3>1 DEF PushInv, FirstOnce, m
      <3> QED
        BY <1>3, <2>1, <2>3, <3>1, <3>2 DEF Unpublished
    <2>4. CASE publisher' = publisher /\ resent'[m] = resent[m] + 1
               /\ \A n \in Messages : n # m => resent'[n] = resent[n]
      <3>1. resent[y[1]] <= y[2] /\ (y[1] = m => y[2] # resent[m])
        BY <1>3, <2>1, <2>2, <2>4
      <3> QED
        BY <1>3, <2>1, <2>4, <3>1 DEF Unpublished
    <2> QED
      BY <1>4, <2>3, <2>4
  <1>8. Distinct(channel') /\ \A y : Has(channel', y) => Has(channel, y) \/ y = x
    <2>1. CASE channel' = channel
      BY <2>1 DEF PushInv, AllDistinct
    <2>2. CASE channel' = Append(channel, x)
      <3>1. Distinct(channel)
        BY DEF PushInv, AllDistinct
      <3> QED
        BY <1>2, <1>3, <1>6, <2>2, <3>1, AppendHas
    <2> QED
      BY <1>1, <2>1, <2>2
  <1>9. AllDistinct' /\ \A y \in Copies : Sent(y)' <=> Sent(y)
    BY <1>1, <1>8 DEF PushInv, AllDistinct, Sent
  <1>10. OnlyStored'
    BY <1>1, <1>3, <1>6, <1>7, <1>8, <1>9 DEF PushInv, OnlyStored
  <1>11. OnlySent'
    <2> SUFFICES ASSUME NEW y \in Copies, Has(channel', y) \/ Has(queue, y) \/ Sent(y)
                 PROVE  y[2] <= resent'[y[1]]
      BY <1>1, <1>9 DEF OnlySent
    <2>1. y[1] \in Messages /\ y[2] \in Int /\ resent[y[1]] \in Int
      BY <1>2 DEF Copies
    <2>2. y[2] <= resent[y[1]]
      BY <1>3, <1>8 DEF PushInv, OnlySent
    <2>3. resent[y[1]] <= resent'[y[1]]
      BY <1>3, <1>4, <2>1
    <2>4. resent'[y[1]] \in Int
      BY <1>3, <1>4, <2>1
    <2> QED
      BY <2>1, <2>2, <2>3, <2>4
  <1>12. OnePlace'
    <2> SUFFICES ASSUME NEW y \in Copies
                 PROVE  /\ Unpublished(y)' => ~Has(channel', y) /\ ~Has(queue, y) /\ ~Sent(y)
                        /\ Has(channel', y) => ~Has(queue, y) /\ ~Sent(y)
                        /\ Has(queue, y) => ~Sent(y)
                        /\ \A c \in Clients : Has(send[c], y) => ~Has(received[c], y)
      BY <1>1, <1>9 DEF OnePlace
    <2> QED
      BY <1>6, <1>7, <1>8 DEF PushInv, OnePlace
  <1> QED
    BY <1>5, <1>9, <1>10, <1>11, <1>12 DEF PushInv

\* The other steps of a request.
LEMMA PublisherPush ==
    ASSUME Types, PushInv, NEW p \in Publishers, PublisherActs(p)
    PROVE  PushInv'
  <1>1. publisher \in [Publishers -> [pc : {"idle", "insert", "requery", "invalidate", "publish"},
                                      message : Messages \cup {NoMessage}, first : BOOLEAN]]
    BY DEF Types, TypeOK
  <1>2. ASSUME UNCHANGED <<stored, resent, channel, queue, send, received>>, EndP(p) PROVE PushInv'
    <2>1. /\ publisher'[p].first = FALSE /\ publisher'[p].pc = "idle"
          /\ \A q \in Publishers : q # p => publisher'[q] = publisher[q]
      BY <1>1, <1>2 DEF EndP, NoRequest
    <2> QED
      BY <1>2, <2>1, RequestPush
  <1>3. ASSUME NEW pc \in {"invalidate", "publish"}, UNCHANGED <<stored, resent, channel, queue, send, received>>, StepP(p, pc),
               pc = "publish" => publisher[p].first
        PROVE  PushInv'
    <2>1. /\ publisher'[p].first = publisher[p].first /\ publisher'[p].pc = pc
          /\ publisher'[p].message = publisher[p].message
          /\ \A q \in Publishers : q # p => publisher'[q] = publisher[q]
      BY <1>1, <1>3 DEF StepP
    <2> QED
      BY <1>3, <2>1, RequestPush
  <1>4. CASE Requery(p)
    <2>1. UNCHANGED <<stored, resent, channel, queue, send, received>> /\ (StepP(p, "invalidate") \/ EndP(p))
      BY <1>4 DEF Requery, feed, conns
    <2> QED
      BY <1>2, <1>3, <2>1
  <1>5. CASE InvalidateSegment(p)
    <2>1. /\ UNCHANGED <<stored, resent, channel, queue, send, received>>
          /\ (publisher[p].first /\ StepP(p, "publish")) \/ EndP(p)
      BY <1>5 DEF InvalidateSegment, Publishes, feed, conns
    <2> QED
      BY <1>2, <1>3, <2>1
  <1>6. CASE PublishFails(p)
    BY <1>2, <1>6 DEF PublishFails, feed, conns
  <1>7. ASSUME NEW m \in Messages, BeginPublish(p, m) PROVE PushInv'
    <2>1. UNCHANGED <<stored, resent, channel, queue, send, received>>
      BY <1>7 DEF BeginPublish, feed, conns
    <2>2. /\ publisher'[p].first = FALSE /\ publisher'[p].pc = "insert"
          /\ \A q \in Publishers : q # p => publisher'[q] = publisher[q]
      BY <1>1, <1>7 DEF BeginPublish
    <2> QED
      BY <2>1, <2>2, RequestPush
  <1> QED
    BY <1>4, <1>5, <1>6, <1>7, InsertPush, RealtimePush DEF PublisherActs, PublisherStep

\* The comment goes from the channel to the hub, or is lost.
LEMMA ConsumePush ==
    ASSUME Types, PushInv, Consume
    PROVE  PushInv'
  <1> DEFINE x == Head(channel)
  <1>1. /\ UNCHANGED <<stored, publisher, resent, send, received>>
        /\ channel # << >> /\ channel' = Tail(channel)
        /\ queue' = queue \/ queue' = Append(queue, x)
    BY DEF Consume, Broadcast, history, conns
  <1>2. channel \in Seq(Copies) /\ queue \in Seq(Copies) /\ Distinct(channel) /\ Distinct(queue)
    BY DEF Types, TypeOK, PushInv, AllDistinct
  <1>3. /\ x \in Copies /\ Has(channel, x) /\ Distinct(channel') /\ ~Has(channel', x)
        /\ \A m : Has(channel', m) => Has(channel, m)
    BY <1>1, <1>2, TailHas
  <1>4. ~Unpublished(x) /\ ~Has(queue, x) /\ ~Sent(x) /\ x[1] \in stored
    BY <1>3 DEF PushInv, OnePlace, OnlyStored, OnlySent
  <1>5. /\ Distinct(queue')
        /\ \A m : Has(queue', m) => Has(queue, m) \/ m = x
    <2>1. CASE queue' = queue
      BY <1>2, <2>1
    <2>2. CASE queue' = Append(queue, x)
      <3>1. /\ \A m : Has(Append(queue, x), m) <=> Has(queue, m) \/ m = x
            /\ Distinct(Append(queue, x))
        BY <1>2, <1>3, <1>4, AppendHas
      <3> QED
        BY <2>2, <3>1
    <2> QED
      BY <1>1, <2>1, <2>2
  <1>6. \A m \in Copies : (Unpublished(m)' <=> Unpublished(m)) /\ (Sent(m)' <=> Sent(m))
    BY <1>1 DEF Unpublished, Sent
  <1>7. FirstOnce' /\ FirstSteps' /\ AllDistinct'
    BY <1>1, <1>3, <1>5 DEF PushInv, FirstOnce, FirstSteps, AllDistinct
  <1> HIDE DEF x
  <1>8. OnlyStored' /\ OnlySent'
    BY <1>1, <1>3, <1>4, <1>5, <1>6 DEF PushInv, OnlyStored, OnlySent
  <1>9. OnePlace'
    <2> SUFFICES ASSUME NEW m \in Copies
                 PROVE  /\ Unpublished(m) => ~Has(channel', m) /\ ~Has(queue', m) /\ ~Sent(m)
                        /\ Has(channel', m) => ~Has(queue', m) /\ ~Sent(m)
                        /\ Has(queue', m) => ~Sent(m)
                        /\ \A c \in Clients : Has(send[c], m) => ~Has(received[c], m)
      BY <1>1, <1>6 DEF OnePlace
    <2> QED
      BY <1>3, <1>4, <1>5 DEF PushInv, OnePlace
  <1> QED
    BY <1>7, <1>8, <1>9 DEF PushInv

\* The comment goes from the hub to the queues of its connections.
LEMMA BroadcastPush ==
    ASSUME Types, PushInv, BroadcastToVideo
    PROVE  PushInv'
  <1> DEFINE x == Head(queue)
  <1>1. /\ UNCHANGED <<stored, publisher, resent, channel, received>>
        /\ queue # << >> /\ queue' = Tail(queue)
        /\ \A c \in Clients : send'[c] = send[c] \/ send'[c] = Append(send[c], x)
    BY DEF BroadcastToVideo, history
  <1>2. /\ queue \in Seq(Copies) /\ Distinct(queue)
        /\ \A c \in Clients : send[c] \in Seq(Frames) /\ Distinct(send[c])
    BY DEF Types, TypeOK, PushInv, AllDistinct
  <1>3. /\ x \in Copies /\ Has(queue, x) /\ Distinct(queue') /\ ~Has(queue', x)
        /\ \A m : Has(queue', m) => Has(queue, m)
    BY <1>1, <1>2, TailHas
  <1>4. ~Unpublished(x) /\ ~Has(channel, x) /\ ~Sent(x) /\ x[1] \in stored
    BY <1>3 DEF PushInv, OnePlace, OnlyStored, OnlySent
  <1>5. ASSUME NEW c \in Clients
        PROVE  /\ Distinct(send'[c]) /\ ~Has(received[c], x)
               /\ \A m : Has(send'[c], m) => Has(send[c], m) \/ m = x
    <2>1. x \in Frames /\ ~Has(send[c], x) /\ ~Has(received[c], x)
      BY <1>3, <1>4 DEF Frames, Sent
    <2>2. CASE send'[c] = send[c]
      BY <1>2, <2>1, <2>2
    <2>3. CASE send'[c] = Append(send[c], x)
      <3>1. /\ \A m : Has(Append(send[c], x), m) <=> Has(send[c], m) \/ m = x
            /\ Distinct(Append(send[c], x))
        BY <1>2, <2>1, AppendHas
      <3> QED
        BY <2>1, <2>3, <3>1
    <2> QED
      BY <1>1, <2>2, <2>3
  <1> HIDE DEF x
  <1>6. \A m \in Copies : (Unpublished(m)' <=> Unpublished(m)) /\ (Sent(m)' => Sent(m) \/ m = x)
    BY <1>1, <1>5 DEF Unpublished, Sent
  <1>7. FirstOnce' /\ FirstSteps' /\ AllDistinct'
    BY <1>1, <1>3, <1>5 DEF PushInv, FirstOnce, FirstSteps, AllDistinct
  <1>8. OnlyStored' /\ OnlySent'
    BY <1>1, <1>3, <1>4, <1>6 DEF PushInv, OnlyStored, OnlySent
  <1>9. OnePlace'
    <2> SUFFICES ASSUME NEW m \in Copies
                 PROVE  /\ Unpublished(m) => ~Has(channel, m) /\ ~Has(queue', m) /\ ~Sent(m)'
                        /\ Has(channel, m) => ~Has(queue', m) /\ ~Sent(m)'
                        /\ Has(queue', m) => ~Sent(m)'
                        /\ \A c \in Clients : Has(send'[c], m) => ~Has(received[c], m)
      BY <1>1, <1>6 DEF OnePlace
    <2>1. /\ Unpublished(m) => ~Has(channel, m) /\ ~Has(queue', m) /\ ~Sent(m)'
          /\ Has(channel, m) => ~Has(queue', m) /\ ~Sent(m)'
          /\ Has(queue', m) => ~Sent(m)'
      BY <1>3, <1>4, <1>6 DEF PushInv, OnePlace
    <2>2. \A c \in Clients : Has(send'[c], m) => ~Has(received[c], m)
      BY <1>5 DEF PushInv, OnePlace
    <2> QED
      BY <2>1, <2>2
  <1> QED
    BY <1>7, <1>8, <1>9 DEF PushInv

\* The writer sends the first frame of the queue, if the socket is open.
LEMMA WritePush ==
    ASSUME Types, PushInv, NEW c \in Clients, WriteFrame(c)
    PROVE  PushInv'
  <1> DEFINE x == Head(send[c])
  <1>1. /\ UNCHANGED <<stored, publisher, resent, channel, queue>> /\ send[c] # << >>
        /\ send' = [send EXCEPT ![c] = Tail(@)]
        /\ \/ UNCHANGED received
           \/ x \in Copies /\ received' = [received EXCEPT ![c] = Append(@, x)]
    BY DEF WriteFrame, history, feed
  <1>2. /\ send[c] \in Seq(Frames) /\ received[c] \in Seq(Copies)
        /\ Distinct(send[c]) /\ Distinct(received[c])
        /\ DOMAIN send = Clients /\ DOMAIN received = Clients
    BY DEF Types, TypeOK, PushInv, AllDistinct
  <1>3. /\ Has(send[c], x) /\ Distinct(Tail(send[c])) /\ (x \in Copies => ~Has(Tail(send[c]), x))
        /\ \A m : Has(Tail(send[c]), m) => Has(send[c], m)
    BY <1>1, <1>2, TailHas
  <1>4. /\ send'[c] = Tail(send[c])
        /\ \A d \in Clients : d # c => send'[d] = send[d] /\ received'[d] = received[d]
    BY <1>1, <1>2
  <1>5. x \in Copies => ~Has(received[c], x)
    BY <1>3 DEF PushInv, OnePlace
  <1> HIDE DEF x
  <1>6. CASE UNCHANGED received
    <2>1. AllDistinct'
      BY <1>1, <1>3, <1>4, <1>6 DEF PushInv, AllDistinct
    <2>2. FirstOnce' /\ FirstSteps' /\ \A m \in Copies : Unpublished(m)' => Unpublished(m)
      BY <1>1 DEF PushInv, FirstOnce, FirstSteps, Unpublished
    <2>3. \A m \in Copies, d \in Clients : Has(send'[d], m) => Has(send[d], m)
      BY <1>3, <1>4
    <2> QED
      BY <1>1, <1>6, <2>1, <2>2, <2>3, NothingNew
  <1>7. CASE x \in Copies /\ received' = [received EXCEPT ![c] = Append(@, x)]
    <2>1. /\ received'[c] = Append(received[c], x) /\ Distinct(received'[c])
          /\ \A m : Has(received'[c], m) <=> Has(received[c], m) \/ m = x
      BY <1>2, <1>5, <1>7, AppendHas
    <2>2. AllDistinct'
      BY <1>1, <1>3, <1>4, <2>1 DEF PushInv, AllDistinct
    <2>3. FirstOnce' /\ FirstSteps' /\ \A m \in Copies : Unpublished(m)' <=> Unpublished(m)
      BY <1>1 DEF PushInv, FirstOnce, FirstSteps, Unpublished
    <2>4. \A m \in Copies : Sent(m)' => Sent(m)
      BY <1>3, <1>4, <2>1 DEF Sent
    <2>5. OnlyStored' /\ OnlySent'
      BY <1>1, <2>3, <2>4 DEF PushInv, OnlyStored, OnlySent
    <2>6. \A m \in Copies, d \in Clients : Has(send'[d], m) => ~Has(received'[d], m)
      BY <1>3, <1>4, <1>7, <2>1 DEF PushInv, OnePlace
    <2>7. OnePlace'
      BY <1>1, <2>3, <2>4, <2>6 DEF PushInv, OnePlace
    <2> QED
      BY <2>2, <2>3, <2>5, <2>7 DEF PushInv
  <1> QED
    BY <1>1, <1>6, <1>7

\* The handler enqueues frames that are not comments.
LEMMA HandlerPush ==
    ASSUME Types, PushInv, NEW c \in Clients, ClientActs(c) \/ WriterEnds(c)
    PROVE  PushInv'
  <1>1. UNCHANGED <<stored, publisher, resent, channel, queue, received>>
    BY DEF ClientActs, Connect, ConnectRejected, BrowserLeaves, DataFrame, TextFrame, UnregisterTimesOut,
           HandlerStep, Registered, HubStopped, EnqueueReady, ReadFails, Left, WriterEnds, history, feed
  <1>2. UNCHANGED send \/ \E x \in {Ready, Error} : send' = [send EXCEPT ![c] = Append(@, x)]
    BY DEF ClientActs, Connect, ConnectRejected, BrowserLeaves, DataFrame, TextFrame, UnregisterTimesOut,
           HandlerStep, Registered, HubStopped, EnqueueReady, ReadFails, Left, WriterEnds
  <1>3. ASSUME NEW d \in Clients
        PROVE  Distinct(send'[d]) /\ \A m \in Copies : Has(send'[d], m) => Has(send[d], m)
    <2>1. send[d] \in Seq(Frames) /\ Distinct(send[d]) /\ send \in [Clients -> Seq(Frames)]
      BY DEF Types, TypeOK, PushInv, AllDistinct
    <2>2. CASE send'[d] = send[d]
      BY <2>1, <2>2
    <2>3. ASSUME NEW x \in {Ready, Error}, send'[d] = Append(send[d], x)
          PROVE  Distinct(send'[d]) /\ \A m \in Copies : Has(send'[d], m) => Has(send[d], m)
      <3>1. x \in Frames /\ x \notin Copies
        BY DanmakuConstants DEF DanmakuConstants, Frames, Copies
      <3> QED
        BY <2>1, <2>3, <3>1, AppendHas
    <2> QED
      BY <1>2, <2>1, <2>2, <2>3
  <1>4. AllDistinct'
    BY <1>1, <1>3 DEF PushInv, AllDistinct
  <1>5. FirstOnce' /\ FirstSteps' /\ \A m \in Copies : Unpublished(m)' => Unpublished(m)
    BY <1>1 DEF PushInv, FirstOnce, FirstSteps, Unpublished
  <1> QED
    BY <1>1, <1>3, <1>4, <1>5, NothingNew

\* The remaining steps: readers, subscriptions that break, and the registry.
LEMMA OtherPush ==
    ASSUME Types, PushInv,
           \/ (\E r \in Readers : ReaderActs(r)) \/ ExpireSegment
           \/ SubscriptionBreaks \/ Resubscribe \/ StopSubscriber
           \/ Check \/ Add \/ Remove \/ Shutdown \/ Stop
           \/ \E c \in Clients : TakeRegister(c) \/ TakeUnregister(c)
           \/ UNCHANGED vars
    PROVE  PushInv'
  <1>1. UNCHANGED <<stored, publisher, resent, queue, send, received>> /\ (channel' = channel \/ channel' = << >>)
    BY DEF ReaderActs, Miss, Load, Store, ExpireSegment, SubscriptionBreaks, Resubscribe, StopSubscriber,
           Check, Add, Remove, Shutdown, Stop, TakeRegister, TakeUnregister, history, feed, conns, vars
  <1>2. AllDistinct' /\ \A m \in Copies : Has(channel', m) => Has(channel, m)
    BY <1>1, EmptyHas DEF PushInv, AllDistinct
  <1>3. FirstOnce' /\ FirstSteps' /\ \A m \in Copies : Unpublished(m)' => Unpublished(m)
    BY <1>1 DEF PushInv, FirstOnce, FirstSteps, Unpublished
  <1> QED
    BY <1>1, <1>2, <1>3, NothingNew

\* Every step keeps a comment in one place.
LEMMA PushStep == Types /\ PushInv /\ [Next]_vars => PushInv'
  <1> SUFFICES ASSUME Types, PushInv, [Next]_vars PROVE PushInv'
    OBVIOUS
  <1>1. CASE \/ (\E r \in Readers : ReaderActs(r)) \/ ExpireSegment \/ FeedActs
             \/ HubEvent \/ Stop \/ UNCHANGED vars
    BY <1>1, OtherPush, ConsumePush, BroadcastPush DEF FeedActs, HubEvent
  <1>2. ASSUME NEW c \in Clients, ClientActs(c) \/ WriterActs(c) PROVE PushInv'
    BY <1>2, WritePush, HandlerPush DEF WriterActs
  <1> QED
    BY <1>1, <1>2, WhoSteps, PublisherPush

\* No browser is sent one PUBLISH of a comment twice, however often and by
\* however many overlapping requests the comment is published: the copies it
\* gets are at most one more than the replies to the PUBLISH that were lost
\* (Service.Publish, RealtimePublisher.Publish, Hub.Broadcast).
THEOREM PushedOnce == Spec => []PushedOncePerPublish
  <1>1. Types /\ PushInv => PushedOncePerPublish
    <2> SUFFICES ASSUME Types, PushInv, NEW c \in Clients
                 PROVE  LET frames == received[c] \o send[c]
                        IN \A i, j \in 1 .. Len(frames) : frames[i] \in Copies =>
                             /\ frames[i] = frames[j] => i = j
                             /\ frames[i][2] <= resent[frames[i][1]]
      BY DEF PushedOncePerPublish
    <2> DEFINE r == received[c]
               s == send[c]
               f == r \o s
    <2>1. /\ r \in Seq(Frames) /\ s \in Seq(Frames)
      BY DEF Types, TypeOK, Frames
    <2>2. /\ Len(r) \in Nat /\ Len(s) \in Nat /\ Len(f) = Len(r) + Len(s)
          /\ \A i \in 1 .. Len(f) : f[i] = IF i <= Len(r) THEN r[i] ELSE s[i - Len(r)]
      <3> HIDE DEF r, s
      <3>1. Len(r) \in Nat /\ Len(s) \in Nat
        BY <2>1
      <3>2. /\ Len(r \o s) = Len(r) + Len(s)
            /\ \A i \in 1 .. Len(r) + Len(s) : (r \o s)[i] = IF i <= Len(r) THEN r[i] ELSE s[i - Len(r)]
        BY <2>1, ConcatProperties, Zenon
      <3> QED
        BY <3>1, <3>2, Zenon
    <2>3. /\ Distinct(r) /\ Distinct(s) /\ \A x \in Copies : Has(s, x) => ~Has(r, x)
          /\ \A x \in Copies : Has(s, x) \/ Has(r, x) => x[2] <= resent[x[1]]
      BY DEF PushInv, AllDistinct, OnePlace, OnlySent, Sent
    <2> HIDE DEF r, s, f
    <2>4. ASSUME NEW i \in 1 .. Len(f), NEW j \in 1 .. Len(f), f[i] = f[j], f[i] \in Copies
          PROVE  i = j
      <3>1. CASE i <= Len(r) /\ j <= Len(r)
        <4>1. i \in 1 .. Len(r) /\ j \in 1 .. Len(r) /\ f[i] = r[i] /\ f[j] = r[j]
          BY <2>2, <3>1
        <4> QED
          BY <2>3, <2>4, <4>1 DEF Distinct
      <3>2. CASE i > Len(r) /\ j > Len(r)
        <4>1. /\ i - Len(r) \in 1 .. Len(s) /\ j - Len(r) \in 1 .. Len(s)
              /\ f[i] = s[i - Len(r)] /\ f[j] = s[j - Len(r)]
          BY <2>2, <3>2
        <4>2. i - Len(r) = j - Len(r)
          BY <2>3, <2>4, <4>1 DEF Distinct
        <4> QED
          BY <2>2, <4>2
      <3>3. CASE i <= Len(r) /\ j > Len(r)
        <4>1. i \in 1 .. Len(r) /\ j - Len(r) \in 1 .. Len(s) /\ f[i] = r[i] /\ f[j] = s[j - Len(r)]
          BY <2>2, <3>3
        <4> QED
          BY <2>3, <2>4, <4>1 DEF Has
      <3>4. CASE i > Len(r) /\ j <= Len(r)
        <4>1. j \in 1 .. Len(r) /\ i - Len(r) \in 1 .. Len(s) /\ f[j] = r[j] /\ f[i] = s[i - Len(r)]
          BY <2>2, <3>4
        <4> QED
          BY <2>3, <2>4, <4>1 DEF Has
      <3> QED
        BY <2>2, <3>1, <3>2, <3>3, <3>4
    <2>5. ASSUME NEW i \in 1 .. Len(f), f[i] \in Copies PROVE f[i][2] <= resent[f[i][1]]
      <3>1. Has(r, f[i]) \/ Has(s, f[i])
        <4>1. CASE i <= Len(r)
          <5>1. i \in 1 .. Len(r) /\ f[i] = r[i]
            BY <2>2, <4>1
          <5> QED
            BY <5>1 DEF Has
        <4>2. CASE i > Len(r)
          <5>1. i - Len(r) \in 1 .. Len(s) /\ f[i] = s[i - Len(r)]
            BY <2>2, <4>2
          <5> QED
            BY <5>1 DEF Has
        <4> QED
          BY <2>2, <4>1, <4>2
      <3> QED
        BY <2>3, <2>5, <3>1
    <2> QED
      BY <2>4, <2>5 DEF f, r, s
  <1> QED
    BY TypesInit, TypesStep, PushInit, PushStep, <1>1, PTL DEF Spec
=============================================================================
