------------------------ MODULE SubscriptionFeedProofs ------------------------
(***************************************************************************)
(* ConnectionManager implements StreamLife, for any subscription whose     *)
(* slot in the request is its own, among any number of others.             *)
(*                                                                         *)
(* The refinement rests on two facts about the manager.  What it holds of  *)
(* the subscription - the value not yet given to it, the command in the    *)
(* channel, the entry of the registry - is never in two places, so that a  *)
(* removal does not leave a second one behind; and a stream the server     *)
(* serves has its task, so that what goes out on the stream that is held   *)
(* goes to a task that reads.                                              *)
(***************************************************************************)
EXTENDS SubscriptionFeed, StreamProofs

\* The command that adds Sub is in the channel once.
QueuedOnce ==
    \A i, j \in 1..Len(commands) :
        commands[i] = AddSub /\ commands[j] = AddSub => i = j

\* Sub is in one place.
OnePlace ==
    /\ Sub \in created => Sub \notin subscriptions /\ ~AddQueued
    /\ Sub \in subscriptions => ~AddQueued
    /\ QueuedOnce

FeedInv == ServedIsRead /\ OnePlace

-----------------------------------------------------------------------------
(* What the abstract state is made of.                                     *)

StreamsSame == UNCHANGED <<client, proc, link, request>>

LEMMA StreamsFrame ==
    ASSUME StreamsSame
    PROVE  UNCHANGED <<client, Reading, Serving, Requested>>
BY DEF StreamsSame, Reading, Serving, Requested

LEMMA LifeFrame ==
    ASSUME OnePlace, UNCHANGED <<created, commands, subscriptions>>
    PROVE  Life' = Life /\ OnePlace'
BY DEF OnePlace, QueuedOnce, Life, AddQueued

LEMMA RegisteredLife ==
    ASSUME OnePlace
    PROVE  Life = "registered" <=> Sub \in subscriptions
BY DEF OnePlace, Life

\* Nothing takes the slot of Sub in a request.
LEMMA RequestCarries ==
    ASSUME Typed, NEW req \in BuildSubscribeRequest(subscriptions)
    PROVE  Sub \in req <=> Sub \in subscriptions
<1>1. /\ req \subseteq subscriptions
      /\ subscriptions \subseteq SubId
      /\ \A s \in subscriptions : \E r \in req : FilterSlot(r) = FilterSlot(s)
  BY DEF BuildSubscribeRequest, Typed
<1>2. ASSUME Sub \in subscriptions
      PROVE  Sub \in req
  <2>1. PICK r \in req : FilterSlot(r) = FilterSlot(Sub)
    BY <1>1, <1>2
  <2> QED
    BY <1>1, <2>1, SubAssumption
<1> QED
  BY <1>1, <1>2

-----------------------------------------------------------------------------
(* The command channel.                                                    *)

LEMMA QueuedAfterSend ==
    ASSUME Typed, NEW command \in Command, SendCommand(command)
    PROVE  /\ AddQueued' <=> AddQueued \/ command = AddSub
           /\ QueuedOnce /\ ~(AddQueued /\ command = AddSub) => QueuedOnce'
<1> DEFINE n == Len(commands) + 1
<1>1. commands \in Seq(Command) /\ commands' = Append(commands, command)
  BY DEF SendCommand, Typed
<1>2. /\ Len(commands) \in Nat
      /\ Len(commands') = n
      /\ \A i \in 1..Len(commands) : commands'[i] = commands[i]
      /\ commands'[n] = command
  BY <1>1, AppendProperties, LenProperties
<1>3. 1..Len(commands') = 1..Len(commands) \cup {n}
  BY <1>2, SMT
<1> HIDE DEF n
<1> QED
  BY <1>2, <1>3 DEF AddQueued, QueuedOnce

LEMMA QueuedAfterReceive ==
    ASSUME Typed, commands # <<>>, commands' = Tail(commands), QueuedOnce
    PROVE  /\ QueuedOnce'
           /\ Head(commands) = AddSub => AddQueued /\ ~AddQueued'
           /\ Head(commands) # AddSub => (AddQueued' <=> AddQueued)
<1>1. /\ Len(commands) \in Nat \ {0}
      /\ Len(commands') = Len(commands) - 1
      /\ Head(commands) = commands[1]
      /\ \A j \in 1..Len(commands') : commands'[j] = commands[j + 1]
  BY HeadTailProperties, LenProperties, EmptySeq DEF Typed
<1>2. 1 \in 1..Len(commands)
  BY <1>1
<1>3. \A j \in 1..Len(commands') : j + 1 \in 1..Len(commands) /\ j + 1 # 1
  BY <1>1
<1>4. \A i \in 1..Len(commands) :
          i # 1 => i - 1 \in 1..Len(commands') /\ (i - 1) + 1 = i
  BY <1>1
<1>5. QueuedOnce'
  <2> SUFFICES ASSUME NEW i \in 1..Len(commands'), NEW j \in 1..Len(commands'),
                      commands'[i] = AddSub, commands'[j] = AddSub
               PROVE  i = j
    BY DEF QueuedOnce, AddSub
  <2>1. i + 1 = j + 1
    BY <1>1, <1>3 DEF QueuedOnce
  <2> QED
    BY <2>1
<1>6. ASSUME AddQueued'
      PROVE  \E i \in 1..Len(commands) : i # 1 /\ commands[i] = AddSub
  BY <1>1, <1>3, <1>6 DEF AddQueued, AddSub
<1>7. ASSUME NEW i \in 1..Len(commands), i # 1, commands[i] = AddSub
      PROVE  AddQueued'
  <2>1. commands'[i - 1] = commands[i]
    BY <1>1, <1>4, <1>7
  <2> QED
    BY <1>4, <1>7, <2>1 DEF AddQueued, AddSub
<1>8. CASE Head(commands) = AddSub
  BY <1>1, <1>2, <1>5, <1>6, <1>8 DEF AddQueued, QueuedOnce
<1>9. CASE Head(commands) # AddSub
  <2>1. ASSUME AddQueued
        PROVE  AddQueued'
    <3>1. PICK i \in 1..Len(commands) : commands[i] = AddSub
      BY <2>1 DEF AddQueued
    <3>2. i # 1
      BY <1>1, <1>9, <3>1
    <3> QED
      BY <1>7, <3>1, <3>2
  <2>2. AddQueued' => AddQueued
    BY <1>6 DEF AddQueued
  <2> QED
    BY <1>5, <1>9, <2>1, <2>2
<1> QED
  BY <1>8, <1>9

-----------------------------------------------------------------------------
(* What each step does to the abstract state.                              *)

FeedSame == UNCHANGED <<client, Reading, Serving, Life, Requested>>

\* A step that keeps Sub in one place and is one of StreamLife, or none.
FeedStep == OnePlace' /\ (Streams!StreamNext \/ FeedSame)

\* A step that touches neither the streams nor Sub.
LEMMA QuietRefines ==
    ASSUME OnePlace, StreamsSame, UNCHANGED <<created, commands, subscriptions>>
    PROVE  FeedStep
BY StreamsFrame, LifeFrame DEF FeedStep, FeedSame

\* A call of the API other than add_subscription(Sub).
LEMMA SendRefines ==
    ASSUME Typed, OnePlace, StreamsSame,
           NEW command \in Command, SendCommand(command), command # AddSub,
           (Sub \in created)' <=> Sub \in created,
           subscriptions' = subscriptions
    PROVE  FeedStep
<1>1. (AddQueued' <=> AddQueued) /\ QueuedOnce'
  BY QueuedAfterSend DEF OnePlace
<1>2. OnePlace' /\ Life' = Life
  BY <1>1 DEF OnePlace, Life
<1> QED
  BY <1>2, StreamsFrame DEF FeedStep, FeedSame

LEMMA AddSubscriptionRefines ==
    ASSUME Typed, OnePlace, NEW s \in SubId, AddSubscription(s)
    PROVE  FeedStep
<1> DEFINE command == [op |-> "add", sub |-> s]
<1>1. /\ s \in created /\ created' = created \ {s}
      /\ subscriptions' = subscriptions
      /\ SendCommand(command) /\ command \in Command
      /\ StreamsSame
  BY DEF AddSubscription, Command, StreamsSame, connVars, netVars, regVars
<1>2. CASE s = Sub
  <2>1. command = AddSub
    BY <1>2 DEF AddSub
  <2>2. AddQueued' /\ QueuedOnce'
    BY <1>1, <1>2, <2>1, QueuedAfterSend DEF OnePlace
  <2>3. OnePlace' /\ Life = "none" /\ Life' = "queued"
    BY <1>1, <1>2, <2>2 DEF OnePlace, Life
  <2>4. Streams!Accept
    BY <1>1, <2>3, StreamsFrame DEF Streams!Accept, Streams!streamVars
  <2> QED
    BY <2>3, <2>4 DEF FeedStep, Streams!StreamNext
<1>3. CASE s # Sub
  <2>1. command # AddSub
    BY <1>3 DEF AddSub
  <2> HIDE DEF command
  <2> QED
    BY <1>1, <1>3, <2>1, SendRefines
<1> QED
  BY <1>2, <1>3

LEMMA ApiRefines ==
    ASSUME Typed, OnePlace, API
    PROVE  FeedStep
<1> USE DEF StreamsSame, connVars, netVars, regVars, apiVars, Command, AddSub
<1>1. ASSUME NEW s \in SubId, AddSubscription(s)
      PROVE  FeedStep
  BY <1>1, AddSubscriptionRefines
<1>2. ASSUME NEW s \in SubId, AddSubscriptionFails(s)
      PROVE  FeedStep
  <2>1. /\ s \in created /\ created' = created \ {s}
        /\ UNCHANGED <<commands, subscriptions>>
        /\ StreamsSame
    BY <1>2 DEF AddSubscriptionFails
  <2>2. AddQueued' = AddQueued /\ (QueuedOnce => QueuedOnce')
    BY <2>1 DEF AddQueued, QueuedOnce
  <2>3. CASE s = Sub
    <3>1. OnePlace' /\ Life = "none" /\ Life' = "gone"
      BY <2>1, <2>2, <2>3 DEF OnePlace, Life
    <3>2. Streams!Forget
      BY <2>1, <3>1, StreamsFrame DEF Streams!Forget, Streams!streamVars
    <3> QED
      BY <3>1, <3>2 DEF FeedStep, Streams!StreamNext
  <2>4. CASE s # Sub
    <3>1. OnePlace' /\ Life' = Life
      BY <2>1, <2>2, <2>4 DEF OnePlace, Life
    <3> QED
      BY <2>1, <3>1, StreamsFrame DEF FeedStep, FeedSame
  <2> QED
    BY <2>3, <2>4
<1>3. ASSUME NEW s \in SubId, RemoveSubscription(s)
      PROVE  FeedStep
  <2> DEFINE command == [op |-> "remove", sub |-> s]
  <2>1. command \in Command /\ command # AddSub
    OBVIOUS
  <2>2. /\ SendCommand(command)
        /\ UNCHANGED <<created, subscriptions>>
        /\ StreamsSame
    BY <1>3 DEF RemoveSubscription
  <2> HIDE DEF command
  <2> QED
    BY <2>1, <2>2, SendRefines
<1>4. ASSUME NEW c \in Client, RemoveClientSubscriptions(c)
      PROVE  FeedStep
  <2> DEFINE command == [op |-> "remove_client", client |-> c]
  <2>1. command \in Command /\ command # AddSub
    OBVIOUS
  <2>2. /\ SendCommand(command)
        /\ UNCHANGED <<created, subscriptions>>
        /\ StreamsSame
    BY <1>4 DEF RemoveClientSubscriptions
  <2> HIDE DEF command
  <2> QED
    BY <2>1, <2>2, SendRefines
<1>5. CASE SendShutdown
  <2> DEFINE command == [op |-> "shutdown"]
  <2>1. command \in Command /\ command # AddSub
    OBVIOUS
  <2>2. /\ SendCommand(command) \/ UNCHANGED commands
        /\ UNCHANGED <<created, subscriptions>>
        /\ StreamsSame
    BY <1>5 DEF SendShutdown
  <2> HIDE DEF command
  <2> QED
    BY <2>1, <2>2, SendRefines, QuietRefines
<1>6. CASE CallShutdown \/ BroadcastShutdown
  BY <1>6, QuietRefines DEF CallShutdown, BroadcastShutdown
<1> QED
  BY <1>1, <1>2, <1>3, <1>4, <1>5, <1>6, Zenon DEF API

LEMMA EndsRefines ==
    ASSUME OnePlace, Ends
    PROVE  FeedStep
<1>1. /\ commands' = <<>> /\ client' = NoConn
      /\ UNCHANGED <<created, subscriptions, proc, link, request>>
  BY DEF Ends, ConnectPanics, ReceiveShutdown, ReceiveSignal, TaskEnds, netVars,
     apiVars, regVars
<1>2. ~AddQueued' /\ QueuedOnce'
  <2>1. Len(commands') = 0
    BY <1>1, EmptySeq
  <2> QED
    BY <2>1, SMT DEF AddQueued, QueuedOnce
<1>3. OnePlace' /\ Life' = IF Life = "queued" THEN "gone" ELSE Life
  BY <1>1, <1>2 DEF OnePlace, Life
<1>4. UNCHANGED <<Reading, Serving, Requested>>
  BY <1>1 DEF Reading, Serving, Requested
<1>5. Streams!ManagerEnds
  BY <1>1, <1>3, <1>4 DEF Streams!ManagerEnds
<1> QED
  BY <1>3, <1>5 DEF FeedStep, Streams!StreamNext

\* The registry takes Sub from the channel ...
LEMMA ReceiveAddRefines ==
    ASSUME Typed, OnePlace, ReceiveAdd
    PROVE  FeedStep
<1> DEFINE head == Head(commands)
<1>1. /\ commands # <<>> /\ commands' = Tail(commands)
      /\ head.op = "add"
      /\ subscriptions' = subscriptions \cup {head.sub}
      /\ created' = created
      /\ StreamsSame
  BY DEF ReceiveAdd, Receive, StreamsSame, apiVars, connVars, netVars
<1>2. head \in Command
  BY <1>1, HeadCommand DEF Typed
<1>3. head = [op |-> "add", sub |-> head.sub]
  BY <1>1, <1>2 DEF Command
<1>4. /\ QueuedOnce'
      /\ head = AddSub => AddQueued /\ ~AddQueued'
      /\ head # AddSub => (AddQueued' <=> AddQueued)
  BY <1>1, QueuedAfterReceive DEF OnePlace
<1> HIDE DEF head
<1>5. CASE head = AddSub
  <2>1. head.sub = Sub
    BY <1>5 DEF AddSub
  <2>2. OnePlace' /\ Life = "queued" /\ Life' = "registered"
    BY <1>1, <1>4, <1>5, <2>1 DEF OnePlace, Life
  <2>3. Streams!Register
    BY <1>1, <2>2, StreamsFrame DEF Streams!Register, Streams!streamVars
  <2> QED
    BY <2>2, <2>3 DEF FeedStep, Streams!StreamNext
<1>6. CASE head # AddSub
  <2>1. head.sub # Sub
    BY <1>3, <1>6 DEF AddSub
  <2>2. OnePlace' /\ Life' = Life
    BY <1>1, <1>4, <1>6, <2>1 DEF OnePlace, Life
  <2> QED
    BY <1>1, <2>2, StreamsFrame DEF FeedStep, FeedSame
<1> QED
  BY <1>5, <1>6

\* ... and loses it, one by one or with its client.
LEMMA RegistryLosesRefines ==
    ASSUME OnePlace, StreamsSame, created' = created,
           QueuedOnce', AddQueued' <=> AddQueued,
           subscriptions' \subseteq subscriptions
    PROVE  FeedStep
<1>1. OnePlace'
  BY DEF OnePlace
<1>2. CASE Sub \in subscriptions /\ Sub \notin subscriptions'
  <2>1. Life = "registered" /\ Life' = "gone"
    BY <1>2 DEF OnePlace, Life
  <2>2. Streams!Forget
    BY <2>1, StreamsFrame DEF Streams!Forget, Streams!streamVars
  <2> QED
    BY <1>1, <2>2 DEF FeedStep, Streams!StreamNext
<1>3. CASE Sub \in subscriptions <=> Sub \in subscriptions'
  <2>1. Life' = Life
    BY <1>3 DEF Life
  <2> QED
    BY <1>1, <2>1, StreamsFrame DEF FeedStep, FeedSame
<1> QED
  BY <1>2, <1>3

LEMMA HandleCommandRefines ==
    ASSUME Typed, OnePlace, HandleCommand
    PROVE  FeedStep
<1> USE DEF StreamsSame, connVars, netVars, regVars, apiVars
<1>1. CASE ReceiveAdd
  BY <1>1, ReceiveAddRefines
<1>2. CASE ReceiveRemove \/ ReceiveRemoveClient
  <2>1. /\ commands # <<>> /\ commands' = Tail(commands)
        /\ Head(commands).op # "add"
        /\ created' = created
        /\ subscriptions' \subseteq subscriptions
        /\ StreamsSame
    BY <1>2 DEF ReceiveRemove, ReceiveRemoveClient, Receive
  <2>2. Head(commands) # AddSub
    BY <2>1 DEF AddSub
  <2>3. QueuedOnce' /\ (AddQueued' <=> AddQueued)
    BY <2>1, <2>2, QueuedAfterReceive DEF OnePlace
  <2> QED
    BY <2>1, <2>3, RegistryLosesRefines
<1>3. CASE DropSubscriptions
  <2>1. /\ UNCHANGED <<created, commands>>
        /\ subscriptions' \subseteq subscriptions
        /\ StreamsSame
    BY <1>3 DEF DropSubscriptions
  <2>2. QueuedOnce' /\ (AddQueued' <=> AddQueued)
    BY <2>1 DEF OnePlace, QueuedOnce, AddQueued
  <2> QED
    BY <2>1, <2>2, RegistryLosesRefines
<1>4. CASE IndexAdded \/ UnindexRemoved \/ DropClient
  BY <1>4, QuietRefines DEF IndexAdded, UnindexRemoved, DropClient
<1>5. CASE ReceiveShutdown
  BY <1>5, EndsRefines DEF Ends
<1> QED
  BY <1>1, <1>2, <1>3, <1>4, <1>5 DEF HandleCommand

-----------------------------------------------------------------------------
(* The connection.                                                         *)

LEMMA ConnectRefines ==
    ASSUME Typed, HoldsConnection, OnePlace, ConnectSucceeds
    PROVE  FeedStep
<1>1. PICK c \in Conn : c = NextConn /\ proc[c] = "none"
  BY NextConnUnused DEF ConnectSucceeds
<1>2. PICK req \in BuildSubscribeRequest(subscriptions) :
          request' = [request EXCEPT ![c] = req]
  BY <1>1 DEF ConnectSucceeds
<1>3. /\ client = NoConn /\ client' = c
      /\ proc' = [proc EXCEPT ![c] = "reading"]
      /\ link' = [link EXCEPT ![c] = "up"]
      /\ UNCHANGED <<created, commands, subscriptions>>
  BY <1>1 DEF ConnectSucceeds, HoldsConnection, apiVars, regVars
<1>4. OnePlace' /\ Life' = Life
  BY <1>3, LifeFrame
<1>5. Reading' = Reading \cup {c} /\ c \notin Reading
  BY <1>1, <1>3 DEF Reading, Typed
<1>6. Serving' = Serving \cup {c}
  BY <1>3 DEF Serving, Typed
<1>7. Requested' = IF Life = "registered" THEN Requested \cup {c}
                   ELSE Requested \ {c}
  <2>1. Sub \in request'[c] <=> Life = "registered"
    BY <1>2, RequestCarries, RegisteredLife DEF Typed
  <2>2. \A d \in Conn : d # c => request'[d] = request[d]
    BY <1>2 DEF Typed
  <2>3. Requested \subseteq Conn /\ c \in Reading'
    BY <1>5 DEF Requested, Reading
  <2>4. \A d \in Reading' : d # c => d \in Conn /\ d \in Reading
    BY <1>5 DEF Reading
  <2> QED
    BY <1>5, <2>1, <2>2, <2>3, <2>4 DEF Requested, Reading
<1>8. Streams!Open(c)
  BY <1>3, <1>4, <1>5, <1>6, <1>7 DEF Streams!Open, Streams!Requesting
<1> QED
  BY <1>4, <1>8 DEF FeedStep, Streams!StreamNext

LEMMA PushSucceedsRefines ==
    ASSUME Typed, HoldsConnection, ServedIsRead, OnePlace, PushSucceeds
    PROVE  FeedStep
<1>1. /\ client = subscribe_tx
      /\ UNCHANGED <<client, proc, link, created, commands, subscriptions>>
  BY DEF PushSucceeds, HoldsConnection, connVars, apiVars, regVars
<1>2. client \in Conn
  BY DEF PushSucceeds, MustPush, Typed, HoldsConnection
<1>3. OnePlace' /\ Life' = Life
  BY <1>1, LifeFrame
<1>4. CASE link[client] = "up"
  <2>1. PICK req \in BuildSubscribeRequest(subscriptions) :
            request' = [request EXCEPT ![client] = req]
    BY <1>1, <1>4 DEF PushSucceeds
  <2>2. client \in Serving /\ client \in Reading
    BY <1>2, <1>4 DEF Serving, Reading, ServedIsRead
  <2>3. UNCHANGED <<Reading, Serving>>
    BY <1>1 DEF Reading, Serving
  <2>4. Requested' = IF Life = "registered" THEN Requested \cup {client}
                     ELSE Requested \ {client}
    <3>1. Sub \in request'[client] <=> Life = "registered"
      BY <1>2, <2>1, RequestCarries, RegisteredLife DEF Typed
    <3>2. \A d \in Conn : d # client => request'[d] = request[d]
      BY <2>1 DEF Typed
    <3> QED
      BY <2>2, <2>3, <3>1, <3>2 DEF Requested, Reading
  <2>5. Streams!Ask
    BY <1>1, <1>3, <2>2, <2>3, <2>4
    DEF Streams!Ask, Streams!Requesting, Streams!streamVars
  <2> QED
    BY <1>3, <2>5 DEF FeedStep, Streams!StreamNext
<1>5. CASE link[client] # "up"
  <2>1. StreamsSame
    BY <1>1, <1>5 DEF PushSucceeds, StreamsSame
  <2> QED
    BY <1>1, <2>1, QuietRefines
<1> QED
  BY <1>4, <1>5

LEMMA LetGoRefines ==
    ASSUME OnePlace, client # NoConn, client' = NoConn,
           UNCHANGED <<proc, link, request, created, commands, subscriptions>>
    PROVE  FeedStep
<1>1. OnePlace' /\ Life' = Life
  BY LifeFrame
<1>2. UNCHANGED <<Reading, Serving, Requested>>
  BY DEF Reading, Serving, Requested
<1>3. Streams!LetGo
  BY <1>1, <1>2 DEF Streams!LetGo
<1> QED
  BY <1>1, <1>3 DEF FeedStep, Streams!StreamNext

LEMMA PushOrEventRefines ==
    ASSUME Typed, HoldsConnection, ServedIsRead, OnePlace, Push \/ HandleEvent
    PROVE  FeedStep
<1> USE DEF apiVars, regVars, connVars, netVars
<1>1. CASE PushSucceeds
  BY <1>1, PushSucceedsRefines
<1>2. CASE PushFails \/ NothingToPush \/ HandleEvent
  <2>1. /\ UNCHANGED <<proc, link, request, created, commands, subscriptions>>
        /\ client' \in {client, NoConn}
        /\ pc \in {"push", "select"}
    BY <1>2 DEF PushFails, NothingToPush, HandleEvent, ConnectionLost,
       PongSucceeds, PongFails, ReceiveEvent
  <2>2. client # NoConn
    BY <2>1 DEF HoldsConnection
  <2>3. CASE client' = client
    BY <2>1, <2>3, QuietRefines DEF StreamsSame
  <2>4. CASE client' = NoConn
    BY <2>1, <2>2, <2>4, LetGoRefines
  <2> QED
    BY <2>1, <2>3, <2>4
<1> QED
  BY <1>1, <1>2 DEF Push

LEMMA StreamRefines ==
    ASSUME Typed, ServedIsRead, OnePlace, NEW c \in Conn,
           StreamTask(c) \/ LinkFails(c) \/ ServerCloses(c)
    PROVE  FeedStep
<1>1. /\ UNCHANGED <<client, request, created, commands, subscriptions>>
      /\ OnePlace' /\ Life' = Life
  <2>1. UNCHANGED <<client, request, created, commands, subscriptions>>
    BY DEF StreamTask, StreamPing, StreamError, StreamClosed, StreamVarsSame,
       LinkFails, ServerCloses, NetVarsSame, connVars, apiVars, regVars
  <2> QED
    BY <2>1, LifeFrame
<1>2. CASE StreamPing(c) \/ StreamError(c)
  <2>1. Reading' = Reading /\ Serving' = Serving
    BY <1>2 DEF StreamPing, StreamError, StreamVarsSame, Reading, Serving, Typed
  <2>2. Requested' = Requested
    BY <1>1, <2>1 DEF Requested
  <2> QED
    BY <1>1, <2>1, <2>2 DEF FeedStep, FeedSame
<1>3. CASE StreamClosed(c)
  <2>1. /\ link' = link
        /\ proc[c] # "none" /\ link[c] # "up"
        /\ proc' = [proc EXCEPT ![c] = "none"]
    BY <1>3 DEF StreamClosed, StreamVarsSame, ServedIsRead
  <2>2. Reading' = Reading \ {c} /\ Serving' = Serving
    BY <2>1 DEF Reading, Serving, Typed
  <2>3. c \in Reading \ Serving
    BY <2>1 DEF Reading, Serving
  <2>4. Requested' = Requested \ {c}
    BY <1>1, <2>2 DEF Requested
  <2>5. Streams!EndTask(c)
    BY <1>1, <2>2, <2>3, <2>4 DEF Streams!EndTask
  <2> QED
    BY <1>1, <2>5 DEF FeedStep, Streams!StreamNext
<1>4. CASE LinkFails(c) \/ ServerCloses(c)
  <2>1. /\ proc' = proc
        /\ link[c] = "up"
        /\ \E how \in {"ended", "broken"} : link' = [link EXCEPT ![c] = how]
    BY <1>4 DEF LinkFails, ServerCloses, NetVarsSame
  <2>2. Serving' = Serving \ {c} /\ c \in Serving
    BY <2>1 DEF Serving, Typed
  <2>3. Reading' = Reading /\ Requested' = Requested
    BY <1>1, <2>1 DEF Reading, Requested
  <2>4. Streams!StopServing(c)
    BY <1>1, <2>2, <2>3 DEF Streams!StopServing
  <2> QED
    BY <1>1, <2>4 DEF FeedStep, Streams!StreamNext
<1> QED
  BY <1>2, <1>3, <1>4 DEF StreamTask

-----------------------------------------------------------------------------
(* The refinement.                                                         *)

LEMMA FeedRefines ==
    ASSUME IInv, FeedInv, [Next]_vars
    PROVE  FeedInv' /\ [Streams!StreamNext]_(Streams!feedVars)
<1>1. Typed /\ HoldsConnection /\ ServedIsRead /\ OnePlace
  BY DEF IInv, FeedInv
<1>2. FeedStep
  <2>1. CASE API
    BY <1>1, <2>1, ApiRefines
  <2>2. CASE ConnectSucceeds
    BY <1>1, <2>2, ConnectRefines
  <2>3. CASE ConnectFails
    BY <1>1, <2>3, QuietRefines
    DEF ConnectFails, StreamsSame, apiVars, regVars, connVars, netVars
  <2>4. CASE ConnectPanics \/ ReceiveSignal
    BY <1>1, <2>4, EndsRefines DEF Ends
  <2>5. CASE HandleCommand
    BY <1>1, <2>5, HandleCommandRefines
  <2>6. CASE Push \/ HandleEvent
    BY <1>1, <2>6, PushOrEventRefines
  <2>7. ASSUME NEW c \in Conn, StreamTask(c) \/ LinkFails(c) \/ ServerCloses(c)
        PROVE  FeedStep
    BY <1>1, <2>7, StreamRefines
  <2>8. CASE UNCHANGED vars
    BY <1>1, <2>8, QuietRefines
    DEF vars, StreamsSame, apiVars, regVars, connVars, netVars
  <2> QED
    BY <2>1, <2>2, <2>3, <2>4, <2>5, <2>6, <2>7, <2>8, Zenon DEF Next, Terminated
<1>3. ServedIsRead'
  BY <1>1, ServedStep
<1> QED
  BY <1>2, <1>3 DEF FeedStep, FeedSame, FeedInv, Streams!feedVars,
     Streams!streamVars

LEMMA FeedInit == Init => FeedInv /\ Streams!StreamInit
<1> SUFFICES ASSUME Init
             PROVE  FeedInv /\ Streams!StreamInit
  OBVIOUS
<1>1. ServedIsRead /\ Reading = {} /\ Serving = {} /\ Requested = {}
  BY DEF Init, ServedIsRead, Reading, Serving, Requested
<1>2. ~AddQueued /\ QueuedOnce
  <2>1. Len(commands) = 0
    BY EmptySeq DEF Init
  <2> QED
    BY <2>1, SMT DEF AddQueued, QueuedOnce
<1>3. OnePlace /\ Life = "none"
  BY <1>2, SubAssumption DEF Init, OnePlace, Life
<1> QED
  BY <1>1, <1>3 DEF FeedInv, Streams!StreamInit, Init

\* Whoever reads the updates of a subscription from the streams can rely on
\* StreamLife: a stream is opened only while none is held, and its task does
\* not end before the server has stopped serving it; the subscription is in the
\* registry before a stream asks for its updates, each request carries it if
\* and only if it is registered at that time, and it is registered once at most.
THEOREM ManagerImplementsStreamLife == Spec => ImplementsStreamLife
<1>1. Init => FeedInv /\ Streams!StreamInit
  BY FeedInit
<1>2. IInv /\ FeedInv /\ [Next]_vars => FeedInv'
  BY FeedRefines
<1>3. IInv /\ FeedInv /\ [Next]_vars
      => [Streams!StreamNext]_(Streams!feedVars)
  BY FeedRefines
<1> QED
  BY <1>1, <1>2, <1>3, Invariant, PTL
  DEF Spec, ImplementsStreamLife, Streams!StreamSpec
===============================================================================
