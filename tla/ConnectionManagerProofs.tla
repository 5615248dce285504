----------------------- MODULE ConnectionManagerProofs -----------------------
(***************************************************************************)
(* The safety of ConnectionManager for any number of clients,              *)
(* subscriptions and streams, any capacity of the channels and any number  *)
(* of failing links.                                                       *)
(*                                                                         *)
(* The invariants of ConnectionManager speak of the places where nothing   *)
(* is half done.  To be inductive they are extended to the middle of the   *)
(* handlers: there the index is that of the registry with the handled      *)
(* command undone, and the request of the server that of the registry      *)
(* before the command.                                                     *)
(***************************************************************************)
EXTENDS ConnectionManager, SubscriptionsProofs, SequenceTheorems, TLAPS

\* The task is between two steps of a handler.
MidHandler == {"index", "unindex", "drop_subs", "drop_index"}

\* TypeOK without the index: the type of the index follows from HandlerInv.
Typed ==
    /\ created \in SUBSET SubId
    /\ caller \in {"idle", "sending", "signalling", "returned"}
    /\ commands \in Seq(Command) /\ Len(commands) <= CommandCap
    /\ events \in Seq({"ping", "error", "closed"}) /\ Len(events) <= EventCap
    /\ signal \in BOOLEAN
    /\ subscriptions \in SUBSET SubId
    /\ pc \in {"connect", "select", "push", "exited", "panicked"} \cup MidHandler
    /\ cmd \in Command \cup {NoCommand}
    /\ ids \in SUBSET SubId
    /\ client \in Conn \cup {NoConn}
    /\ subscribe_tx \in Conn \cup {NoConn}
    /\ needs_update \in BOOLEAN
    /\ failures \in Nat
    /\ proc \in [Conn -> {"none", "reading", "closing"}]
    /\ link \in [Conn -> {"up", "ended", "broken"}]
    /\ request \in [Conn -> SUBSET SubId]
    /\ faults \in Nat

\* The index in every place of the task.
HandlerInv ==
    /\ pc \notin MidHandler =>
           client_subscriptions = IndexOf(subscriptions)
    /\ pc = "index" =>
           /\ cmd.sub \in SubId
           /\ \E subs \in SUBSET SubId :
                  /\ subscriptions = subs \cup {cmd.sub}
                  /\ client_subscriptions = IndexOf(subs)
    /\ pc = "unindex" =>
           /\ cmd.sub \in SubId \ subscriptions
           /\ client_subscriptions = IndexOf(subscriptions \cup {cmd.sub})
    /\ pc = "drop_subs" =>
           /\ cmd.op = "remove_client"
           /\ client_subscriptions = IndexOf(subscriptions)
           /\ ids = OwnedBy(subscriptions, cmd.client)
    /\ pc = "drop_index" =>
           /\ client_subscriptions = IndexOf(subscriptions \cup ids)
           /\ ids = OwnedBy(subscriptions \cup ids, cmd.client)
           /\ subscriptions \cap ids = {}

\* The connection in every place of the task.
HoldsConnection ==
    /\ client = subscribe_tx
    /\ pc \in {"connect", "exited", "panicked"} => client = NoConn
    /\ pc \in {"select", "push"} \cup MidHandler => client # NoConn
    /\ pc \in {"select"} \cup MidHandler => ~needs_update

\* The registry that the request of the server is of.
RequestedRegistry ==
    IF pc = "drop_index" THEN subscriptions \cup ids ELSE subscriptions

\* The request of the server in every place where no update is due.
RequestInv ==
    /\ client # NoConn
    /\ link[client] = "up"
    /\ ~needs_update
    /\ pc \notin {"index", "unindex"}
    => request[client] \in BuildSubscribeRequest(RequestedRegistry)

IInv ==
    /\ Typed
    /\ HandlerInv
    /\ HoldsConnection
    /\ RequestInv
    /\ DeadStreamNoticed

-----------------------------------------------------------------------------
(* Shapes of steps.                                                        *)

\* A step that leaves the handlers alone.
QuietStep ==
    /\ UNCHANGED regVars
    /\ \/ UNCHANGED <<pc, cmdVars>>
       \/ pc \notin MidHandler /\ pc' \notin MidHandler

LEMMA HandlerSteps ==
    ASSUME [Next]_vars
    PROVE  \/ QuietStep
           \/ ReceiveAdd \/ IndexAdded
           \/ ReceiveRemove \/ UnindexRemoved
           \/ ReceiveRemoveClient \/ DropSubscriptions \/ DropClient
<1>1. CASE API
  BY <1>1, Zenon DEF API, AddSubscription, AddSubscriptionFails,
     RemoveSubscription, RemoveClientSubscriptions, CallShutdown, SendShutdown,
     BroadcastShutdown, QuietStep, cmdVars
<1>2. CASE ConnectSucceeds
  BY <1>2 DEF ConnectSucceeds, QuietStep, MidHandler
<1>3. CASE ConnectFails
  BY <1>3 DEF ConnectFails, QuietStep
<1>4. CASE ConnectPanics
  BY <1>4 DEF ConnectPanics, TaskEnds, QuietStep, MidHandler
<1>5. CASE ReceiveShutdown \/ ReceiveSignal
  BY <1>5 DEF ReceiveShutdown, ReceiveSignal, TaskEnds, QuietStep, MidHandler
<1>6. CASE Push
  BY <1>6 DEF Push, PushSucceeds, PushFails, NothingToPush, LoopHead, QuietStep,
     MidHandler
<1>7. CASE HandleEvent
  BY <1>7 DEF HandleEvent, ConnectionLost, PongSucceeds, PongFails, ReceiveEvent,
     LoopHead, QuietStep, MidHandler
<1>8. ASSUME NEW c \in Conn, StreamTask(c) \/ LinkFails(c) \/ ServerCloses(c)
      PROVE  QuietStep
  BY <1>8, Zenon DEF StreamTask, StreamPing, StreamError, StreamClosed,
     StreamVarsSame, LinkFails, ServerCloses, NetVarsSame, QuietStep
<1>9. CASE UNCHANGED vars
  BY <1>9 DEF vars, QuietStep
<1> QED
  BY <1>1, <1>2, <1>3, <1>4, <1>5, <1>6, <1>7, <1>8, <1>9, Zenon
  DEF Next, HandleCommand, Terminated

\* A command at the head of the channel has the fields of its kind.
LEMMA HeadCommand ==
    ASSUME commands \in Seq(Command), commands # <<>>
    PROVE  /\ Head(commands) \in Command
           /\ Tail(commands) \in Seq(Command)
           /\ Len(Tail(commands)) <= Len(commands)
           /\ Head(commands).op \in {"add", "remove"} => Head(commands).sub \in SubId
<1>1. /\ Head(commands) \in Command
      /\ Tail(commands) \in Seq(Command)
      /\ Len(Tail(commands)) = Len(commands) - 1
      /\ Len(commands) \in Nat
  BY HeadTailProperties, LenProperties
<1>2. \A x \in Command : x.op \in {"add", "remove"} => x.sub \in SubId
  BY DEF Command
<1> QED
  BY <1>1, <1>2, SMT

-----------------------------------------------------------------------------
(* The index.                                                              *)

\* A step of a handler takes the index from one place to the next.
LEMMA HandlerStep ==
    ASSUME Typed, HandlerInv, [Next]_vars
    PROVE  HandlerInv'
<1>1. CASE QuietStep
  <2>1. CASE UNCHANGED <<pc, cmdVars>>
    BY <1>1, <2>1 DEF QuietStep, HandlerInv, regVars, cmdVars
  <2>2. CASE pc \notin MidHandler /\ pc' \notin MidHandler
    BY <1>1, <2>2 DEF QuietStep, HandlerInv, regVars, MidHandler
  <2> QED
    BY <1>1, <2>1, <2>2 DEF QuietStep
<1>2. CASE ReceiveAdd
  <2>1. Head(commands).sub \in SubId
    BY <1>2, HeadCommand DEF ReceiveAdd, Receive, Typed
  <2>2. /\ pc' = "index" /\ cmd'.sub = Head(commands).sub
        /\ subscriptions' = subscriptions \cup {cmd'.sub}
        /\ client_subscriptions' = IndexOf(subscriptions)
        /\ subscriptions \in SUBSET SubId
    BY <1>2 DEF ReceiveAdd, Receive, HandlerInv, MidHandler, Typed
  <2> QED
    BY <2>1, <2>2, Zenon DEF HandlerInv, MidHandler
<1>3. CASE IndexAdded
  <2>1. PICK subs \in SUBSET SubId :
            /\ subscriptions = subs \cup {cmd.sub}
            /\ client_subscriptions = IndexOf(subs)
    BY <1>3 DEF IndexAdded, HandlerInv
  <2>2. cmd.sub \in SubId
    BY <1>3 DEF IndexAdded, HandlerInv
  <2>3. client_subscriptions' = IndexOf(subscriptions)
    BY <1>3, <2>1, <2>2, IndexInsertCorrect DEF IndexAdded
  <2>4. pc' = "push" /\ subscriptions' = subscriptions
    BY <1>3 DEF IndexAdded
  <2> QED
    BY <2>3, <2>4 DEF HandlerInv, MidHandler
<1>4. CASE ReceiveRemove
  <2> DEFINE s == Head(commands).sub
  <2>1. /\ s \in SubId
        /\ client_subscriptions' = IndexOf(subscriptions)
        /\ subscriptions' = subscriptions \ {s}
        /\ subscriptions \in SUBSET SubId
    BY <1>4, HeadCommand
    DEF ReceiveRemove, Receive, HandlerInv, MidHandler, Typed
  <2>2. CASE s \in subscriptions
    <3>1. pc' = "unindex" /\ cmd'.sub = s
      BY <1>4, <2>2 DEF ReceiveRemove
    <3>2. subscriptions' \cup {s} = subscriptions
      BY <2>1, <2>2
    <3> QED
      BY <2>1, <3>1, <3>2 DEF HandlerInv, MidHandler
  <2>3. CASE s \notin subscriptions
    <3>1. pc' = "push" /\ subscriptions' = subscriptions
      BY <1>4, <2>1, <2>3 DEF ReceiveRemove
    <3> QED
      BY <2>1, <3>1 DEF HandlerInv, MidHandler
  <2> QED
    BY <2>2, <2>3
<1>5. CASE UnindexRemoved
  <2>1. /\ cmd.sub \in SubId \ subscriptions
        /\ client_subscriptions = IndexOf(subscriptions \cup {cmd.sub})
        /\ subscriptions \cup {cmd.sub} \in SUBSET SubId
    BY <1>5 DEF UnindexRemoved, HandlerInv, Typed
  <2>2. (subscriptions \cup {cmd.sub}) \ {cmd.sub} = subscriptions
    BY <2>1
  <2>3. client_subscriptions' = IndexOf(subscriptions)
    BY <1>5, <2>1, <2>2, IndexRemoveCorrect DEF UnindexRemoved
  <2>4. pc' = "push" /\ subscriptions' = subscriptions
    BY <1>5 DEF UnindexRemoved
  <2> QED
    BY <2>3, <2>4 DEF HandlerInv, MidHandler
<1>6. CASE ReceiveRemoveClient
  <2>1. /\ pc' = "drop_subs"
        /\ cmd'.op = "remove_client"
        /\ UNCHANGED regVars
        /\ client_subscriptions = IndexOf(subscriptions)
        /\ ids' = IndexLookup(client_subscriptions, cmd'.client)
        /\ subscriptions \in SUBSET SubId
    BY <1>6 DEF ReceiveRemoveClient, Receive, HandlerInv, MidHandler, Typed
  <2>2. ids' = OwnedBy(subscriptions, cmd'.client)
    BY <2>1, IndexLookupCorrect
  <2> QED
    BY <2>1, <2>2 DEF HandlerInv, MidHandler, regVars
<1>7. CASE DropSubscriptions
  <2>1. /\ pc' = "drop_index"
        /\ UNCHANGED <<cmd, ids, client_subscriptions>>
        /\ subscriptions' = subscriptions \ ids
        /\ client_subscriptions = IndexOf(subscriptions)
        /\ ids = OwnedBy(subscriptions, cmd.client)
    BY <1>7 DEF DropSubscriptions, HandlerInv, cmdVars
  <2>2. subscriptions' \cup ids = subscriptions /\ subscriptions' \cap ids = {}
    BY <2>1 DEF OwnedBy
  <2> QED
    BY <2>1, <2>2 DEF HandlerInv, MidHandler
<1>8. CASE DropClient
  <2>1. /\ pc' = "push"
        /\ subscriptions' = subscriptions
        /\ client_subscriptions' = IndexDrop(client_subscriptions, cmd.client)
        /\ client_subscriptions = IndexOf(subscriptions \cup ids)
        /\ ids = OwnedBy(subscriptions \cup ids, cmd.client)
        /\ subscriptions \cap ids = {}
        /\ subscriptions \cup ids \in SUBSET SubId
    BY <1>8 DEF DropClient, HandlerInv, Typed
  <2>2. (subscriptions \cup ids) \ OwnedBy(subscriptions \cup ids, cmd.client)
            = subscriptions
    BY <2>1
  <2>3. client_subscriptions' = IndexOf(subscriptions)
    BY <2>1, <2>2, IndexDropCorrect
  <2> QED
    BY <2>1, <2>3 DEF HandlerInv, MidHandler
<1> QED
  BY <1>1, <1>2, <1>3, <1>4, <1>5, <1>6, <1>7, <1>8, HandlerSteps

-----------------------------------------------------------------------------
(* Types.                                                                  *)

LEMMA SendCommandTyped ==
    ASSUME Typed, NEW command \in Command, SendCommand(command)
    PROVE  commands' \in Seq(Command) /\ Len(commands') <= CommandCap
<1>1. /\ commands \in Seq(Command)
      /\ Len(commands) < CommandCap
      /\ commands' = Append(commands, command)
  BY DEF SendCommand, Typed
<1>2. /\ commands' \in Seq(Command)
      /\ Len(commands') = Len(commands) + 1
      /\ Len(commands) \in Nat
  BY <1>1, AppendProperties, LenProperties
<1> QED
  BY <1>1, <1>2, ManagerAssumption, SMT

LEMMA SendEventTyped ==
    ASSUME Typed, NEW event \in {"ping", "error", "closed"}, SendEvent(event)
    PROVE  /\ events' \in Seq({"ping", "error", "closed"})
           /\ Len(events') <= EventCap
<1> DEFINE E == {"ping", "error", "closed"}
<1>1. CASE ~Running
  BY <1>1 DEF SendEvent, Typed
<1>2. CASE Running
  <2>1. /\ events \in Seq(E)
        /\ Len(events) < EventCap
        /\ events' = Append(events, event)
    BY <1>2 DEF SendEvent, Typed
  <2>2. /\ events' \in Seq(E)
        /\ Len(events') = Len(events) + 1
        /\ Len(events) \in Nat
    BY <2>1, AppendProperties, LenProperties
  <2> QED
    BY <2>1, <2>2, ManagerAssumption, SMT
<1> QED
  BY <1>1, <1>2

LEMMA EventQueueTail ==
    ASSUME Typed, events # <<>>
    PROVE  /\ Tail(events) \in Seq({"ping", "error", "closed"})
           /\ Len(Tail(events)) <= EventCap
<1>1. /\ Tail(events) \in Seq({"ping", "error", "closed"})
      /\ Len(Tail(events)) = Len(events) - 1
      /\ Len(events) \in Nat /\ Len(events) <= EventCap
  BY HeadTailProperties, LenProperties DEF Typed
<1> QED
  BY <1>1, ManagerAssumption, SMT

\* The connection that is opened next is one.
LEMMA NextConnUnused ==
    ASSUME Unused # {}
    PROVE  NextConn \in Conn /\ proc[NextConn] = "none" /\ NextConn # client
BY Zenon DEF NextConn, Unused

\* Ending the task leaves everything typed.
LEMMA TaskEndsTyped ==
    ASSUME Typed, NEW how \in {"exited", "panicked"}, TaskEnds(how),
           UNCHANGED <<apiVars, regVars, needs_update, netVars>>,
           failures' \in Nat
    PROVE  Typed'
<1>1. /\ <<>> \in Seq(Command) /\ <<>> \in Seq({"ping", "error", "closed"})
      /\ Len(<<>>) = 0 /\ 0 <= CommandCap /\ 0 <= EventCap
  BY EmptySeq, ManagerAssumption, SMT
<1>2. /\ commands' \in Seq(Command) /\ Len(commands') <= CommandCap
      /\ events' \in Seq({"ping", "error", "closed"}) /\ Len(events') <= EventCap
  BY <1>1, Zenon DEF TaskEnds
<1>3. /\ pc' = how /\ signal' = FALSE /\ ids' = {} /\ cmd' = NoCommand
      /\ client' = NoConn /\ subscribe_tx' = NoConn
  BY DEF TaskEnds
<1>4. UNCHANGED <<created, caller, subscriptions, needs_update, proc, link,
                  request, faults>>
  BY DEF apiVars, regVars, netVars
<1>5. pc' \in {"connect", "select", "push", "exited", "panicked"}
  BY <1>3
<1> QED
  BY <1>2, <1>3, <1>4, <1>5 DEF Typed

LEMMA TypedStep ==
    ASSUME Typed, HandlerInv, HoldsConnection, [Next]_vars
    PROVE  Typed'
<1> USE DEF apiVars, regVars, cmdVars, connVars, netVars
<1>1. CASE API
  <2>1. \A s \in SubId : /\ [op |-> "add", sub |-> s] \in Command
                         /\ [op |-> "remove", sub |-> s] \in Command
    BY DEF Command
  <2>2. \A c \in Client : [op |-> "remove_client", client |-> c] \in Command
    BY DEF Command
  <2>3. [op |-> "shutdown"] \in Command
    BY DEF Command
  <2>4. ASSUME NEW s \in SubId, AddSubscription(s) PROVE Typed'
    BY <2>1, <2>4, SendCommandTyped DEF AddSubscription, Typed
  <2>5. ASSUME NEW s \in SubId, AddSubscriptionFails(s) PROVE Typed'
    BY <2>5 DEF AddSubscriptionFails, Typed
  <2>6. ASSUME NEW s \in SubId, RemoveSubscription(s) PROVE Typed'
    BY <2>1, <2>6, SendCommandTyped DEF RemoveSubscription, Typed
  <2>7. ASSUME NEW c \in Client, RemoveClientSubscriptions(c) PROVE Typed'
    BY <2>2, <2>7, SendCommandTyped DEF RemoveClientSubscriptions, Typed
  <2>8. CASE CallShutdown
    BY <2>8 DEF CallShutdown, Typed
  <2>9. CASE SendShutdown
    BY <2>3, <2>9, SendCommandTyped DEF SendShutdown, Typed
  <2>10. CASE BroadcastShutdown
    BY <2>10 DEF BroadcastShutdown, Typed, Running
  <2> QED
    BY <1>1, <2>4, <2>5, <2>6, <2>7, <2>8, <2>9, <2>10, Zenon DEF API
<1>2. CASE ConnectSucceeds
  <2>1. NextConn \in Conn
    BY <1>2, NextConnUnused DEF ConnectSucceeds
  <2>2. PICK req \in BuildSubscribeRequest(subscriptions) :
            request' = [request EXCEPT ![NextConn] = req]
    BY <1>2, Zenon DEF ConnectSucceeds
  <2>3. req \in SUBSET SubId
    BY <2>2 DEF BuildSubscribeRequest, Typed
  <2>4. request' \in [Conn -> SUBSET SubId]
    BY <2>2, <2>3 DEF Typed
  <2>5. /\ proc' \in [Conn -> {"none", "reading", "closing"}]
        /\ link' \in [Conn -> {"up", "ended", "broken"}]
    BY <1>2 DEF ConnectSucceeds, Typed
  <2> QED
    BY <1>2, <2>1, <2>4, <2>5 DEF ConnectSucceeds, Typed
<1>3. CASE ConnectFails
  BY <1>3 DEF ConnectFails, Typed
<1>4. CASE ConnectPanics
  <2>1. failures' \in Nat
    BY <1>4 DEF ConnectPanics, Typed
  <2> QED
    BY <1>4, <2>1, TaskEndsTyped DEF ConnectPanics
<1>5. CASE ReceiveShutdown \/ ReceiveSignal
  <2>1. failures' \in Nat
    BY <1>5 DEF ReceiveShutdown, ReceiveSignal, Typed
  <2> QED
    BY <1>5, <2>1, TaskEndsTyped DEF ReceiveShutdown, ReceiveSignal
<1>6. CASE ReceiveAdd \/ ReceiveRemove \/ ReceiveRemoveClient
  <2>1. /\ Head(commands) \in Command
        /\ Head(commands).op \in {"add", "remove"} => Head(commands).sub \in SubId
        /\ commands' \in Seq(Command) /\ Len(commands') <= CommandCap
    <3>1. /\ commands # <<>> /\ commands' = Tail(commands)
          /\ commands \in Seq(Command) /\ Len(commands) <= CommandCap
      BY <1>6 DEF ReceiveAdd, ReceiveRemove, ReceiveRemoveClient, Receive, Typed
    <3>2. Len(Tail(commands)) \in Nat /\ Len(commands) \in Nat
      BY <3>1, HeadCommand, LenProperties
    <3> QED
      BY <3>1, <3>2, HeadCommand, ManagerAssumption, SMT
  <2>2. CASE ReceiveAdd
    BY <2>1, <2>2 DEF ReceiveAdd, Receive, Typed, MidHandler
  <2>3. CASE ReceiveRemove
    BY <2>1, <2>3 DEF ReceiveRemove, Receive, Typed, MidHandler
  <2>4. CASE ReceiveRemoveClient
    <3>1. ids' \in SUBSET SubId
      <4>1. HandlerInv'
        BY HandlerStep
      <4>2. ids' = OwnedBy(subscriptions', cmd'.client)
        BY <2>4, <4>1 DEF ReceiveRemoveClient, HandlerInv
      <4>3. subscriptions' \in SUBSET SubId
        BY <2>4 DEF ReceiveRemoveClient, Typed
      <4> QED
        BY <4>2, <4>3 DEF OwnedBy
    <3> QED
      BY <2>1, <2>4, <3>1 DEF ReceiveRemoveClient, Receive, Typed, MidHandler
  <2> QED
    BY <1>6, <2>2, <2>3, <2>4
<1>7. CASE IndexAdded
  BY <1>7 DEF IndexAdded, Typed
<1>8. CASE UnindexRemoved
  BY <1>8 DEF UnindexRemoved, Typed
<1>9. CASE DropSubscriptions
  BY <1>9 DEF DropSubscriptions, Typed, MidHandler
<1>10. CASE DropClient
  BY <1>10 DEF DropClient, Typed
<1>11. CASE PushSucceeds
  <2>1. request' \in [Conn -> SUBSET SubId]
    <3>1. CASE UNCHANGED request
      BY <3>1 DEF Typed
    <3>2. ASSUME NEW req \in BuildSubscribeRequest(subscriptions),
                 request' = [request EXCEPT ![subscribe_tx] = req]
          PROVE  request' \in [Conn -> SUBSET SubId]
      <4>1. req \in SUBSET SubId
        BY <3>2 DEF BuildSubscribeRequest, Typed
      <4> QED
        BY <3>2, <4>1 DEF Typed
    <3> QED
      BY <1>11, <3>1, <3>2, Zenon DEF PushSucceeds
  <2> QED
    BY <1>11, <2>1 DEF PushSucceeds, LoopHead, Typed
<1>12. CASE PushFails
  BY <1>12 DEF PushFails, LoopHead, Typed
<1>13. CASE NothingToPush
  BY <1>13 DEF NothingToPush, LoopHead, Typed
<1>14. CASE HandleEvent
  <2>1. /\ events' \in Seq({"ping", "error", "closed"})
        /\ Len(events') <= EventCap
    BY <1>14, EventQueueTail
    DEF HandleEvent, ConnectionLost, PongSucceeds, PongFails, ReceiveEvent
  <2> QED
    BY <1>14, <2>1
    DEF HandleEvent, ConnectionLost, PongSucceeds, PongFails, LoopHead, Typed
<1>15. ASSUME NEW c \in Conn, StreamTask(c) PROVE Typed'
  <2>1. /\ events' \in Seq({"ping", "error", "closed"})
        /\ Len(events') <= EventCap
    BY <1>15, SendEventTyped DEF StreamTask, StreamPing, StreamError, StreamClosed
  <2>2. proc' \in [Conn -> {"none", "reading", "closing"}]
    BY <1>15 DEF StreamTask, StreamPing, StreamError, StreamClosed, Typed
  <2>3. StreamVarsSame
    BY <1>15 DEF StreamTask, StreamPing, StreamError, StreamClosed
  <2> QED
    BY <2>1, <2>2, <2>3 DEF StreamVarsSame, Typed
<1>16. ASSUME NEW c \in Conn, LinkFails(c) \/ ServerCloses(c) PROVE Typed'
  <2>1. link' \in [Conn -> {"up", "ended", "broken"}] /\ faults' \in Nat
    BY <1>16 DEF LinkFails, ServerCloses, Typed
  <2>2. NetVarsSame
    BY <1>16 DEF LinkFails, ServerCloses
  <2> QED
    BY <2>1, <2>2 DEF NetVarsSame, Typed
<1>17. CASE UNCHANGED vars
  BY <1>17 DEF vars, Typed
<1> QED
  BY <1>1, <1>2, <1>3, <1>4, <1>5, <1>6, <1>7, <1>8, <1>9, <1>10, <1>11, <1>12,
     <1>13, <1>14, <1>15, <1>16, <1>17, Zenon
  DEF Next, HandleCommand, Push, Terminated

-----------------------------------------------------------------------------
(* The connection.                                                         *)

LEMMA HoldsConnectionStep ==
    ASSUME Typed, HoldsConnection, [Next]_vars
    PROVE  HoldsConnection'
<1> USE DEF apiVars, regVars, cmdVars, connVars, netVars
<1>1. CASE API
  <2>1. UNCHANGED <<client, subscribe_tx, pc, needs_update>>
    BY <1>1, Zenon DEF API, AddSubscription, AddSubscriptionFails,
       RemoveSubscription, RemoveClientSubscriptions, CallShutdown,
       SendShutdown, BroadcastShutdown
  <2> QED
    BY <2>1 DEF HoldsConnection
<1>2. CASE ConnectSucceeds
  <2>1. NextConn # NoConn
    BY <1>2, NextConnUnused, ManagerAssumption DEF ConnectSucceeds
  <2> QED
    BY <1>2, <2>1 DEF ConnectSucceeds, HoldsConnection, MidHandler
<1>3. CASE ConnectFails
  BY <1>3 DEF ConnectFails, HoldsConnection
<1>4. CASE ConnectPanics \/ ReceiveShutdown \/ ReceiveSignal
  BY <1>4 DEF ConnectPanics, ReceiveShutdown, ReceiveSignal, TaskEnds,
     HoldsConnection, MidHandler
<1>5. CASE ReceiveAdd \/ ReceiveRemoveClient
  BY <1>5 DEF ReceiveAdd, ReceiveRemoveClient, Receive, HoldsConnection,
     MidHandler
<1>6. CASE ReceiveRemove
  <2>1. pc' = "push" \/ (pc' = "unindex" /\ needs_update' = needs_update)
    BY <1>6 DEF ReceiveRemove
  <2> QED
    BY <1>6, <2>1 DEF ReceiveRemove, Receive, HoldsConnection, MidHandler
<1>7. CASE IndexAdded \/ UnindexRemoved \/ DropSubscriptions \/ DropClient
  BY <1>7 DEF IndexAdded, UnindexRemoved, DropSubscriptions, DropClient,
     HoldsConnection, MidHandler
<1>8. CASE Push
  BY <1>8 DEF Push, PushSucceeds, PushFails, NothingToPush, MustPush, LoopHead,
     HoldsConnection, MidHandler
<1>9. CASE HandleEvent
  BY <1>9 DEF HandleEvent, ConnectionLost, PongSucceeds, PongFails, ReceiveEvent,
     LoopHead, HoldsConnection, MidHandler
<1>10. ASSUME NEW c \in Conn, StreamTask(c) \/ LinkFails(c) \/ ServerCloses(c)
      PROVE  HoldsConnection'
  BY <1>10 DEF StreamTask, StreamPing, StreamError, StreamClosed, StreamVarsSame,
     LinkFails, ServerCloses, NetVarsSame, HoldsConnection
<1>11. CASE UNCHANGED vars
  BY <1>11 DEF vars, HoldsConnection
<1> QED
  BY <1>1, <1>2, <1>3, <1>4, <1>5, <1>6, <1>7, <1>8, <1>9, <1>10,
     <1>11, Zenon
  DEF Next, HandleCommand, Terminated

-----------------------------------------------------------------------------
(* The request of the server.                                              *)

\* The request stays right while nothing it depends on changes.  A link that
\* goes down only makes less of it matter.
LEMMA RequestFrame ==
    ASSUME RequestInv,
           UNCHANGED <<client, request, needs_update, subscriptions, ids>>,
           pc \in {"drop_index"} <=> pc' \in {"drop_index"},
           pc \in {"index", "unindex"} <=> pc' \in {"index", "unindex"},
           client' # NoConn /\ link'[client'] = "up" => link[client] = "up"
    PROVE  RequestInv'
BY DEF RequestInv, RequestedRegistry

LEMMA RequestStep ==
    ASSUME Typed, HandlerInv, HoldsConnection, RequestInv, [Next]_vars
    PROVE  RequestInv'
<1> USE DEF apiVars, regVars, cmdVars, connVars, netVars
<1>1. CASE API
  <2>1. UNCHANGED <<client, request, needs_update, subscriptions, ids, pc, link>>
    BY <1>1, Zenon DEF API, AddSubscription, AddSubscriptionFails,
       RemoveSubscription, RemoveClientSubscriptions, CallShutdown,
       SendShutdown, BroadcastShutdown
  <2> QED
    BY <2>1, RequestFrame
<1>2. CASE ConnectSucceeds
  <2>1. PICK req \in BuildSubscribeRequest(subscriptions) :
            request' = [request EXCEPT ![NextConn] = req]
    BY <1>2, Zenon DEF ConnectSucceeds
  <2>2. request'[NextConn] = req
    BY <1>2, <2>1, NextConnUnused DEF ConnectSucceeds, Typed
  <2>3. pc' = "select" /\ client' = NextConn /\ subscriptions' = subscriptions
    BY <1>2 DEF ConnectSucceeds
  <2> QED
    BY <2>1, <2>2, <2>3 DEF RequestInv, RequestedRegistry
<1>3. CASE ConnectFails
  BY <1>3, RequestFrame DEF ConnectFails
<1>4. CASE ConnectPanics \/ ReceiveShutdown \/ ReceiveSignal
  BY <1>4 DEF ConnectPanics, ReceiveShutdown, ReceiveSignal, TaskEnds, RequestInv
<1>5. CASE ReceiveAdd
  BY <1>5 DEF ReceiveAdd, RequestInv
<1>6. CASE ReceiveRemove
  <2>1. CASE Head(commands).sub \in subscriptions
    BY <1>6, <2>1 DEF ReceiveRemove, RequestInv
  <2>2. CASE Head(commands).sub \notin subscriptions
    BY <1>6, <2>2 DEF ReceiveRemove, RequestInv
  <2> QED
    BY <2>1, <2>2
<1>7. CASE ReceiveRemoveClient
  BY <1>7 DEF ReceiveRemoveClient, Receive, RequestInv, RequestedRegistry
<1>8. CASE IndexAdded \/ UnindexRemoved
  BY <1>8 DEF IndexAdded, UnindexRemoved, RequestInv
<1>9. CASE DropSubscriptions
  <2>1. subscriptions' \cup ids' = subscriptions
    BY <1>9 DEF DropSubscriptions, HandlerInv, OwnedBy
  <2>2. RequestedRegistry' = subscriptions /\ RequestedRegistry = subscriptions
    BY <1>9, <2>1 DEF DropSubscriptions, RequestedRegistry
  <2>3. /\ UNCHANGED <<client, link, needs_update, request>>
        /\ pc = "drop_subs" /\ pc' = "drop_index"
    BY <1>9 DEF DropSubscriptions
  <2> QED
    BY <2>2, <2>3 DEF RequestInv
<1>10. CASE DropClient
  <2>1. CASE ids = {}
    <3>1. RequestedRegistry' = RequestedRegistry
      BY <1>10, <2>1 DEF DropClient, RequestedRegistry
    <3>2. /\ UNCHANGED <<client, link, request>>
          /\ needs_update' = needs_update
          /\ pc = "drop_index" /\ pc' = "push"
      BY <1>10, <2>1 DEF DropClient, Typed
    <3> QED
      BY <3>1, <3>2 DEF RequestInv
  <2>2. CASE ids # {}
    BY <1>10, <2>2 DEF DropClient, RequestInv
  <2> QED
    BY <2>1, <2>2
<1>11. CASE PushSucceeds
  <2>1. CASE link[subscribe_tx] = "up"
    <3>1. PICK req \in BuildSubscribeRequest(subscriptions) :
              request' = [request EXCEPT ![subscribe_tx] = req]
      BY <1>11, <2>1, Zenon DEF PushSucceeds
    <3>2. subscribe_tx \in Conn /\ client = subscribe_tx
      BY <1>11 DEF PushSucceeds, MustPush, HoldsConnection, Typed
    <3>3. request'[client] = req
      BY <3>1, <3>2 DEF Typed
    <3>4. /\ client' = client /\ subscriptions' = subscriptions
          /\ pc' \in {"select", "connect"}
      BY <1>11 DEF PushSucceeds, LoopHead
    <3> QED
      BY <3>1, <3>3, <3>4 DEF RequestInv, RequestedRegistry
  <2>2. CASE link[subscribe_tx] # "up"
    BY <1>11, <2>2 DEF PushSucceeds, HoldsConnection, RequestInv
  <2> QED
    BY <2>1, <2>2
<1>12. CASE PushFails
  BY <1>12 DEF PushFails, RequestInv
<1>13. CASE NothingToPush
  BY <1>13, RequestFrame DEF NothingToPush, LoopHead
<1>14. CASE ConnectionLost \/ PongFails
  BY <1>14 DEF ConnectionLost, PongFails, RequestInv
<1>15. CASE PongSucceeds
  BY <1>15, RequestFrame DEF PongSucceeds
<1>16. ASSUME NEW c \in Conn, StreamTask(c) PROVE RequestInv'
  BY <1>16, RequestFrame
  DEF StreamTask, StreamPing, StreamError, StreamClosed, StreamVarsSame
<1>17. ASSUME NEW c \in Conn, LinkFails(c) \/ ServerCloses(c) PROVE RequestInv'
  <2>1. UNCHANGED <<client, request, needs_update, subscriptions, ids, pc>>
    BY <1>17 DEF LinkFails, ServerCloses, NetVarsSame
  <2>2. client' # NoConn /\ link'[client'] = "up" => link[client] = "up"
    BY <1>17, <2>1 DEF LinkFails, ServerCloses, Typed
  <2> QED
    BY <2>1, <2>2, RequestFrame
<1>18. CASE UNCHANGED vars
  BY <1>18, RequestFrame DEF vars
<1> QED
  BY <1>1, <1>2, <1>3, <1>4, <1>5, <1>6, <1>7, <1>8, <1>9, <1>10, <1>11, <1>12,
     <1>13, <1>14, <1>15, <1>16, <1>17, <1>18, Zenon
  DEF Next, HandleCommand, Push, HandleEvent, Terminated

-----------------------------------------------------------------------------
(* The event that tells of a dead stream.                                  *)

\* A sent event is waiting, and so is what was waiting before.
LEMMA SentIsQueued ==
    ASSUME Typed, Running, NEW event \in {"ping", "error", "closed"},
           SendEvent(event)
    PROVE  /\ Queued(event)'
           /\ \A e : Queued(e) => Queued(e)'
<1>1. /\ events \in Seq({"ping", "error", "closed"})
      /\ events' = Append(events, event)
  BY DEF SendEvent, Typed
<1>2. /\ Len(events') = Len(events) + 1 /\ Len(events) \in Nat
      /\ \A i \in 1..Len(events) : events'[i] = events[i]
      /\ events'[Len(events) + 1] = event
  BY <1>1, AppendProperties, LenProperties
<1>3. Len(events) + 1 \in 1..Len(events')
  BY <1>2, SMT
<1>4. \A i \in 1..Len(events) : i \in 1..Len(events')
  BY <1>2, SMT
<1>5. Queued(event)'
  BY <1>2, <1>3 DEF Queued
<1> QED
  BY <1>2, <1>4, <1>5 DEF Queued

\* Taking another event from the head leaves an event waiting.
LEMMA StillQueued ==
    ASSUME Typed, events # <<>>, events' = Tail(events),
           NEW e, Queued(e), Head(events) # e
    PROVE  Queued(e)'
<1>1. /\ events \in Seq({"ping", "error", "closed"})
      /\ Len(events) \in Nat
  BY LenProperties DEF Typed
<1>2. PICK i \in 1..Len(events) : events[i] = e
  BY DEF Queued
<1>3. i # 1
  BY <1>1, <1>2
<1>4. /\ Len(events') = Len(events) - 1
      /\ \A j \in 1..Len(events) - 1 : events'[j] = events[j + 1]
  BY <1>1, HeadTailProperties
<1>5. i - 1 \in 1..Len(events) - 1 /\ (i - 1) + 1 = i
  BY <1>1, <1>2, <1>3, SMT
<1>6. events'[i - 1] = e
  BY <1>2, <1>4, <1>5
<1>7. i - 1 \in 1..Len(events')
  BY <1>4, <1>5
<1> QED
  BY <1>6, <1>7 DEF Queued

\* Nothing changes that the notice is about.
LEMMA NoticeFrame ==
    ASSUME DeadStreamNoticed, UNCHANGED <<client, proc, events>>
    PROVE  DeadStreamNoticed'
BY DEF DeadStreamNoticed, Queued

\* The connection is let go.
LEMMA NoticeGone ==
    ASSUME client' = NoConn
    PROVE  DeadStreamNoticed'
BY DEF DeadStreamNoticed

LEMMA NoticeStep ==
    ASSUME Typed, HoldsConnection, DeadStreamNoticed, [Next]_vars
    PROVE  DeadStreamNoticed'
<1> USE DEF apiVars, regVars, cmdVars, connVars, netVars
<1>1. CASE API
  <2>1. UNCHANGED <<client, proc, events>>
    BY <1>1, Zenon DEF API, AddSubscription, AddSubscriptionFails,
       RemoveSubscription, RemoveClientSubscriptions, CallShutdown,
       SendShutdown, BroadcastShutdown
  <2> QED
    BY <2>1, NoticeFrame
<1>2. CASE ConnectSucceeds
  <2>1. client' = NextConn /\ proc'[NextConn] = "reading"
    BY <1>2, NextConnUnused DEF ConnectSucceeds, Typed
  <2> QED
    BY <2>1 DEF DeadStreamNoticed
<1>3. CASE ConnectFails
  BY <1>3, NoticeFrame DEF ConnectFails
<1>4. CASE ConnectPanics \/ ReceiveShutdown \/ ReceiveSignal
  BY <1>4, NoticeGone DEF ConnectPanics, ReceiveShutdown, ReceiveSignal, TaskEnds
<1>5. CASE ReceiveAdd \/ ReceiveRemove \/ ReceiveRemoveClient
  BY <1>5, NoticeFrame DEF ReceiveAdd, ReceiveRemove, ReceiveRemoveClient
<1>6. CASE IndexAdded \/ UnindexRemoved \/ DropSubscriptions \/ DropClient
  BY <1>6, NoticeFrame
  DEF IndexAdded, UnindexRemoved, DropSubscriptions, DropClient
<1>7. CASE PushSucceeds \/ NothingToPush
  BY <1>7, NoticeFrame DEF PushSucceeds, NothingToPush
<1>8. CASE PushFails \/ ConnectionLost \/ PongFails
  BY <1>8, NoticeGone DEF PushFails, ConnectionLost, PongFails
<1>9. CASE PongSucceeds
  <2>1. /\ UNCHANGED <<client, proc>>
        /\ events # <<>> /\ events' = Tail(events) /\ Head(events) = "ping"
    BY <1>9 DEF PongSucceeds, ReceiveEvent
  <2>2. \A e \in {"closed", "error"} : Queued(e) => Queued(e)'
    BY <2>1, StillQueued
  <2> QED
    BY <2>1, <2>2 DEF DeadStreamNoticed
<1>10. ASSUME NEW c \in Conn, StreamTask(c) PROVE DeadStreamNoticed'
  <2>1. client' = client /\ Running' = Running
    BY <1>10 DEF StreamTask, StreamPing, StreamError, StreamClosed,
       StreamVarsSame, Running
  <2>2. CASE ~Running
    <3>1. client = NoConn
      BY <2>2 DEF Running, HoldsConnection
    <3> QED
      BY <2>1, <3>1, NoticeGone
  <2>3. CASE Running /\ StreamPing(c)
    <3>1. \A e : Queued(e) => Queued(e)'
      BY <2>3, SentIsQueued DEF StreamPing
    <3> QED
      BY <2>1, <2>3, <3>1 DEF StreamPing, DeadStreamNoticed
  <2>4. CASE Running /\ StreamError(c)
    <3>1. Queued("error")' /\ \A e : Queued(e) => Queued(e)'
      BY <2>4, SentIsQueued DEF StreamError
    <3>2. \A d \in Conn : proc'[d] = IF d = c THEN "closing" ELSE proc[d]
      BY <2>4 DEF StreamError, Typed
    <3>3. client \in Conn \cup {NoConn}
      BY DEF Typed
    <3> QED
      BY <2>1, <3>1, <3>2, <3>3 DEF DeadStreamNoticed
  <2>5. CASE Running /\ StreamClosed(c)
    <3>1. Queued("closed")' /\ \A e : Queued(e) => Queued(e)'
      BY <2>5, SentIsQueued DEF StreamClosed
    <3>2. \A d \in Conn : proc'[d] = IF d = c THEN "none" ELSE proc[d]
      BY <2>5 DEF StreamClosed, Typed
    <3>3. client \in Conn \cup {NoConn}
      BY DEF Typed
    <3> QED
      BY <2>1, <3>1, <3>2, <3>3 DEF DeadStreamNoticed
  <2> QED
    BY <1>10, <2>2, <2>3, <2>4, <2>5 DEF StreamTask
<1>11. ASSUME NEW c \in Conn, LinkFails(c) \/ ServerCloses(c)
       PROVE  DeadStreamNoticed'
  BY <1>11, NoticeFrame DEF LinkFails, ServerCloses, NetVarsSame
<1>12. CASE UNCHANGED vars
  BY <1>12, NoticeFrame DEF vars
<1> QED
  BY <1>1, <1>2, <1>3, <1>4, <1>5, <1>6, <1>7, <1>8, <1>9, <1>10, <1>11, <1>12,
     Zenon
  DEF Next, HandleCommand, Push, HandleEvent, Terminated

-----------------------------------------------------------------------------
(* The theorems.                                                           *)

LEMMA InitInv == Init => IInv
<1> SUFFICES ASSUME Init PROVE IInv
  OBVIOUS
<1>1. /\ <<>> \in Seq(Command) /\ <<>> \in Seq({"ping", "error", "closed"})
      /\ Len(<<>>) = 0 /\ 0 <= CommandCap /\ 0 <= EventCap
  BY EmptySeq, ManagerAssumption, SMT
<1>2. Typed
  BY <1>1 DEF Init, Typed
<1>3. HandlerInv
  BY DEF Init, HandlerInv, MidHandler
<1>4. HoldsConnection /\ RequestInv /\ DeadStreamNoticed
  BY DEF Init, HoldsConnection, RequestInv, DeadStreamNoticed, MidHandler
<1> QED
  BY <1>2, <1>3, <1>4 DEF IInv

LEMMA NextInv == IInv /\ [Next]_vars => IInv'
<1> SUFFICES ASSUME IInv, [Next]_vars PROVE IInv'
  OBVIOUS
<1>1. Typed /\ HandlerInv /\ HoldsConnection /\ RequestInv /\ DeadStreamNoticed
  BY DEF IInv
<1> QED
  BY <1>1, TypedStep, HandlerStep, HoldsConnectionStep, RequestStep, NoticeStep
  DEF IInv

\* What the registries, the connection, the request and the events are to one
\* another in every place of the manager task.
THEOREM Invariant == Spec => []IInv
<1> QED
  BY InitInv, NextInv, PTL DEF Spec

\* Every variable keeps its type; the channels keep within capacity.
THEOREM TypeCorrect == Spec => []TypeOK
<1>1. IInv => TypeOK
  <2> SUFFICES ASSUME IInv PROVE TypeOK
    OBVIOUS
  <2>1. \E subs \in SUBSET SubId : client_subscriptions = IndexOf(subs)
    <3>1. CASE pc \notin MidHandler \/ pc = "drop_subs"
      BY <3>1 DEF IInv, Typed, HandlerInv
    <3>2. CASE pc = "index"
      BY <3>2 DEF IInv, Typed, HandlerInv
    <3>3. CASE pc = "unindex"
      <4>1. subscriptions \cup {cmd.sub} \in SUBSET SubId
        BY <3>3 DEF IInv, Typed, HandlerInv
      <4> QED
        BY <3>3, <4>1 DEF IInv, HandlerInv
    <3>4. CASE pc = "drop_index"
      <4>1. subscriptions \cup ids \in SUBSET SubId
        BY DEF IInv, Typed
      <4> QED
        BY <3>4, <4>1 DEF IInv, HandlerInv
    <3> QED
      BY <3>1, <3>2, <3>3, <3>4 DEF MidHandler
  <2>2. client_subscriptions \in ClientIndex
    BY <2>1, IndexOfEntries
  <2> QED
    BY <2>2 DEF IInv, Typed, TypeOK, MidHandler
<1> QED
  BY <1>1, Invariant, PTL

\* The index by client is right whenever no handler is half way, and the ids
\* copied under the read lock of line 298 do not go stale before line 307.
THEOREM RegistryCorrect == Spec => []RegistryConsistent
<1>1. IInv => RegistryConsistent
  BY DEF IInv, HandlerInv, RegistryConsistent, MidHandler
<1> QED
  BY <1>1, Invariant, PTL

\* No update of the subscriptions is lost on a stream that the server serves.
THEOREM ServerIsInSync == Spec => []ServerInSync
<1>1. IInv => ServerInSync
  BY DEF IInv, HoldsConnection, RequestInv, RequestedRegistry, ServerInSync
<1> QED
  BY <1>1, Invariant, PTL

\* One connection at a time, and its sink with it.
THEOREM ConnectionIsOne == Spec => []OneConnection
<1>1. IInv => OneConnection
  BY DEF IInv, HoldsConnection, OneConnection
<1> QED
  BY <1>1, Invariant, PTL

\* The manager is told of a dead stream.
THEOREM DeadStreamIsNoticed == Spec => []DeadStreamNoticed
<1>1. IInv => DeadStreamNoticed
  BY DEF IInv
<1> QED
  BY <1>1, Invariant, PTL

-----------------------------------------------------------------------------
(* ConnectionManager implements SubscriptionLedger.                        *)

\* The commands the ledger has not applied yet.
Pending == InHandler \o commands

\* The refined variables: Ledger!LedgerNext speaks of these.
LEMMA LedgerMapping ==
    Ledger!ledgerVars = <<Pending, subscriptions, Running>>
BY DEF Ledger!ledgerVars, Pending

\* Outside of the handler of RemoveClientSubscriptions the pending commands
\* are those in the channel.
LEMMA PendingIsChannel ==
    ASSUME commands \in Seq(Command), pc # "drop_subs"
    PROVE  Pending = commands
BY ConcatEmptySeq DEF Pending, InHandler

LEMMA PendingIsTyped ==
    ASSUME Typed, pc = "drop_subs" => cmd \in Command
    PROVE  InHandler \in Seq(Command)
BY DEF InHandler, Typed

\* Accepting a command, wherever the task stands.
LEMMA AcceptRefines ==
    ASSUME Typed, NEW command \in Command, SendCommand(command),
           pc = "drop_subs" => cmd \in Command,
           UNCHANGED <<pc, cmd, subscriptions>>
    PROVE  Ledger!LedgerNext
<1>1. InHandler' = InHandler
  BY DEF InHandler
<1>2. Pending' = Append(Pending, command)
  <2>1. commands \in Seq(Command) /\ commands' = Append(commands, command)
    BY DEF SendCommand, Typed
  <2>2. InHandler \in Seq(Command)
    BY PendingIsTyped
  <2> QED
    BY <1>1, <2>1, <2>2, SMT DEF Pending
<1>3. Running /\ Running' = Running
  BY DEF SendCommand, Running
<1>4. command \in Ledger!Command
  BY DEF Command, Ledger!Command
<1>5. Ledger!Accept(command)
  BY <1>2, <1>3 DEF Ledger!Accept, Pending
<1> QED
  BY <1>4, <1>5 DEF Ledger!LedgerNext

\* The end of the task closes the ledger.
LEMMA StopRefines ==
    ASSUME Running, NEW how \in {"exited", "panicked"}, TaskEnds(how),
           UNCHANGED subscriptions
    PROVE  Ledger!LedgerNext
<1>1. /\ commands' = <<>> /\ pc' \in {"exited", "panicked"}
  BY DEF TaskEnds
<1>2. Pending' = <<>> /\ ~Running'
  BY <1>1, SMT DEF Pending, InHandler, Running
<1>3. Running' = FALSE
  BY <1>2 DEF Running
<1>4. Ledger!Stop
  BY <1>2, <1>3 DEF Ledger!Stop, Pending
<1> QED
  BY <1>4 DEF Ledger!LedgerNext

\* The commands that take one step are applied when they leave the channel.
LEMMA ReceiveRefines ==
    ASSUME Typed, ReceiveAdd \/ ReceiveRemove
    PROVE  Ledger!LedgerNext
<1>1. /\ pc = "select" /\ pc' # "drop_subs"
      /\ commands # <<>> /\ commands' = Tail(commands)
      /\ commands \in Seq(Command)
      /\ Running /\ Running'
  BY DEF ReceiveAdd, ReceiveRemove, Receive, Running, Typed
<1>2. commands' \in Seq(Command)
  BY <1>1, HeadCommand
<1>3. Pending = commands
  BY <1>1, PendingIsChannel
<1>4. Pending' = commands'
  BY <1>1, <1>2, ConcatEmptySeq DEF Pending, InHandler
<1>5. subscriptions' = Ledger!Effect(Head(commands), subscriptions)
  <2>1. CASE ReceiveAdd
    BY <2>1 DEF ReceiveAdd, Receive, Ledger!Effect
  <2>2. CASE ReceiveRemove
    BY <2>2 DEF ReceiveRemove, Receive, Ledger!Effect
  <2> QED
    BY <2>1, <2>2
<1>6. Head(commands).op # "shutdown"
  BY DEF ReceiveAdd, ReceiveRemove, Receive
<1>7. Running' = Running
  BY <1>1 DEF Running
<1>8. Ledger!Apply
  BY <1>1, <1>3, <1>4, <1>5, <1>6, <1>7 DEF Ledger!Apply, Pending
<1> QED
  BY <1>8 DEF Ledger!LedgerNext

\* Taking a RemoveClientSubscriptions from the channel leaves it pending.
LEMMA ReceiveRemoveClientStutters ==
    ASSUME Typed, ReceiveRemoveClient
    PROVE  UNCHANGED <<Pending, subscriptions, Running>>
<1>1. /\ pc = "select" /\ pc' = "drop_subs"
      /\ commands # <<>> /\ commands' = Tail(commands)
      /\ cmd' = Head(commands)
      /\ commands \in Seq(Command)
      /\ subscriptions' = subscriptions
  BY DEF ReceiveRemoveClient, Receive, Typed, regVars
<1>2. Pending = commands
  BY <1>1, PendingIsChannel
<1>3. Pending' = <<Head(commands)>> \o Tail(commands)
  BY <1>1 DEF Pending, InHandler
<1>4. <<Head(commands)>> \o Tail(commands) = commands
  BY <1>1, SMT
<1>5. Running' = Running
  BY <1>1 DEF Running
<1> QED
  BY <1>1, <1>2, <1>3, <1>4, <1>5

\* The ids copied from the index are those the ledger removes.
LEMMA DropRefines ==
    ASSUME Typed, HandlerInv, DropSubscriptions
    PROVE  Ledger!LedgerNext
<1>1. /\ pc = "drop_subs" /\ pc' = "drop_index"
      /\ UNCHANGED <<commands, cmd, ids>>
      /\ subscriptions' = subscriptions \ ids
      /\ cmd.op = "remove_client"
      /\ ids = OwnedBy(subscriptions, cmd.client)
      /\ commands \in Seq(Command)
      /\ cmd \in Command \cup {NoCommand}
  BY DEF DropSubscriptions, HandlerInv, Typed, cmdVars
<1>2. cmd \in Command
  BY <1>1 DEF NoCommand
<1>3. Pending = <<cmd>> \o commands
  BY <1>1 DEF Pending, InHandler
<1>4. Pending' = commands
  BY <1>1, ConcatEmptySeq DEF Pending, InHandler
<1>5. Pending # <<>> /\ Head(Pending) = cmd /\ Tail(Pending) = commands
  BY <1>1, <1>2, <1>3, SMT
<1>6. subscriptions' = Ledger!Effect(cmd, subscriptions)
  BY <1>1 DEF Ledger!Effect, Ledger!OwnedBy, OwnedBy
<1>7. Running /\ Running' = Running
  BY <1>1 DEF Running
<1>8. Ledger!Apply
  BY <1>1, <1>4, <1>5, <1>6, <1>7 DEF Ledger!Apply, Pending
<1> QED
  BY <1>8 DEF Ledger!LedgerNext

\* Every other step of the task, a stream or the network is none of the ledger.
LEMMA OtherStutters ==
    ASSUME Typed,
           UNCHANGED <<commands, subscriptions, cmd>>,
           (pc # "drop_subs" /\ pc' # "drop_subs") \/ pc' = pc,
           Running' = Running
    PROVE  UNCHANGED <<Pending, subscriptions, Running>>
<1>1. InHandler' = InHandler
  BY DEF InHandler
<1> QED
  BY <1>1 DEF Pending

\* The rest of a handler does not show either.
LEMMA HandlerEndStutters ==
    ASSUME Typed, IndexAdded \/ UnindexRemoved \/ DropClient
    PROVE  UNCHANGED <<Pending, subscriptions, Running>>
<1>1. /\ pc # "drop_subs" /\ pc' # "drop_subs"
      /\ UNCHANGED <<commands, subscriptions>>
      /\ Running' = Running
  BY DEF IndexAdded, UnindexRemoved, DropClient, Running
<1>2. InHandler = <<>> /\ InHandler' = <<>>
  BY <1>1 DEF InHandler
<1> QED
  BY <1>1, <1>2 DEF Pending

LEMMA NextRefines ==
    ASSUME IInv, [Next]_vars
    PROVE  [Ledger!LedgerNext]_(Ledger!ledgerVars)
<1> USE DEF apiVars, regVars, cmdVars, connVars, netVars
<1>1. Typed /\ HandlerInv
  BY DEF IInv
<1>2. pc = "drop_subs" => cmd \in Command
  BY <1>1 DEF HandlerInv, Typed, NoCommand
<1>3. SUFFICES Ledger!LedgerNext \/ UNCHANGED <<Pending, subscriptions, Running>>
  BY LedgerMapping DEF Ledger!ledgerVars, Pending
<1>4. CASE API
  <2>1. \A s \in SubId : /\ [op |-> "add", sub |-> s] \in Command
                         /\ [op |-> "remove", sub |-> s] \in Command
    BY DEF Command
  <2>2. \A c \in Client : [op |-> "remove_client", client |-> c] \in Command
    BY DEF Command
  <2>3. [op |-> "shutdown"] \in Command
    BY DEF Command
  <2>4. UNCHANGED <<pc, cmd, subscriptions>> /\ Running' = Running
    BY <1>4, Zenon DEF API, AddSubscription, AddSubscriptionFails,
       RemoveSubscription, RemoveClientSubscriptions, CallShutdown,
       SendShutdown, BroadcastShutdown, Running
  <2>5. \/ UNCHANGED commands
        \/ \E command \in Command : SendCommand(command)
    BY <1>4, <2>1, <2>2, <2>3, Zenon DEF API, AddSubscription,
       AddSubscriptionFails, RemoveSubscription, RemoveClientSubscriptions,
       CallShutdown, SendShutdown, BroadcastShutdown
  <2>6. CASE UNCHANGED commands
    BY <1>1, <2>4, <2>6, OtherStutters
  <2>7. ASSUME NEW command \in Command, SendCommand(command)
        PROVE  Ledger!LedgerNext
    BY <1>1, <1>2, <2>4, <2>7, AcceptRefines
  <2> QED
    BY <2>5, <2>6, <2>7
<1>5. CASE ConnectSucceeds
  BY <1>1, <1>5, OtherStutters DEF ConnectSucceeds, Running
<1>6. CASE ConnectFails
  BY <1>1, <1>6, OtherStutters DEF ConnectFails, Running
<1>7. CASE ConnectPanics
  BY <1>1, <1>7, StopRefines DEF ConnectPanics, Running
<1>8. CASE ReceiveShutdown \/ ReceiveSignal
  BY <1>1, <1>8, StopRefines DEF ReceiveShutdown, ReceiveSignal, Running
<1>9. CASE ReceiveAdd \/ ReceiveRemove
  BY <1>1, <1>9, ReceiveRefines
<1>10. CASE ReceiveRemoveClient
  BY <1>1, <1>10, ReceiveRemoveClientStutters
<1>11. CASE DropSubscriptions
  BY <1>1, <1>11, DropRefines
<1>12. CASE IndexAdded \/ UnindexRemoved \/ DropClient
  BY <1>1, <1>12, HandlerEndStutters
<1>13. CASE Push
  BY <1>1, <1>13, OtherStutters
  DEF Push, PushSucceeds, PushFails, NothingToPush, LoopHead, Running
<1>14. CASE HandleEvent
  BY <1>1, <1>14, OtherStutters DEF HandleEvent, ConnectionLost, PongSucceeds,
     PongFails, ReceiveEvent, LoopHead, Running
<1>15. ASSUME NEW c \in Conn, StreamTask(c) \/ LinkFails(c) \/ ServerCloses(c)
       PROVE  UNCHANGED <<Pending, subscriptions, Running>>
  <2>1. UNCHANGED <<commands, subscriptions, cmd, pc>>
    BY <1>15, Zenon DEF StreamTask, StreamPing, StreamError, StreamClosed,
       StreamVarsSame, LinkFails, ServerCloses, NetVarsSame
  <2> QED
    BY <1>1, <2>1, OtherStutters DEF Running
<1>16. CASE UNCHANGED vars
  BY <1>1, <1>16, OtherStutters DEF vars, Running
<1> QED
  BY <1>4, <1>5, <1>6, <1>7, <1>8, <1>9, <1>10, <1>11, <1>12, <1>13, <1>14,
     <1>15, <1>16, Zenon
  DEF Next, HandleCommand, Terminated

\* The manager applies the accepted commands one at a time, in order, each to
\* the whole registry, although RemoveClientSubscriptions works on a copy of
\* the ids under three locks.
THEOREM ManagerImplementsLedger == Spec => ImplementsLedger
<1>1. Init => Ledger!LedgerInit
  BY ConcatEmptySeq, EmptySeq DEF Init, Ledger!LedgerInit, InHandler, Running
<1>2. IInv /\ [Next]_vars => [Ledger!LedgerNext]_(Ledger!ledgerVars)
  BY NextRefines
<1> QED
  BY <1>1, <1>2, Invariant, PTL DEF Spec, ImplementsLedger, Ledger!LedgerSpec
====
