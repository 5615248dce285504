-------------------------- MODULE ConnectionManager --------------------------
(***************************************************************************)
(* The connection manager of src/connection/manager.rs: the API, the       *)
(* manager task started by spawn_manager_task, the tasks that read the     *)
(* subscribe streams, and as much of the server and the network as they    *)
(* can notice.                                                             *)
(*                                                                         *)
(* The manager task gives up the processor at each await.  The actions are *)
(* cut there: a step of the task is what it does between two awaits at     *)
(* which another task could see or change what it works on.  pc names the  *)
(* await the task stands at:                                               *)
(*                                                                         *)
(*   "connect"     in lines 174-238, connecting or sleeping before a retry *)
(*   "select"      in the select! of line 241                              *)
(*   "index", "unindex", "drop_subs", "drop_index"                         *)
(*                 inside the handler of cmd, before the next lock         *)
(*   "push"        after the handler, at line 331                          *)
(*   "exited"      past the loop; "panicked": unwound from line 227        *)
(***************************************************************************)
EXTENDS Integers, Sequences, FiniteSets, Subscriptions, Backoff

CONSTANTS Conn,         \* identities of subscribe streams
          NoConn,       \* None in client and subscribe_tx
          CommandCap,   \* capacity of the command channel (100 in the code)
          EventCap,     \* capacity of the stream event channel (100)
          MaxFaults     \* bound: how many streams the network breaks

ASSUME ManagerAssumption ==
    /\ NoConn \notin Conn
    /\ CommandCap \in Nat \ {0}
    /\ EventCap \in Nat \ {0}
    /\ MaxFaults \in Nat

VARIABLES
    created,        \* subscriptions built and not yet given to the manager
    caller,         \* how far the one call of shutdown() has come
    commands,       \* the command channel
    events,         \* the stream event channel
    signal,         \* a shutdown broadcast not yet received by the task
    subscriptions, client_subscriptions,
    pc,             \* where the manager task stands
    cmd,            \* the command it is handling
    ids,            \* sub_ids_to_remove of that command
    client,         \* the connection it holds
    subscribe_tx,   \* the connection whose request sink it holds
    needs_update,
    failures,       \* consecutive_failures
    proc,           \* per connection: the task reading its stream
    link,           \* per connection: "up" while the server serves the stream,
                    \* "ended" or "broken" once it has not
    request,        \* per connection: the request the server works from
    faults          \* streams broken by the network so far

apiVars  == <<created, caller>>
regVars  == <<subscriptions, client_subscriptions>>
cmdVars  == <<cmd, ids>>
connVars == <<client, subscribe_tx>>
netVars  == <<proc, link, request, faults>>

vars == <<apiVars, commands, events, signal, regVars, pc, cmdVars, connVars,
          needs_update, failures, netVars>>

Command ==
    [op : {"add", "remove"}, sub : SubId]
        \cup [op : {"remove_client"}, client : Client]
        \cup [op : {"shutdown"}]

NoCommand == [op |-> "none"]

\* The task runs: the receivers of its channels exist.
Running == pc \notin {"exited", "panicked"}

-----------------------------------------------------------------------------
Init ==
    /\ created = SubId
    /\ caller = "idle"
    /\ commands = <<>>
    /\ events = <<>>
    /\ signal = FALSE
    /\ subscriptions = {}
    /\ client_subscriptions = IndexOf({})
    /\ pc = "connect"
    /\ cmd = NoCommand
    /\ ids = {}
    /\ client = NoConn
    /\ subscribe_tx = NoConn
    /\ needs_update = TRUE
    /\ failures = 0
    /\ proc = [c \in Conn |-> "none"]
    /\ link = [c \in Conn |-> "ended"]
    /\ request = [c \in Conn |-> {}]
    /\ faults = 0

-----------------------------------------------------------------------------
(* The API.  A send waits while the channel is full and fails once the     *)
(* receiver is gone.                                                       *)

\* Mutant: the command channel has no capacity.
SendCommandUnbounded(command) ==
    /\ Running
    /\ commands' = Append(commands, command)

SendCommand(command) ==
    /\ Running
    /\ Len(commands) < CommandCap
    /\ commands' = Append(commands, command)

\* The subscription moves into the call, so each one is added at most once.
AddSubscription(s) ==
    /\ s \in created
    /\ SendCommand([op |-> "add", sub |-> s])
    /\ created' = created \ {s}
    /\ UNCHANGED <<caller, events, signal, regVars, pc, cmdVars, connVars,
                   needs_update, failures, netVars>>

\* The call fails and drops the subscription.
AddSubscriptionFails(s) ==
    /\ ~Running
    /\ s \in created
    /\ created' = created \ {s}
    /\ UNCHANGED <<caller, commands, events, signal, regVars, pc, cmdVars,
                   connVars, needs_update, failures, netVars>>

RemoveSubscription(s) ==
    /\ SendCommand([op |-> "remove", sub |-> s])
    /\ UNCHANGED <<apiVars, events, signal, regVars, pc, cmdVars, connVars,
                   needs_update, failures, netVars>>

RemoveClientSubscriptions(c) ==
    /\ SendCommand([op |-> "remove_client", client |-> c])
    /\ UNCHANGED <<apiVars, events, signal, regVars, pc, cmdVars, connVars,
                   needs_update, failures, netVars>>

\* shutdown() sends a command, waiting for room like any other, and only
\* then broadcasts.  A failed send is logged and the broadcast still made.
CallShutdown ==
    /\ caller = "idle"
    /\ caller' = "sending"
    /\ UNCHANGED <<created, commands, events, signal, regVars, pc, cmdVars,
                   connVars, needs_update, failures, netVars>>

\* Mutant: the error of the send is not noticed and the call waits for ever.
SendShutdownWaits ==
    /\ caller = "sending"
    /\ SendCommand([op |-> "shutdown"])
    /\ caller' = "signalling"
    /\ UNCHANGED <<created, events, signal, regVars, pc, cmdVars, connVars,
                   needs_update, failures, netVars>>

SendShutdown ==
    /\ caller = "sending"
    /\ \/ SendCommand([op |-> "shutdown"])
       \/ ~Running /\ UNCHANGED commands
    /\ caller' = "signalling"
    /\ UNCHANGED <<created, events, signal, regVars, pc, cmdVars, connVars,
                   needs_update, failures, netVars>>

BroadcastShutdown ==
    /\ caller = "signalling"
    /\ caller' = "returned"
    /\ signal' = Running
    /\ UNCHANGED <<created, commands, events, regVars, pc, cmdVars, connVars,
                   needs_update, failures, netVars>>

-----------------------------------------------------------------------------
(* The manager task.                                                       *)

\* Mutant: the loop connects for an update only.
LoopHeadForUpdate(update, conn) == IF update THEN "connect" ELSE "select"

\* The head of the loop, line 174.
LoopHead(update, conn) ==
    IF update \/ conn = NoConn THEN "connect" ELSE "select"

\* The task ends: it drops the receivers with what they hold, the client and
\* the sink.  The registries live on in the manager and the stream tasks.
TaskEnds(how) ==
    /\ pc' = how
    /\ commands' = <<>>
    /\ events' = <<>>
    /\ signal' = FALSE
    /\ client' = NoConn
    /\ subscribe_tx' = NoConn
    /\ cmd' = NoCommand
    /\ ids' = {}

\* The connections that no task reads and the manager does not hold.  Any of
\* them can stand for the one that is opened next.
Unused == { c \in Conn : proc[c] = "none" /\ c # client }

NextConn == CHOOSE c \in Unused : TRUE

\* connect_and_subscribe succeeds.  The request is built from the registry
\* after the transport is up, and a task starts to read the new stream.
ConnectSucceeds ==
    /\ pc = "connect"
    /\ Unused # {}
    /\ \E req \in BuildSubscribeRequest(subscriptions) :
           request' = [request EXCEPT ![NextConn] = req]
    /\ proc' = [proc EXCEPT ![NextConn] = "reading"]
    /\ link' = [link EXCEPT ![NextConn] = "up"]
    /\ client' = NextConn
    /\ subscribe_tx' = NextConn
    /\ needs_update' = FALSE
    /\ failures' = 0
    /\ pc' = "select"
    /\ UNCHANGED <<apiVars, commands, events, signal, regVars, cmdVars, faults>>

\* It fails: the task sleeps (RetryLoop has the times) and tries again.
ConnectFails ==
    /\ pc = "connect"
    /\ failures' = failures + 1
    /\ ~BackoffPanics(failures')
    /\ UNCHANGED <<apiVars, commands, events, signal, regVars, pc, cmdVars,
                   connVars, needs_update, netVars>>

\* It fails once too often: the backoff overflows and the task unwinds.
ConnectPanics ==
    /\ pc = "connect"
    /\ failures' = failures + 1
    /\ BackoffPanics(failures')
    /\ TaskEnds("panicked")
    /\ UNCHANGED <<apiVars, regVars, needs_update, netVars>>

\* The first branch of select!: the next command leaves the channel.
Receive(op) ==
    /\ pc = "select"
    /\ commands # <<>>
    /\ Head(commands).op = op
    /\ commands' = Tail(commands)

\* AddSubscription: into the registry under its lock, then into the index
\* under the other one.
ReceiveAdd ==
    /\ Receive("add")
    /\ subscriptions' = subscriptions \cup {Head(commands).sub}
    /\ cmd' = Head(commands)
    /\ pc' = "index"
    /\ UNCHANGED <<apiVars, events, signal, client_subscriptions, ids, connVars,
                   needs_update, failures, netVars>>

\* Mutant: the update is not asked for.
IndexAddedSilently ==
    /\ pc = "index"
    /\ client_subscriptions' =
           IndexInsert(client_subscriptions, ClientOf[cmd.sub], cmd.sub)
    /\ cmd' = NoCommand
    /\ pc' = "push"
    /\ UNCHANGED <<apiVars, commands, events, signal, subscriptions, ids,
                   connVars, needs_update, failures, netVars>>

IndexAdded ==
    /\ pc = "index"
    /\ client_subscriptions' =
           IndexInsert(client_subscriptions, ClientOf[cmd.sub], cmd.sub)
    /\ needs_update' = TRUE
    /\ cmd' = NoCommand
    /\ pc' = "push"
    /\ UNCHANGED <<apiVars, commands, events, signal, subscriptions, ids,
                   connVars, failures, netVars>>

\* RemoveSubscription of an id that is not registered changes nothing, but
\* asks for an update all the same.
ReceiveRemove ==
    /\ Receive("remove")
    /\ subscriptions' = subscriptions \ {Head(commands).sub}
    /\ IF Head(commands).sub \in subscriptions
       THEN /\ cmd' = Head(commands)
            /\ pc' = "unindex"
            /\ UNCHANGED needs_update
       ELSE /\ pc' = "push"
            /\ needs_update' = TRUE
            /\ UNCHANGED cmd
    /\ UNCHANGED <<apiVars, events, signal, client_subscriptions, ids, connVars,
                   failures, netVars>>

UnindexRemoved ==
    /\ pc = "unindex"
    /\ client_subscriptions' =
           IndexRemove(client_subscriptions, ClientOf[cmd.sub], cmd.sub)
    /\ needs_update' = TRUE
    /\ cmd' = NoCommand
    /\ pc' = "push"
    /\ UNCHANGED <<apiVars, commands, events, signal, subscriptions, ids,
                   connVars, failures, netVars>>

\* RemoveClientSubscriptions: the ids are copied from the index under a read
\* lock, which is released before either map is written.
ReceiveRemoveClient ==
    /\ Receive("remove_client")
    /\ cmd' = Head(commands)
    /\ ids' = IndexLookup(client_subscriptions, Head(commands).client)
    /\ pc' = "drop_subs"
    /\ UNCHANGED <<apiVars, events, signal, regVars, connVars, needs_update,
                   failures, netVars>>

\* Mutant: only the index forgets the subscriptions.
DropSubscriptionsForgotten ==
    /\ pc = "drop_subs"
    /\ pc' = "drop_index"
    /\ UNCHANGED <<apiVars, commands, events, signal, regVars, cmdVars,
                   connVars, needs_update, failures, netVars>>

DropSubscriptions ==
    /\ pc = "drop_subs"
    /\ subscriptions' = subscriptions \ ids
    /\ pc' = "drop_index"
    /\ UNCHANGED <<apiVars, commands, events, signal, client_subscriptions,
                   cmdVars, connVars, needs_update, failures, netVars>>

DropClient ==
    /\ pc = "drop_index"
    /\ client_subscriptions' = IndexDrop(client_subscriptions, cmd.client)
    /\ needs_update' = (needs_update \/ ids # {})
    /\ cmd' = NoCommand
    /\ ids' = {}
    /\ pc' = "push"
    /\ UNCHANGED <<apiVars, commands, events, signal, subscriptions, connVars,
                   failures, netVars>>

ReceiveShutdown ==
    /\ pc = "select"
    /\ commands # <<>>
    /\ Head(commands).op = "shutdown"
    /\ TaskEnds("exited")
    /\ UNCHANGED <<apiVars, regVars, needs_update, failures, netVars>>

\* After a command, lines 331-348: a pending update goes out on the stream.
MustPush == needs_update /\ subscribe_tx # NoConn

\* Mutant: every update is made by a new connection.
PushReconnects ==
    /\ pc = "push"
    /\ MustPush
    /\ client' = NoConn
    /\ subscribe_tx' = NoConn
    /\ pc' = LoopHead(needs_update, NoConn)
    /\ UNCHANGED <<apiVars, commands, events, signal, regVars, cmdVars,
                   needs_update, failures, netVars>>

\* The sink takes the request.  A broken stream may not show yet, and then
\* the request is lost.
PushSucceeds ==
    /\ pc = "push"
    /\ MustPush
    /\ IF link[subscribe_tx] = "up"
       THEN \E req \in BuildSubscribeRequest(subscriptions) :
                request' = [request EXCEPT ![subscribe_tx] = req]
       ELSE UNCHANGED request
    /\ needs_update' = FALSE
    /\ pc' = LoopHead(FALSE, client)
    /\ UNCHANGED <<apiVars, commands, events, signal, regVars, cmdVars,
                   connVars, failures, proc, link, faults>>

\* The sink is closed: the task lets go of the connection.
PushFails ==
    /\ pc = "push"
    /\ MustPush
    /\ link[subscribe_tx] # "up"
    /\ client' = NoConn
    /\ subscribe_tx' = NoConn
    /\ pc' = LoopHead(needs_update, NoConn)
    /\ UNCHANGED <<apiVars, commands, events, signal, regVars, cmdVars,
                   needs_update, failures, netVars>>

NothingToPush ==
    /\ pc = "push"
    /\ ~MustPush
    /\ pc' = LoopHead(needs_update, client)
    /\ UNCHANGED <<apiVars, commands, events, signal, regVars, cmdVars,
                   connVars, needs_update, failures, netVars>>

\* The second branch of select!: the next stream event.  Events do not say
\* which stream they come from.
ReceiveEvent(kinds) ==
    /\ pc = "select"
    /\ events # <<>>
    /\ Head(events) \in kinds
    /\ events' = Tail(events)

\* ConnectionClosed and ConnectionError: let go of the connection.
ConnectionLost ==
    /\ ReceiveEvent({"closed", "error"})
    /\ client' = NoConn
    /\ subscribe_tx' = NoConn
    /\ pc' = LoopHead(needs_update, NoConn)
    /\ UNCHANGED <<apiVars, commands, signal, regVars, cmdVars, needs_update,
                   failures, netVars>>

\* PingReceived: answer on the sink; the pong carries no filters and the
\* server leaves the request as it is.
PongSucceeds ==
    /\ ReceiveEvent({"ping"})
    /\ UNCHANGED <<apiVars, commands, signal, regVars, pc, cmdVars, connVars,
                   needs_update, failures, netVars>>

PongFails ==
    /\ ReceiveEvent({"ping"})
    /\ subscribe_tx # NoConn
    /\ link[subscribe_tx] # "up"
    /\ client' = NoConn
    /\ subscribe_tx' = NoConn
    /\ pc' = LoopHead(needs_update, NoConn)
    /\ UNCHANGED <<apiVars, commands, signal, regVars, cmdVars, needs_update,
                   failures, netVars>>

\* The third branch of select!: the broadcast.
ReceiveSignal ==
    /\ pc = "select"
    /\ signal
    /\ TaskEnds("exited")
    /\ UNCHANGED <<apiVars, regVars, needs_update, failures, netVars>>

-----------------------------------------------------------------------------
(* The tasks started by spawn_stream_processor.  Updates are dispatched    *)
(* under the read lock of the registry and change nothing here.  A send to *)
(* the manager waits for room, and fails once the manager task is gone.    *)

\* Mutant: try_send, which drops the event when the channel is full.
SendEventOrDrop(event) ==
    events' = IF Running /\ Len(events) < EventCap
              THEN Append(events, event) ELSE events

\* Mutant: the receiver outlives the manager task.
SendEventToOrphan(event) ==
    Len(events) < EventCap /\ events' = Append(events, event)

SendEvent(event) ==
    IF Running
    THEN Len(events) < EventCap /\ events' = Append(events, event)
    ELSE UNCHANGED events

StreamVarsSame ==
    UNCHANGED <<apiVars, commands, signal, regVars, pc, cmdVars, connVars,
                needs_update, failures, link, request, faults>>

StreamPing(c) ==
    /\ Running
    /\ proc[c] = "reading"
    /\ SendEvent("ping")
    /\ UNCHANGED proc
    /\ StreamVarsSame

\* The stream yields an error: report it and leave the loop.
StreamError(c) ==
    /\ proc[c] = "reading"
    /\ link[c] = "broken"
    /\ SendEvent("error")
    /\ proc' = [proc EXCEPT ![c] = "closing"]
    /\ StreamVarsSame

\* Mutant: an empty update ends the loop.
StreamClosedEarly(c) ==
    /\ proc[c] \in {"closing", "reading"}
    /\ SendEvent("closed")
    /\ proc' = [proc EXCEPT ![c] = "none"]
    /\ StreamVarsSame

\* Past the loop, after an error as after a plain end of the stream.
StreamClosed(c) ==
    /\ proc[c] = "closing" \/ (proc[c] = "reading" /\ link[c] = "ended")
    /\ SendEvent("closed")
    /\ proc' = [proc EXCEPT ![c] = "none"]
    /\ StreamVarsSame

-----------------------------------------------------------------------------
(* The server and the network, seen from the streams.  None of this is in  *)
(* the repository; it is what the code above must be ready for.            *)

NetVarsSame ==
    UNCHANGED <<apiVars, commands, events, signal, regVars, pc, cmdVars,
                connVars, needs_update, failures, proc, request>>

\* A failure ends a stream: with an error, or as a restarting server does.
LinkFails(c) ==
    /\ link[c] = "up"
    /\ faults < MaxFaults
    /\ \E how \in {"ended", "broken"} : link' = [link EXCEPT ![c] = how]
    /\ faults' = faults + 1
    /\ NetVarsSame

\* The server ends a stream whose request side the manager has dropped.
ServerCloses(c) ==
    /\ link[c] = "up"
    /\ subscribe_tx # c
    /\ link' = [link EXCEPT ![c] = "ended"]
    /\ UNCHANGED faults
    /\ NetVarsSame

-----------------------------------------------------------------------------
\* Nothing is left to do once the task has ended and every call returned.
Terminated ==
    /\ ~Running
    /\ created = {}
    /\ caller \in {"idle", "returned"}
    /\ \A c \in Conn : proc[c] = "none"
    /\ UNCHANGED vars

API ==
    \/ \E s \in SubId : \/ AddSubscription(s)
                        \/ AddSubscriptionFails(s)
                        \/ RemoveSubscription(s)
    \/ \E c \in Client : RemoveClientSubscriptions(c)
    \/ CallShutdown
    \/ SendShutdown
    \/ BroadcastShutdown

HandleCommand ==
    \/ ReceiveAdd \/ IndexAdded
    \/ ReceiveRemove \/ UnindexRemoved
    \/ ReceiveRemoveClient \/ DropSubscriptions \/ DropClient
    \/ ReceiveShutdown

Push == PushSucceeds \/ PushFails \/ NothingToPush

HandleEvent == ConnectionLost \/ PongSucceeds \/ PongFails

StreamTask(c) == StreamPing(c) \/ StreamError(c) \/ StreamClosed(c)

Next ==
    \/ API
    \/ ConnectSucceeds
    \/ ConnectFails
    \/ ConnectPanics
    \/ HandleCommand
    \/ Push
    \/ HandleEvent
    \/ ReceiveSignal
    \/ \E c \in Conn : StreamTask(c) \/ LinkFails(c) \/ ServerCloses(c)
    \/ Terminated

Spec == Init /\ [][Next]_vars

-----------------------------------------------------------------------------
(* Fairness.                                                               *)

\* What tokio gives: tasks that can run do run, select! picks among its ready
\* branches at random, and senders waiting for room are served in order.  The
\* branch of the broadcast would be fair too; nothing below needs it.
SchedulerFairness ==
    /\ SF_vars(SendShutdown)
    /\ WF_vars(BroadcastShutdown)
    /\ WF_vars(ConnectSucceeds \/ ConnectFails \/ ConnectPanics)
    /\ SF_vars(HandleCommand)
    /\ WF_vars(Push)
    /\ SF_vars(HandleEvent)
    /\ \A c \in Conn : SF_vars(StreamError(c) \/ StreamClosed(c))

\* What the server gives: it ends a stream that nobody requests any more.
ServerFairness == \A c \in Conn : WF_vars(ServerCloses(c))

\* The server does not stay out of reach for ever.
ServerReachable == WF_vars(ConnectSucceeds)

FairSpec == Spec /\ SchedulerFairness /\ ServerFairness

LiveSpec == FairSpec /\ ServerReachable

-----------------------------------------------------------------------------
(* Invariants.                                                             *)

\* Every variable keeps its type, and both channels stay within capacity.
TypeOK ==
    /\ created \in SUBSET SubId
    /\ caller \in {"idle", "sending", "signalling", "returned"}
    /\ commands \in Seq(Command) /\ Len(commands) <= CommandCap
    /\ events \in Seq({"ping", "error", "closed"}) /\ Len(events) <= EventCap
    /\ signal \in BOOLEAN
    /\ subscriptions \in SUBSET SubId
    /\ client_subscriptions \in ClientIndex
    /\ pc \in {"connect", "select", "index", "unindex", "drop_subs",
               "drop_index", "push", "exited", "panicked"}
    /\ cmd \in Command \cup {NoCommand}
    /\ ids \in SUBSET SubId
    /\ client \in Conn \cup {NoConn}
    /\ subscribe_tx \in Conn \cup {NoConn}
    /\ needs_update \in BOOLEAN
    /\ failures \in Nat
    /\ proc \in [Conn -> {"none", "reading", "closing"}]
    /\ link \in [Conn -> {"up", "ended", "broken"}]
    /\ request \in [Conn -> SUBSET SubId]
    /\ faults \in Nat

\* The index by client agrees with the registry whenever no handler is half
\* way through the two maps, and the ids copied under the read lock are still
\* the client's subscriptions when they are removed.
RegistryConsistent ==
    /\ pc \in {"connect", "select", "push", "exited", "panicked"} =>
           client_subscriptions = IndexOf(subscriptions)
    /\ pc = "drop_subs" => ids = OwnedBy(subscriptions, cmd.client)

\* No lost update: whenever the task waits for work on a stream the server
\* still serves, the server works from a request built from exactly the
\* registered subscriptions.
ServerInSync ==
    pc = "select" /\ link[client] = "up" =>
        request[client] \in BuildSubscribeRequest(subscriptions)

\* A connection is set up only when none is held, and the client and the sink
\* are of one connection: a change of the subscriptions never costs a stream
\* that works, and no handler finds a connection without its sink.
OneConnection ==
    /\ client = subscribe_tx
    /\ pc = "connect" => client = NoConn
    /\ pc = "select" => client # NoConn /\ ~needs_update

Queued(event) == \E i \in 1..Len(events) : events[i] = event

\* The task cannot sit on a dead connection unaware: while it holds one whose
\* stream task has ended, or has failed, the event that says so is waiting.
DeadStreamNoticed ==
    client # NoConn =>
        /\ proc[client] = "none" => Queued("closed")
        /\ proc[client] = "closing" => Queued("error")

\* Streams that were let go but are still being read do not pile up: each
\* failure of a link leaves at most two of them at any time, the two events of
\* its stream costing a healthy connection each.  When the task ends the
\* stream it held comes on top of them.
AbandonedStreamsBounded ==
    Running =>
        Cardinality({c \in Conn : c # client /\ proc[c] # "none"}) <= 2 * faults

\* A connection is never given up for nothing: as long as no link has failed it
\* is kept, whatever is added, removed or pinged, until the task ends.
KeptWithoutFailure ==
    [][faults = 0 /\ client # NoConn /\ Running' => client' = client]_vars

-----------------------------------------------------------------------------
(* The abstract specification.  A command is pending until the registry    *)
(* reflects it, RemoveClientSubscriptions therefore one step longer than   *)
(* it is in the channel.                                                   *)

InHandler == IF pc = "drop_subs" THEN <<cmd>> ELSE <<>>

Ledger ==
    INSTANCE SubscriptionLedger
        WITH pending <- InHandler \o commands,
             active <- subscriptions,
             open <- Running

\* The manager applies the accepted commands atomically and in order.
ImplementsLedger == Ledger!LedgerSpec

-----------------------------------------------------------------------------
(* Liveness.                                                               *)

\* A call of shutdown() returns, and the manager task ends.
ShutdownCompletes ==
    caller = "sending" ~> (caller = "returned" /\ ~Running)

\* The slot of s in the request is filled, on a stream the server serves.
RequestedFromServer(s) ==
    /\ client # NoConn
    /\ link[client] = "up"
    /\ \E r \in request[client] : FilterSlot(r) = FilterSlot(s)

\* The manager was asked for s and has not been asked to give it up: its
\* command is in the channel or its entry in the registry.
Wanted(s) ==
    \/ s \in subscriptions
    \/ \E i \in 1..Len(commands) : commands[i] = [op |-> "add", sub |-> s]

\* The server learns of every subscription that add_subscription accepted,
\* unless it is removed first or the task ends.
AddedReachesServer ==
    \A s \in SubId :
        Wanted(s) ~> (RequestedFromServer(s) \/ ~Wanted(s) \/ ~Running)

\* A connection whose stream has ended is let go.
DeadStreamReplaced ==
    \A c \in Conn : (client = c /\ link[c] # "up") ~> (client # c)

\* When the manager task has ended every stream task ends too, also one that
\* was waiting for room in the event channel.
StreamTasksEnd ==
    ~Running ~> (\A c \in Conn : proc[c] = "none")

-----------------------------------------------------------------------------
(* What the documentation says and the code does not do.  Each of these is *)
(* refuted by a run.                                                       *)

\* "Connection closed, will reconnect": the manager lets a connection go for
\* an event of its stream only when the server has stopped serving it.
OnlyDeadConnectionsDropped == [][ConnectionLost => link[client] # "up"]_vars

\* "Build a Yellowstone subscribe request from our active subscriptions": the
\* request the server works from carries the filter of each of them.
EverySubscriptionRequested ==
    pc = "select" /\ link[client] = "up" =>
        subscriptions \subseteq request[client]

\* "Shut down the connection manager": after a call of shutdown() the task
\* leaves its loop, whatever the server does.
ShutdownServed == caller = "sending" ~> pc = "exited"
==============================================================================
