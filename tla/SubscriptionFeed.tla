-------------------------- MODULE SubscriptionFeed ---------------------------
(***************************************************************************)
(* ConnectionManager as those see it who read the updates of one           *)
(* subscription, Sub, from its streams.  Sub is any subscription, but for  *)
(* those that share their slot in the request with another: whether the    *)
(* request carries these is anyone's guess (EverySubscriptionRequested of  *)
(* ConnectionManager).                                                     *)
(***************************************************************************)
EXTENDS ConnectionManager

CONSTANT Sub

ASSUME SubAssumption ==
    /\ Sub \in SubId
    /\ \A s \in SubId : FilterSlot(s) = FilterSlot(Sub) => s = Sub

\* The command that adds Sub.
AddSub == [op |-> "add", sub |-> Sub]

AddQueued == \E i \in 1..Len(commands) : commands[i] = AddSub

\* How far Sub has come.
Life ==
    IF Sub \in created THEN "none"
    ELSE IF Sub \in subscriptions THEN "registered"
    ELSE IF AddQueued THEN "queued"
    ELSE "gone"

Reading == { c \in Conn : proc[c] # "none" }

Serving == { c \in Conn : link[c] = "up" }

\* The streams whose updates of Sub a task can see.
Requested == { c \in Reading : Sub \in request[c] }

Streams ==
    INSTANCE StreamLife
        WITH current <- client,
             reading <- Reading,
             serving <- Serving,
             subscription <- Life,
             requested <- Requested

\* A stream is opened only while none is held, and its task ends only after
\* the server has stopped serving it.  Sub is in the registry before a stream
\* asks for its updates, a request carries Sub if and only if Sub is registered
\* when the request goes out, and once removed Sub never comes back, whatever
\* commands, removals, reconnects and shutdown do in between.
ImplementsStreamLife == Streams!StreamSpec
==============================================================================
