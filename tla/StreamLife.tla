----------------------------- MODULE StreamLife ------------------------------
(***************************************************************************)
(* The life of the subscribe streams and of one subscription, without      *)
(* commands, registries, events or retries: what ConnectionManager         *)
(* promises to whatever reads updates from the streams, and what           *)
(* EventPipeline is built on.                                              *)
(*                                                                         *)
(* A stream is opened only while none is held.  Letting go of it ends      *)
(* neither the task that reads it nor, at once, the serving: a stream that *)
(* was let go goes on carrying updates beside the one that replaced it.    *)
(* Its task ends only once the server serves it no more.                   *)
(*                                                                         *)
(* The subscription is any single one whose slot in the request is its     *)
(* own.  It is registered before a stream asks for its updates, and once   *)
(* it is gone it never comes back.                                         *)
(***************************************************************************)
CONSTANTS Conn,      \* identities of subscribe streams
          NoConn

VARIABLES current,       \* the stream the connection manager holds
          reading,       \* the streams that have a task
          serving,       \* the streams the server serves
          subscription,  \* "none", "queued" with the manager, "registered"
                         \* where dispatch_event finds it, "gone"
          requested      \* the streams whose request carries its filter

streamVars == <<current, reading, serving>>

feedVars == <<streamVars, subscription, requested>>

StreamInit ==
    /\ current = NoConn
    /\ reading = {}
    /\ serving = {}
    /\ subscription = "none"
    /\ requested = {}

-----------------------------------------------------------------------------
(* The streams.                                                            *)

\* A request is built from the registry as it is.
Requesting(c) ==
    requested' = IF subscription = "registered" THEN requested \cup {c}
                 ELSE requested \ {c}

Open(c) ==
    /\ current = NoConn
    /\ c \notin reading
    /\ current' = c
    /\ reading' = reading \cup {c}
    /\ serving' = serving \cup {c}
    /\ Requesting(c)
    /\ UNCHANGED subscription

\* A new request goes out on the stream that is held.
Ask ==
    /\ current \in serving
    /\ Requesting(current)
    /\ UNCHANGED <<streamVars, subscription>>

LetGo ==
    /\ current # NoConn
    /\ current' = NoConn
    /\ UNCHANGED <<reading, serving, subscription, requested>>

StopServing(c) ==
    /\ c \in serving
    /\ serving' = serving \ {c}
    /\ UNCHANGED <<current, reading, subscription, requested>>

EndTask(c) ==
    /\ c \in reading \ serving
    /\ reading' = reading \ {c}
    /\ requested' = requested \ {c}
    /\ UNCHANGED <<current, serving, subscription>>

-----------------------------------------------------------------------------
(* The subscription.                                                       *)

Accept ==
    /\ subscription = "none"
    /\ subscription' = "queued"
    /\ UNCHANGED <<streamVars, requested>>

Register ==
    /\ subscription = "queued"
    /\ subscription' = "registered"
    /\ UNCHANGED <<streamVars, requested>>

\* It is removed, or was not accepted.
Forget ==
    /\ subscription \in {"none", "registered"}
    /\ subscription' = "gone"
    /\ UNCHANGED <<streamVars, requested>>

\* The manager task ends, and what is queued with it is lost.
ManagerEnds ==
    /\ current' = NoConn
    /\ subscription' = IF subscription = "queued" THEN "gone" ELSE subscription
    /\ UNCHANGED <<reading, serving, requested>>

-----------------------------------------------------------------------------
StreamNext ==
    \/ Ask
    \/ LetGo
    \/ \E c \in Conn : Open(c) \/ StopServing(c) \/ EndTask(c)
    \/ Accept
    \/ Register
    \/ Forget
    \/ ManagerEnds

StreamSpec == StreamInit /\ [][StreamNext]_feedVars
==============================================================================
