----------------------------- MODULE StreamProofs -----------------------------
(***************************************************************************)
(* The streams of ConnectionManager, for any number of them: those the     *)
(* manager has let go of do not pile up.                                   *)
(*                                                                         *)
(* The proof is a count.  A failure of a link owes two events at most,     *)
(* "error" and "closed", and each of these can cost the manager one        *)
(* healthy stream.  What is owed moves from the failed link to the task    *)
(* that is to report it, from there to the event channel, and from there   *)
(* to the stream that is let go; it never grows without a failure.         *)
(***************************************************************************)
EXTENDS ConnectionManagerProofs, FiniteSetTheorems

\* A stream the server serves has its task, which has reported nothing yet.
ServedIsRead ==
    \A c \in Conn : link[c] = "up" => proc[c] = "reading"

-----------------------------------------------------------------------------
(* Shapes of steps.                                                        *)

\* A step that leaves the streams and their events alone.
StreamQuiet == UNCHANGED <<client, proc, link, events, faults>>

\* The steps at which the task ends.
Ends == ConnectPanics \/ ReceiveShutdown \/ ReceiveSignal

LEMMA StreamSteps ==
    ASSUME [Next]_vars
    PROVE  \/ StreamQuiet
           \/ Ends
           \/ ConnectSucceeds
           \/ PushFails
           \/ HandleEvent
           \/ \E c \in Conn : StreamTask(c) \/ LinkFails(c) \/ ServerCloses(c)
<1> USE DEF StreamQuiet, connVars, netVars
<1>1. CASE API
  BY <1>1, Zenon DEF API, AddSubscription, AddSubscriptionFails,
     RemoveSubscription, RemoveClientSubscriptions, CallShutdown, SendShutdown,
     BroadcastShutdown
<1>2. CASE ConnectFails
  BY <1>2 DEF ConnectFails
<1>3. ASSUME HandleCommand, ~ReceiveShutdown
      PROVE  StreamQuiet
  BY <1>3, Zenon DEF HandleCommand, ReceiveAdd, IndexAdded, ReceiveRemove,
     UnindexRemoved, ReceiveRemoveClient, DropSubscriptions, DropClient
<1>4. ASSUME Push, ~PushFails
      PROVE  StreamQuiet
  BY <1>4, Zenon DEF Push, PushSucceeds, NothingToPush
<1>5. CASE UNCHANGED vars
  BY <1>5 DEF vars
<1> QED
  BY <1>1, <1>2, <1>3, <1>4, <1>5, Zenon DEF Next, Ends, Terminated

\* Once the task has ended it stays so.
LEMMA StepsWhenEnded ==
    ASSUME [Next]_vars, ~Running
    PROVE  pc' = pc
<1> USE DEF Running
<1>1. CASE API
  BY <1>1, Zenon DEF API, AddSubscription, AddSubscriptionFails,
     RemoveSubscription, RemoveClientSubscriptions, CallShutdown, SendShutdown,
     BroadcastShutdown
<1>2. ~(ConnectSucceeds \/ ConnectFails \/ ConnectPanics)
  BY DEF ConnectSucceeds, ConnectFails, ConnectPanics
<1>3. ~HandleCommand
  BY DEF HandleCommand, Receive, ReceiveAdd, IndexAdded, ReceiveRemove,
     UnindexRemoved, ReceiveRemoveClient, DropSubscriptions, DropClient,
     ReceiveShutdown
<1>4. ~Push /\ ~HandleEvent /\ ~ReceiveSignal
  BY DEF Push, PushSucceeds, PushFails, NothingToPush, HandleEvent, ReceiveEvent,
     ConnectionLost, PongSucceeds, PongFails, ReceiveSignal
<1>5. ASSUME NEW c \in Conn, StreamTask(c) \/ LinkFails(c) \/ ServerCloses(c)
      PROVE  pc' = pc
  BY <1>5, Zenon DEF StreamTask, StreamPing, StreamError, StreamClosed,
     StreamVarsSame, LinkFails, ServerCloses, NetVarsSame
<1>6. CASE UNCHANGED vars
  BY <1>6 DEF vars
<1> QED
  BY <1>1, <1>2, <1>3, <1>4, <1>5, <1>6, Zenon DEF Next, Terminated

LEMMA ServedStep ==
    ASSUME Typed, ServedIsRead, [Next]_vars
    PROVE  ServedIsRead'
<1> USE DEF ServedIsRead
<1>1. CASE StreamQuiet
  BY <1>1 DEF StreamQuiet
<1>2. CASE Ends
  BY <1>2 DEF Ends, ConnectPanics, ReceiveShutdown, ReceiveSignal, netVars
<1>3. CASE ConnectSucceeds
  BY <1>3, NextConnUnused DEF ConnectSucceeds, Typed
<1>4. CASE PushFails
  BY <1>4 DEF PushFails, netVars
<1>5. CASE HandleEvent
  BY <1>5 DEF HandleEvent, ConnectionLost, PongSucceeds, PongFails, netVars
<1>6. ASSUME NEW c \in Conn, StreamTask(c) \/ LinkFails(c) \/ ServerCloses(c)
      PROVE  ServedIsRead'
  BY <1>6 DEF StreamTask, StreamPing, StreamError, StreamClosed, StreamVarsSame,
     LinkFails, ServerCloses, NetVarsSame, Typed
<1> QED
  BY <1>1, <1>2, <1>3, <1>4, <1>5, <1>6, StreamSteps

-----------------------------------------------------------------------------
(* What is owed.                                                           *)

\* Tasks that have an event to send now or when their stream ends, without
\* another failure.
Owing ==
    { c \in Conn : \/ proc[c] = "closing"
                   \/ proc[c] = "reading" /\ (link[c] # "up" \/ c # client) }

\* Tasks that have an error to report before that.
Failing == { c \in Conn : proc[c] = "reading" /\ link[c] = "broken" }

\* Places in the event channel of events that cost a connection.
Alarms == { i \in 1..Len(events) : events[i] # "ping" }

Finite ==
    IsFiniteSet(Owing) /\ IsFiniteSet(Failing) /\ IsFiniteSet(Alarms)

Debt == Cardinality(Owing) + Cardinality(Failing) + Cardinality(Alarms)

DebtInv == Running => Finite /\ Debt <= 2 * faults

LEMMA DebtTypes ==
    ASSUME Finite
    PROVE  /\ Cardinality(Owing) \in Nat
           /\ Cardinality(Failing) \in Nat
           /\ Cardinality(Alarms) \in Nat
BY FS_CardinalityType DEF Finite

\* The event channel when an event is sent ...
LEMMA AlarmsSent ==
    ASSUME Typed, Running, NEW event \in {"ping", "error", "closed"},
           SendEvent(event), IsFiniteSet(Alarms)
    PROVE  /\ IsFiniteSet(Alarms')
           /\ event = "ping" => Alarms' = Alarms
           /\ Cardinality(Alarms') <= Cardinality(Alarms) + 1
<1>1. /\ events \in Seq({"ping", "error", "closed"})
      /\ events' = Append(events, event)
  BY DEF SendEvent, Typed
<1> DEFINE n == Len(events) + 1
<1>2. /\ Len(events') = n /\ Len(events) \in Nat
      /\ \A i \in 1..Len(events) : events'[i] = events[i]
      /\ events'[n] = event
  BY <1>1, AppendProperties, LenProperties
<1>3. 1..Len(events') = 1..Len(events) \cup {n} /\ n \notin 1..Len(events)
  BY <1>2, SMT
<1>4. CASE event = "ping"
  <2>1. Alarms' = Alarms
    BY <1>2, <1>3, <1>4 DEF Alarms
  <2> QED
    BY <2>1, FS_CardinalityType
<1>5. CASE event # "ping"
  <2>1. Alarms' = Alarms \cup {n}
    BY <1>2, <1>3, <1>5 DEF Alarms
  <2> QED
    BY <1>5, <2>1, FS_AddElement, FS_CardinalityType
<1> QED
  BY <1>4, <1>5

\* ... and when one is taken.
LEMMA AlarmsTaken ==
    ASSUME Typed, events # <<>>, events' = Tail(events), IsFiniteSet(Alarms)
    PROVE  /\ IsFiniteSet(Alarms')
           /\ Cardinality(Alarms') <= Cardinality(Alarms)
           /\ Head(events) # "ping" =>
                  Cardinality(Alarms') <= Cardinality(Alarms) - 1
<1>1. /\ Len(events) \in Nat \ {0}
      /\ Len(events') = Len(events) - 1
      /\ Head(events) = events[1]
      /\ \A j \in 1..Len(events) - 1 : events'[j] = events[j + 1]
  BY HeadTailProperties, LenProperties, EmptySeq DEF Typed
<1> DEFINE Rest == Alarms \ {1}
           Shift == [i \in Alarms' |-> i + 1]
<1>2. /\ IsFiniteSet(Rest)
      /\ Cardinality(Rest) <= Cardinality(Alarms)
      /\ Head(events) # "ping" => Cardinality(Rest) = Cardinality(Alarms) - 1
  <2>1. Head(events) # "ping" => 1 \in Alarms
    BY <1>1 DEF Alarms
  <2>2. /\ IsFiniteSet(Alarms \ {1})
        /\ Cardinality(Alarms \ {1}) =
               IF 1 \in Alarms THEN Cardinality(Alarms) - 1
                              ELSE Cardinality(Alarms)
    BY FS_RemoveElement, Zenon
  <2>3. Cardinality(Alarms) \in Nat
    BY FS_CardinalityType
  <2> QED
    BY <2>1, <2>2, <2>3, SMT
<1>3. \A i \in Alarms' : i \in Nat /\ i + 1 \in Rest
  BY <1>1 DEF Alarms
<1>4. Shift \in Injection(Alarms', Rest)
  <2>1. Shift \in [Alarms' -> Rest]
    BY <1>3
  <2>2. DOMAIN Shift = Alarms'
    OBVIOUS
  <2>3. \A i, j \in Alarms' : Shift[i] = Shift[j] => i = j
    BY <1>3
  <2> HIDE DEF Shift
  <2> QED
    BY <2>1, <2>2, <2>3, Zenon DEF Injection, IsInjective
<1> HIDE DEF Shift, Rest
<1>5. IsFiniteSet(Alarms') /\ Cardinality(Alarms') <= Cardinality(Rest)
  BY <1>2, <1>4, FS_Injection
<1>6. /\ Cardinality(Alarms') \in Nat /\ Cardinality(Alarms) \in Nat
      /\ Cardinality(Rest) \in Nat
  BY <1>2, <1>5, FS_CardinalityType
<1> QED
  BY <1>2, <1>5, <1>6, SMT

\* A set that shrinks.
LEMMA Shrinks ==
    ASSUME NEW S, NEW T, T \subseteq S, IsFiniteSet(S)
    PROVE  IsFiniteSet(T) /\ Cardinality(T) <= Cardinality(S)
BY FS_Subset

\* A set that grows by one element at most.
LEMMA GrowsByOne ==
    ASSUME NEW S, NEW T, NEW x, T \subseteq S \cup {x}, IsFiniteSet(S)
    PROVE  IsFiniteSet(T) /\ Cardinality(T) <= Cardinality(S) + 1
<1>1. /\ IsFiniteSet(S \cup {x})
      /\ Cardinality(S \cup {x}) =
             IF x \in S THEN Cardinality(S) ELSE Cardinality(S) + 1
  BY FS_AddElement, Zenon
<1>2. IsFiniteSet(T) /\ Cardinality(T) <= Cardinality(S \cup {x})
  BY <1>1, Shrinks
<1>3. /\ Cardinality(S) \in Nat /\ Cardinality(T) \in Nat
      /\ Cardinality(S \cup {x}) \in Nat
  BY <1>1, <1>2, FS_CardinalityType
<1> QED
  BY <1>1, <1>2, <1>3, SMT

\* A set that loses an element.
LEMMA LosesOne ==
    ASSUME NEW S, NEW T, NEW x \in S, T \subseteq S \ {x}, IsFiniteSet(S)
    PROVE  IsFiniteSet(T) /\ Cardinality(T) <= Cardinality(S) - 1
<1>1. /\ IsFiniteSet(S \ {x})
      /\ Cardinality(S \ {x}) =
             IF x \in S THEN Cardinality(S) - 1 ELSE Cardinality(S)
  BY FS_RemoveElement, Zenon
<1>2. IsFiniteSet(T) /\ Cardinality(T) <= Cardinality(S \ {x})
  BY <1>1, Shrinks
<1> QED
  BY <1>1, <1>2

\* The sums, for a step of a task that goes on.
LEMMA Balance ==
    ASSUME Typed, Finite, Finite', Debt <= 2 * faults,
           NEW o \in Int, NEW f \in Int, NEW a \in Int, NEW n \in Nat,
           Cardinality(Owing') <= Cardinality(Owing) + o,
           Cardinality(Failing') <= Cardinality(Failing) + f,
           Cardinality(Alarms') <= Cardinality(Alarms) + a,
           faults' = faults + n, o + f + a <= 2 * n
    PROVE  DebtInv'
<1>1. /\ Cardinality(Owing) \in Nat
      /\ Cardinality(Failing) \in Nat
      /\ Cardinality(Alarms) \in Nat
  BY DebtTypes
<1>2. /\ Cardinality(Owing') \in Nat
      /\ Cardinality(Failing') \in Nat
      /\ Cardinality(Alarms') \in Nat
  BY FS_CardinalityType DEF Finite
<1>3. faults \in Nat
  BY DEF Typed
<1>4. Debt' = Cardinality(Owing') + Cardinality(Failing') + Cardinality(Alarms')
  BY DEF Debt
<1>5. Debt' <= 2 * faults'
  BY <1>1, <1>2, <1>3, <1>4, SMT DEF Debt
<1> QED
  BY <1>5 DEF DebtInv

\* Steps of the manager task that let go of a dead connection, or of none.
LEMMA DebtOfDead ==
    ASSUME Typed, Finite, Debt <= 2 * faults,
           UNCHANGED <<proc, link, faults>>,
           client' = client \/ (client' = NoConn /\ link[client] # "up"),
           IsFiniteSet(Alarms'), Cardinality(Alarms') <= Cardinality(Alarms)
    PROVE  DebtInv'
<1>1. Owing' \subseteq Owing /\ Failing' \subseteq Failing
  BY DEF Owing, Failing
<1>2. /\ Finite'
      /\ Cardinality(Owing') <= Cardinality(Owing)
      /\ Cardinality(Failing') <= Cardinality(Failing)
  BY <1>1, Shrinks DEF Finite
<1>3. /\ Cardinality(Owing) \in Nat
      /\ Cardinality(Failing) \in Nat
      /\ Cardinality(Alarms) \in Nat
  BY DebtTypes
<1>4. /\ Cardinality(Owing') <= Cardinality(Owing) + 0
      /\ Cardinality(Failing') <= Cardinality(Failing) + 0
      /\ Cardinality(Alarms') <= Cardinality(Alarms) + 0
      /\ faults' = faults + 0
  BY <1>2, <1>3, SMT DEF Typed
<1> QED
  BY <1>2, <1>4, Balance, 0 + 0 + 0 <= 2 * 0

\* "closed" or "error" costs the connection, whatever its state.
LEMMA DebtOfLost ==
    ASSUME Typed, HoldsConnection, Finite, Debt <= 2 * faults, ConnectionLost
    PROVE  DebtInv'
<1>1. /\ UNCHANGED <<proc, link, faults>>
      /\ client' = NoConn
      /\ events # <<>> /\ events' = Tail(events) /\ Head(events) # "ping"
  BY DEF ConnectionLost, ReceiveEvent, netVars
<1>2. Owing' \subseteq Owing \cup {client} /\ Failing' \subseteq Failing
  BY <1>1 DEF Owing, Failing
<1>3. /\ IsFiniteSet(Alarms')
      /\ Cardinality(Alarms') <= Cardinality(Alarms) - 1
  BY <1>1, AlarmsTaken DEF Finite
<1>4. IsFiniteSet(Owing') /\ Cardinality(Owing') <= Cardinality(Owing) + 1
  BY <1>2, GrowsByOne DEF Finite
<1>5. IsFiniteSet(Failing') /\ Cardinality(Failing') <= Cardinality(Failing)
  BY <1>2, Shrinks DEF Finite
<1>6. /\ Cardinality(Failing) \in Nat /\ Cardinality(Alarms) \in Nat
      /\ Cardinality(Alarms) - 1 = Cardinality(Alarms) + (-1)
      /\ Cardinality(Failing) + 0 = Cardinality(Failing)
      /\ faults' = faults + 0
  BY <1>1, DebtTypes, SMT DEF Typed
<1>7. Finite'
  BY <1>3, <1>4, <1>5 DEF Finite
<1> QED
  BY <1>3, <1>4, <1>5, <1>6, <1>7, Balance, 1 + 0 + (-1) <= 2 * 0, -1 \in Int

\* An error is reported: its task still owes "closed".
LEMMA DebtOfError ==
    ASSUME Typed, Running, Finite, Debt <= 2 * faults,
           NEW c \in Conn, StreamError(c)
    PROVE  DebtInv'
<1>1. /\ UNCHANGED <<client, link, faults>>
      /\ proc[c] = "reading" /\ link[c] = "broken"
      /\ proc' = [proc EXCEPT ![c] = "closing"]
      /\ SendEvent("error")
  BY DEF StreamError, StreamVarsSame, connVars
<1>2. Owing' \subseteq Owing /\ Failing' \subseteq Failing \ {c} /\ c \in Failing
  BY <1>1 DEF Owing, Failing, Typed
<1>3. /\ IsFiniteSet(Alarms')
      /\ Cardinality(Alarms') <= Cardinality(Alarms) + 1
  BY <1>1, AlarmsSent DEF Finite
<1>4. IsFiniteSet(Owing') /\ Cardinality(Owing') <= Cardinality(Owing)
  BY <1>2, Shrinks DEF Finite
<1>5. IsFiniteSet(Failing') /\ Cardinality(Failing') <= Cardinality(Failing) - 1
  BY <1>2, LosesOne DEF Finite
<1>6. /\ Cardinality(Owing) \in Nat /\ Cardinality(Failing) \in Nat
      /\ Cardinality(Failing) - 1 = Cardinality(Failing) + (-1)
      /\ Cardinality(Owing) + 0 = Cardinality(Owing)
      /\ faults' = faults + 0
  BY <1>1, DebtTypes, SMT DEF Typed
<1>7. Finite'
  BY <1>3, <1>4, <1>5 DEF Finite
<1> QED
  BY <1>3, <1>4, <1>5, <1>6, <1>7, Balance, 0 + (-1) + 1 <= 2 * 0, -1 \in Int

\* The end of a stream is reported: its task owes nothing any more.
LEMMA DebtOfClosed ==
    ASSUME Typed, ServedIsRead, Running, Finite, Debt <= 2 * faults,
           NEW c \in Conn, StreamClosed(c)
    PROVE  DebtInv'
<1>1. /\ UNCHANGED <<client, link, faults>>
      /\ proc[c] # "none" /\ link[c] # "up"
      /\ proc' = [proc EXCEPT ![c] = "none"]
      /\ SendEvent("closed")
  BY DEF StreamClosed, StreamVarsSame, connVars, ServedIsRead
<1>2. Owing' \subseteq Owing \ {c} /\ Failing' \subseteq Failing /\ c \in Owing
  BY <1>1 DEF Owing, Failing, Typed
<1>3. /\ IsFiniteSet(Alarms')
      /\ Cardinality(Alarms') <= Cardinality(Alarms) + 1
  BY <1>1, AlarmsSent DEF Finite
<1>4. IsFiniteSet(Owing') /\ Cardinality(Owing') <= Cardinality(Owing) - 1
  BY <1>2, LosesOne DEF Finite
<1>5. IsFiniteSet(Failing') /\ Cardinality(Failing') <= Cardinality(Failing)
  BY <1>2, Shrinks DEF Finite
<1>6. /\ Cardinality(Owing) \in Nat /\ Cardinality(Failing) \in Nat
      /\ Cardinality(Owing) - 1 = Cardinality(Owing) + (-1)
      /\ Cardinality(Failing) + 0 = Cardinality(Failing)
      /\ faults' = faults + 0
  BY <1>1, DebtTypes, SMT DEF Typed
<1>7. Finite'
  BY <1>3, <1>4, <1>5 DEF Finite
<1> QED
  BY <1>3, <1>4, <1>5, <1>6, <1>7, Balance, (-1) + 0 + 1 <= 2 * 0, -1 \in Int

\* A failure of a link: two more events are owed.
LEMMA DebtOfFailure ==
    ASSUME Typed, Finite, Debt <= 2 * faults, NEW c \in Conn, LinkFails(c)
    PROVE  DebtInv'
<1>1. /\ UNCHANGED <<client, proc, events>>
      /\ \E how \in {"ended", "broken"} : link' = [link EXCEPT ![c] = how]
      /\ faults' = faults + 1
  BY DEF LinkFails, NetVarsSame, connVars
<1>2. /\ Owing' \subseteq Owing \cup {c}
      /\ Failing' \subseteq Failing \cup {c}
      /\ Alarms' = Alarms
  BY <1>1 DEF Owing, Failing, Alarms, Typed
<1>3. IsFiniteSet(Owing') /\ Cardinality(Owing') <= Cardinality(Owing) + 1
  BY <1>2, GrowsByOne DEF Finite
<1>4. IsFiniteSet(Failing') /\ Cardinality(Failing') <= Cardinality(Failing) + 1
  BY <1>2, GrowsByOne DEF Finite
<1>5. Finite' /\ Cardinality(Alarms') <= Cardinality(Alarms) + 0
  BY <1>2, <1>3, <1>4, DebtTypes DEF Finite
<1> QED
  BY <1>1, <1>3, <1>4, <1>5, Balance, 1 + 1 + 0 <= 2 * 1

\* The server ends a stream that is owed for already.
LEMMA DebtOfServer ==
    ASSUME Typed, HoldsConnection, Finite, Debt <= 2 * faults,
           NEW c \in Conn, ServerCloses(c)
    PROVE  DebtInv'
<1>1. /\ UNCHANGED <<client, proc, events, faults>>
      /\ link' = [link EXCEPT ![c] = "ended"]
      /\ client # c
  BY DEF ServerCloses, NetVarsSame, connVars, HoldsConnection
<1>2. Owing' \subseteq Owing /\ Failing' \subseteq Failing /\ Alarms' = Alarms
  BY <1>1 DEF Owing, Failing, Alarms, Typed
<1>3. /\ Finite'
      /\ Cardinality(Owing') <= Cardinality(Owing)
      /\ Cardinality(Failing') <= Cardinality(Failing)
  BY <1>2, Shrinks DEF Finite
<1>4. /\ Cardinality(Owing') <= Cardinality(Owing) + 0
      /\ Cardinality(Failing') <= Cardinality(Failing) + 0
      /\ Cardinality(Alarms') <= Cardinality(Alarms) + 0
      /\ faults' = faults + 0
  BY <1>1, <1>2, <1>3, DebtTypes, SMT DEF Typed
<1> QED
  BY <1>3, <1>4, Balance, 0 + 0 + 0 <= 2 * 0

\* A new stream is served and held, and owes nothing.
LEMMA DebtOfConnect ==
    ASSUME Typed, HoldsConnection, Finite, Debt <= 2 * faults, ConnectSucceeds
    PROVE  DebtInv'
<1>1. PICK c \in Conn : c = NextConn /\ proc[c] = "none"
  BY NextConnUnused DEF ConnectSucceeds
<1>2. /\ UNCHANGED <<events, faults>>
      /\ client = NoConn /\ client' = c
      /\ proc' = [proc EXCEPT ![c] = "reading"]
      /\ link' = [link EXCEPT ![c] = "up"]
  BY <1>1 DEF ConnectSucceeds, HoldsConnection
<1>3. Owing' \subseteq Owing /\ Failing' \subseteq Failing /\ Alarms' = Alarms
  BY <1>1, <1>2, ManagerAssumption DEF Owing, Failing, Alarms, Typed
<1>4. /\ Finite'
      /\ Cardinality(Owing') <= Cardinality(Owing)
      /\ Cardinality(Failing') <= Cardinality(Failing)
  BY <1>3, Shrinks DEF Finite
<1>5. /\ Cardinality(Owing') <= Cardinality(Owing) + 0
      /\ Cardinality(Failing') <= Cardinality(Failing) + 0
      /\ Cardinality(Alarms') <= Cardinality(Alarms) + 0
      /\ faults' = faults + 0
  BY <1>2, <1>3, <1>4, DebtTypes, SMT DEF Typed
<1> QED
  BY <1>4, <1>5, Balance, 0 + 0 + 0 <= 2 * 0

LEMMA DebtStep ==
    ASSUME IInv, ServedIsRead, DebtInv, [Next]_vars
    PROVE  DebtInv'
<1>1. Typed /\ HoldsConnection
  BY DEF IInv
<1>2. CASE ~Running
  <2>1. ~Running'
    <3>1. pc' = pc
      BY <1>2, StepsWhenEnded
    <3> QED
      BY <1>2, <3>1 DEF Running
  <2> QED
    BY <2>1 DEF DebtInv
<1>3. CASE Running
  <2>1. Finite /\ Debt <= 2 * faults
    BY <1>3 DEF DebtInv
  <2>2. CASE StreamQuiet
    <3>1. Alarms' = Alarms /\ client' = client /\ UNCHANGED <<proc, link, faults>>
      BY <2>2 DEF StreamQuiet, Alarms
    <3> QED
      BY <1>1, <2>1, <3>1, DebtTypes, DebtOfDead DEF Finite
  <2>3. CASE Ends
    BY <2>3 DEF Ends, ConnectPanics, ReceiveShutdown, ReceiveSignal, TaskEnds,
       DebtInv, Running
  <2>4. CASE ConnectSucceeds
    BY <1>1, <2>1, <2>4, DebtOfConnect
  <2>5. CASE PushFails
    <3>1. /\ Alarms' = Alarms /\ UNCHANGED <<proc, link, faults>>
          /\ client' = NoConn /\ link[client] # "up"
      BY <1>1, <2>5 DEF PushFails, netVars, Alarms, HoldsConnection
    <3> QED
      BY <1>1, <2>1, <3>1, DebtTypes, DebtOfDead DEF Finite
  <2>6. CASE ConnectionLost
    BY <1>1, <2>1, <2>6, DebtOfLost
  <2>7. CASE PongSucceeds \/ PongFails
    <3>1. /\ events # <<>> /\ events' = Tail(events)
          /\ UNCHANGED <<proc, link, faults>>
          /\ client' = client \/ (client' = NoConn /\ link[client] # "up")
      BY <1>1, <2>7 DEF PongSucceeds, PongFails, ReceiveEvent, netVars, connVars,
         HoldsConnection
    <3>2. IsFiniteSet(Alarms') /\ Cardinality(Alarms') <= Cardinality(Alarms)
      BY <1>1, <2>1, <3>1, AlarmsTaken DEF Finite
    <3> QED
      BY <1>1, <2>1, <3>1, <3>2, DebtOfDead
  <2>8. ASSUME NEW c \in Conn, StreamPing(c)
        PROVE  DebtInv'
    <3>1. /\ SendEvent("ping") /\ client' = client
          /\ UNCHANGED <<proc, link, faults>>
      BY <2>8 DEF StreamPing, StreamVarsSame, connVars
    <3>2. Alarms' = Alarms
      BY <1>1, <1>3, <2>1, <3>1, AlarmsSent DEF Finite
    <3> QED
      BY <1>1, <2>1, <3>1, <3>2, DebtTypes, DebtOfDead DEF Finite
  <2>9. ASSUME NEW c \in Conn, StreamError(c) \/ StreamClosed(c)
        PROVE  DebtInv'
    BY <1>1, <1>3, <2>1, <2>9, DebtOfError, DebtOfClosed
  <2>10. ASSUME NEW c \in Conn, LinkFails(c) \/ ServerCloses(c)
         PROVE  DebtInv'
    BY <1>1, <2>1, <2>10, DebtOfFailure, DebtOfServer
  <2> QED
    BY <2>2, <2>3, <2>4, <2>5, <2>6, <2>7, <2>8, <2>9, <2>10, StreamSteps,
       Zenon DEF HandleEvent, StreamTask
<1> QED
  BY <1>2, <1>3

LEMMA DebtInit == Init => DebtInv
<1> SUFFICES ASSUME Init
             PROVE  Finite /\ Debt <= 2 * faults
  BY DEF DebtInv
<1>1. Owing = {} /\ Failing = {}
  BY DEF Init, Owing, Failing
<1>2. Alarms = {}
  <2>1. events = <<>> /\ Len(<<>>) = 0
    BY EmptySeq DEF Init
  <2> QED
    BY <2>1, SMT DEF Alarms
<1>3. faults = 0
  BY DEF Init
<1> QED
  BY <1>1, <1>2, <1>3, FS_EmptySet DEF Finite, Debt

\* Streams that were let go and are still read do not pile up: at any time
\* there are at most two for each failure of a link so far.
THEOREM AbandonedStreamsAreBounded == Spec => []AbandonedStreamsBounded
<1>1. Init => ServedIsRead
  BY DEF Init, ServedIsRead
<1>2. IInv /\ ServedIsRead /\ DebtInv /\ [Next]_vars
      => (ServedIsRead /\ DebtInv)'
  BY ServedStep, DebtStep DEF IInv
<1>3. IInv /\ DebtInv => AbandonedStreamsBounded
  <2> SUFFICES ASSUME IInv, DebtInv, Running
               PROVE  Cardinality({ c \in Conn : c # client /\ proc[c] # "none" })
                          <= 2 * faults
    BY DEF AbandonedStreamsBounded
  <2> DEFINE Abandoned == { c \in Conn : c # client /\ proc[c] # "none" }
  <2>1. Finite /\ Debt <= 2 * faults
    BY DEF DebtInv
  <2>2. Abandoned \subseteq Owing
    BY DEF Owing, IInv, Typed
  <2>3. IsFiniteSet(Abandoned) /\ Cardinality(Abandoned) <= Cardinality(Owing)
    BY <2>1, <2>2, Shrinks DEF Finite
  <2>4. Cardinality(Abandoned) \in Nat /\ faults \in Nat
    BY <2>3, FS_CardinalityType DEF IInv, Typed
  <2> HIDE DEF Abandoned
  <2>5. Cardinality(Abandoned) <= 2 * faults
    BY <2>1, <2>3, <2>4, DebtTypes, SMT DEF Debt
  <2> QED
    BY <2>5 DEF Abandoned
<1> QED
  BY <1>1, <1>2, <1>3, DebtInit, Invariant, PTL DEF Spec

-----------------------------------------------------------------------------
(* Identities of streams.                                                  *)

FaultsBounded == faults <= MaxFaults

\* The manager can connect whenever it wants to.
AStreamIsLeft == pc = "connect" => Unused # {}

LEMMA FaultsStep ==
    ASSUME IInv, FaultsBounded, [Next]_vars
    PROVE  FaultsBounded'
<1> USE DEF FaultsBounded
<1>1. CASE StreamQuiet
  BY <1>1 DEF StreamQuiet
<1>2. CASE Ends \/ ConnectSucceeds \/ PushFails \/ HandleEvent
  BY <1>2 DEF Ends, ConnectPanics, ReceiveShutdown, ReceiveSignal,
     ConnectSucceeds, PushFails, HandleEvent, ConnectionLost, PongSucceeds,
     PongFails, netVars
<1>3. ASSUME NEW c \in Conn, StreamTask(c) \/ LinkFails(c) \/ ServerCloses(c)
      PROVE  FaultsBounded'
  <2>1. CASE LinkFails(c)
    BY <2>1, ManagerAssumption DEF LinkFails, IInv, Typed
  <2>2. CASE StreamTask(c) \/ ServerCloses(c)
    BY <2>2 DEF StreamTask, StreamPing, StreamError, StreamClosed,
       StreamVarsSame, ServerCloses
  <2> QED
    BY <1>3, <2>1, <2>2
<1> QED
  BY <1>1, <1>2, <1>3, StreamSteps

\* In the program every stream is a new one, in the model it takes an identity
\* that is free.  With more identities than twice the failures there is always
\* one when the manager connects: the finite set hides none of its steps.
THEOREM NoStepHidden ==
    ASSUME IsFiniteSet(Conn), Cardinality(Conn) > 2 * MaxFaults
    PROVE  Spec => []AStreamIsLeft
<1>1. Init => ServedIsRead /\ FaultsBounded
  BY ManagerAssumption DEF Init, ServedIsRead, FaultsBounded
<1>2. IInv /\ ServedIsRead /\ DebtInv /\ FaultsBounded /\ [Next]_vars
      => (ServedIsRead /\ DebtInv /\ FaultsBounded)'
  BY ServedStep, DebtStep, FaultsStep DEF IInv
<1>3. IInv /\ DebtInv /\ FaultsBounded => AStreamIsLeft
  <2> SUFFICES ASSUME IInv, DebtInv, faults <= MaxFaults, pc = "connect",
                      Unused = {}
               PROVE  FALSE
    BY DEF AStreamIsLeft, FaultsBounded
  <2>1. client = NoConn /\ Typed /\ Running
    BY DEF IInv, HoldsConnection, Running
  <2>2. Finite /\ Debt <= 2 * faults
    BY <2>1 DEF DebtInv
  <2>3. Conn \subseteq Owing
    BY <2>1, ManagerAssumption DEF Unused, Owing, Typed
  <2>4. Cardinality(Conn) <= Cardinality(Owing)
    BY <2>2, <2>3, Shrinks DEF Finite
  <2>5. Cardinality(Conn) \in Nat /\ faults \in Nat /\ MaxFaults \in Nat
    BY <2>1, FS_CardinalityType, ManagerAssumption DEF Typed
  <2>6. Cardinality(Owing) <= 2 * faults /\ Cardinality(Owing) \in Nat
    BY <2>2, <2>5, DebtTypes, SMT DEF Debt
  <2>7. 2 * faults <= 2 * MaxFaults
    BY <2>5, SMT
  <2> QED
    BY <2>4, <2>5, <2>6, <2>7, SMT
<1> QED
  BY <1>1, <1>2, <1>3, DebtInit, Invariant, PTL DEF Spec

-----------------------------------------------------------------------------
(* Without a failure.                                                      *)

LEMMA NoneLeft ==
    ASSUME NEW S, IsFiniteSet(S), Cardinality(S) = 0
    PROVE  S = {}
BY FS_EmptySet

\* As long as no link has failed nothing is owed, and the stream the manager
\* holds is served.
LEMMA HeldIsServed ==
    ASSUME IInv, DebtInv, Running, faults = 0, client # NoConn
    PROVE  client \in Conn /\ link[client] = "up" /\ Alarms = {}
<1>1. Typed /\ DeadStreamNoticed /\ client \in Conn
  BY DEF IInv, Typed
<1>2. Owing = {} /\ Alarms = {}
  <2>1. Finite /\ Debt <= 2 * faults
    BY DEF DebtInv
  <2>2. Cardinality(Owing) = 0 /\ Cardinality(Alarms) = 0
    BY <2>1, DebtTypes, SMT DEF Debt
  <2> QED
    BY <2>1, <2>2, NoneLeft DEF Finite
<1>3. proc[client] # "none"
  <2> SUFFICES ASSUME Queued("closed") PROVE FALSE
    BY <1>1 DEF DeadStreamNoticed
  <2> QED
    BY <1>2 DEF Queued, Alarms
<1>4. link[client] = "up"
  BY <1>1, <1>2, <1>3 DEF Owing, Typed
<1> QED
  BY <1>1, <1>2, <1>4

LEMMA KeptStep ==
    ASSUME IInv, DebtInv, [Next]_vars,
           faults = 0, client # NoConn, Running'
    PROVE  client' = client
<1>1. Typed /\ HoldsConnection
  BY DEF IInv
<1>2. Running
  BY <1>1 DEF HoldsConnection, Running
<1>3. client \in Conn /\ link[client] = "up" /\ Alarms = {}
  BY <1>2, HeldIsServed
<1>4. CASE StreamQuiet
  BY <1>4 DEF StreamQuiet
<1>5. CASE Ends
  BY <1>5 DEF Ends, ConnectPanics, ReceiveShutdown, ReceiveSignal, TaskEnds,
     Running
<1>6. ~ConnectSucceeds
  BY <1>1 DEF ConnectSucceeds, HoldsConnection
<1>7. ~PushFails /\ ~PongFails
  BY <1>1, <1>3 DEF PushFails, PongFails, HoldsConnection
<1>8. ~ConnectionLost
  <2> SUFFICES ASSUME events # <<>>, Head(events) # "ping" PROVE FALSE
    BY DEF ConnectionLost, ReceiveEvent
  <2>1. Len(events) \in Nat \ {0} /\ Head(events) = events[1]
    BY <1>1, HeadTailProperties, LenProperties, EmptySeq DEF Typed
  <2> QED
    BY <1>3, <2>1 DEF Alarms
<1>9. CASE PongSucceeds
  BY <1>9 DEF PongSucceeds, connVars
<1>10. ASSUME NEW c \in Conn, StreamTask(c) \/ LinkFails(c) \/ ServerCloses(c)
       PROVE  client' = client
  BY <1>10 DEF StreamTask, StreamPing, StreamError, StreamClosed, StreamVarsSame,
     LinkFails, ServerCloses, NetVarsSame, connVars
<1> QED
  BY <1>4, <1>5, <1>6, <1>7, <1>8, <1>9, <1>10, StreamSteps DEF HandleEvent

\* A connection on which no link has failed is never given up, whatever is
\* added, removed or pinged: the end of a stream the manager let go of is not
\* reported against the one it holds, because without a failure it lets go of
\* none.
THEOREM ConnectionIsKept == Spec => KeptWithoutFailure
<1>1. Init => ServedIsRead
  BY DEF Init, ServedIsRead
<1>2. IInv /\ ServedIsRead /\ DebtInv /\ [Next]_vars
      => (ServedIsRead /\ DebtInv)'
  BY ServedStep, DebtStep DEF IInv
<1>3. IInv /\ DebtInv /\ [Next]_vars
      => [faults = 0 /\ client # NoConn /\ Running' => client' = client]_vars
  BY KeptStep
<1> QED
  BY <1>1, <1>2, <1>3, DebtInit, Invariant, PTL DEF Spec, KeptWithoutFailure
===============================================================================
