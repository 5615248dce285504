---------------------------- MODULE EventPipeline ----------------------------
(***************************************************************************)
(* The way of an update from the server to a row of liquidity_pools_v4:    *)
(* the tasks that read the streams (dispatch_event of                      *)
(* src/connection/manager.rs), the task spawned for each update            *)
(* (src/orchestrator.rs), the table and its connection pool (src/db.rs),   *)
(* and the program around them, from its start to Ctrl+C or a crash and on *)
(* to the next start (src/main.rs, Orchestrator::run).                     *)
(*                                                                         *)
(* The streams, the subscription and what is asked for move as in          *)
(* StreamLife, which is what ConnectionManager was shown to do.  The       *)
(* database is a process of its own: a statement it was given goes on when *)
(* the program is gone.                                                    *)
(***************************************************************************)
EXTENDS Transactions, StreamLife

CONSTANTS Update,           \* updates that the server sends for the filter
          Content,          \* the transaction in each of them
          MaxConnections,   \* settings.database.max_connections
          MaxSent,          \* bound: how many updates there are
          MaxStarts         \* bound: how often the program is started

ASSUME PipelineAssumption ==
    /\ Content \in [Update -> TransactionUpdate]
    /\ NoConn \notin Conn
    /\ MaxConnections \in Nat \ {0}
    /\ MaxSent \in Nat
    /\ MaxStarts \in Nat

\* An update is one message of the server: when it sends a transaction again,
\* that is another update with the same content.

\* An update as one stream carries it.  The handler task and the row of an
\* update are named after it, though the table has no trace of the stream.
Delivery == Update \X Conn

\* What the subscription lets through, and what the handler stores.
Matching == { u \in Update : MatchesTransaction(Content[u]) }
Wanted == { u \in Update : Wants(Content[u]) }

VARIABLES
    stage,         \* how far the program has come, see Stage
    starts,        \* how often it was started
    confirmed,     \* whether the mark of its shutdown succeeded
    inbox,         \* per stream: updates sent and not yet read
    spawned,       \* handler tasks that have no database connection
    inserting,     \* handler tasks that wait for their INSERT
    rows,          \* the table, in the order of its ids
    orphans,       \* INSERTs in the database that nobody waits for any more
    orphanMark,    \* an UPDATE in the database that nobody waits for
    happened,      \* history: updates the server has sent
    dispatched,    \* history: deliveries given to the handler
    failed,        \* history: deliveries whose failure was logged
    dropped,       \* history: deliveries lost with the program
    marked         \* history: rows there at the last mark

taskVars    == <<spawned, inserting>>
tableVars   == <<rows, orphans, orphanMark, marked>>
programVars == <<stage, starts, confirmed, subscription>>
historyVars == <<dispatched, failed, dropped>>

vars == <<programVars, feedVars, inbox, taskVars, tableVars, happened,
          historyVars>>

\* "setup" is up to the call of ctrl_c in run, "marking" waits for a database
\* connection for the UPDATE, "updating" for its effect, "updated" for the
\* answer, "closing" shuts down.
Stage ==
    {"down", "setup", "running", "marking", "updating", "updated", "closing"}

Init ==
    /\ stage = "down"
    /\ starts = 0
    /\ confirmed = FALSE
    /\ StreamInit
    /\ inbox = [c \in Conn |-> <<>>]
    /\ spawned = {}
    /\ inserting = {}
    /\ rows = <<>>
    /\ orphans = {}
    /\ orphanMark = FALSE
    /\ happened = {}
    /\ dispatched = {}
    /\ failed = {}
    /\ dropped = {}
    /\ marked = 0

-----------------------------------------------------------------------------
(* The table and the pool of connections to it.                            *)

\* A connection is held while a statement runs.
ConnectionFree ==
    Cardinality(inserting)
        + (IF stage \in {"updating", "updated"} THEN 1 ELSE 0) < MaxConnections

\* Mutant: a second row of an update makes the first one active again.
Upserted(d) ==
    IF \E n \in DOMAIN rows : rows[n].of[1] = d[1]
    THEN [n \in DOMAIN rows |->
             [rows[n] EXCEPT !.active = @ \/ rows[n].of[1] = d[1]]]
    ELSE Append(rows, [of |-> d, active |-> TRUE])

\* INSERT: a new active row.
Inserted(d) == Append(rows, [of |-> d, active |-> TRUE])

\* UPDATE ... WHERE is_active: every row, whichever run it is from.
MarkRows ==
    /\ rows' = [n \in DOMAIN rows |-> [rows[n] EXCEPT !.active = FALSE]]
    /\ marked' = Len(rows)

-----------------------------------------------------------------------------
(* The program.                                                            *)

\* The database connects, the manager task is spawned.
Start ==
    /\ stage = "down"
    /\ starts < MaxStarts
    /\ stage' = "setup"
    /\ starts' = starts + 1
    /\ confirmed' = FALSE
    /\ UNCHANGED <<subscription, streamVars, requested, inbox, taskVars,
                   tableVars, happened, historyVars>>

\* add_subscription leaves its command with the manager, then run waits.
Setup ==
    /\ stage = "setup"
    /\ stage' = "running"
    /\ Accept
    /\ UNCHANGED <<starts, confirmed, inbox, taskVars, tableVars, happened,
                   historyVars>>

CtrlC ==
    /\ stage = "running"
    /\ stage' = "marking"
    /\ UNCHANGED <<starts, confirmed, subscription, streamVars, requested,
                   inbox, taskVars, tableVars, happened, historyVars>>

MarkStarts ==
    /\ stage = "marking"
    /\ ConnectionFree
    /\ stage' = "updating"
    /\ UNCHANGED <<starts, confirmed, subscription, streamVars, requested,
                   inbox, taskVars, tableVars, happened, historyVars>>

\* The database does the UPDATE, ...
MarkTakesEffect ==
    /\ stage = "updating"
    /\ MarkRows
    /\ stage' = "updated"
    /\ UNCHANGED <<starts, confirmed, subscription, streamVars, requested,
                   inbox, taskVars, orphans, orphanMark, happened,
                   historyVars>>

\* ... and says so.
MarkSucceeds ==
    /\ stage = "updated"
    /\ stage' = "closing"
    /\ confirmed' = TRUE
    /\ UNCHANGED <<starts, subscription, streamVars, requested, inbox,
                   taskVars, tableVars, happened, historyVars>>

\* Mutant: the mark is tried again until it succeeds.
MarkRetries ==
    /\ stage \in {"marking", "updating", "updated"}
    /\ stage' = "marking"
    /\ UNCHANGED <<starts, confirmed, subscription, streamVars, requested,
                   inbox, taskVars, tableVars, happened, historyVars>>

\* No connection in time, or an error from the database.  It is logged and
\* the shutdown goes on.  The statement may have taken effect, or still do so.
MarkFails ==
    /\ stage \in {"marking", "updating", "updated"}
    /\ stage' = "closing"
    /\ orphanMark' = (orphanMark \/ stage = "updating")
    /\ UNCHANGED <<starts, confirmed, subscription, streamVars, requested,
                   inbox, taskVars, rows, orphans, marked, happened,
                   historyVars>>

\* The process is gone, with its streams and tasks.  Statements it had given
\* to the database are still there.
ProcessEnds ==
    /\ stage' = "down"
    /\ subscription' = "none"
    /\ current' = NoConn
    /\ reading' = {}
    /\ serving' = {}
    /\ requested' = {}
    /\ inbox' = [c \in Conn |-> <<>>]
    /\ spawned' = {}
    /\ inserting' = {}
    /\ orphans' = orphans \cup inserting
    /\ dropped' = dropped \cup spawned

\* shutdown returns, run and main return, the runtime drops every task.
Exit ==
    /\ stage = "closing"
    /\ ProcessEnds
    /\ UNCHANGED <<starts, confirmed, rows, orphanMark, marked, happened,
                   dispatched, failed>>

\* A crash, or Ctrl+C before run listens for it.
Crash ==
    /\ stage # "down"
    /\ ProcessEnds
    /\ confirmed' = FALSE
    /\ orphanMark' = (orphanMark \/ stage = "updating")
    /\ UNCHANGED <<starts, rows, marked, happened, dispatched, failed>>

OrphanCommits(d) ==
    /\ d \in orphans
    /\ rows' = Inserted(d)
    /\ orphans' = orphans \ {d}
    /\ UNCHANGED <<programVars, streamVars, requested, inbox, taskVars,
                   orphanMark, marked, happened, historyVars>>

OrphanLost(d) ==
    /\ d \in orphans
    /\ orphans' = orphans \ {d}
    /\ dropped' = dropped \cup {d}
    /\ UNCHANGED <<programVars, streamVars, requested, inbox, taskVars, rows,
                   orphanMark, marked, happened, dispatched, failed>>

OrphanMarkEnds ==
    /\ orphanMark
    /\ orphanMark' = FALSE
    /\ \/ MarkRows
       \/ UNCHANGED <<rows, marked>>
    /\ UNCHANGED <<programVars, streamVars, requested, inbox, taskVars,
                   orphans, happened, historyVars>>

-----------------------------------------------------------------------------
(* The connection manager, the streams and the server.                     *)

StreamSame ==
    UNCHANGED <<programVars, taskVars, tableVars, happened, historyVars>>

\* Mutant: the first request carries what will be subscribed to.
OpenRequested(c) ==
    /\ stage # "down"
    /\ current = NoConn /\ c \notin reading
    /\ current' = c
    /\ reading' = reading \cup {c}
    /\ serving' = serving \cup {c}
    /\ requested' = requested \cup {c}
    /\ inbox' = [inbox EXCEPT ![c] = <<>>]
    /\ StreamSame

\* The request carries the filter once the subscription is registered.
OpenStream(c) ==
    /\ stage # "down"
    /\ Open(c)
    /\ inbox' = [inbox EXCEPT ![c] = <<>>]
    /\ StreamSame

LetStreamGo ==
    /\ LetGo
    /\ UNCHANGED inbox
    /\ StreamSame

\* The manager task applies the command.
ApplyCommand ==
    /\ Register
    /\ UNCHANGED <<stage, starts, confirmed, inbox, taskVars, tableVars,
                   happened, historyVars>>

\* ... and sends the new request on the stream it holds.
PushRequest ==
    /\ subscription = "registered"
    /\ current \notin requested
    /\ Ask
    /\ UNCHANGED inbox
    /\ StreamSame

\* The server puts an update on every stream that asks for it.
Send(u) ==
    /\ u \notin happened
    /\ Cardinality(happened) < MaxSent
    /\ happened' = happened \cup {u}
    /\ inbox' = [c \in Conn |-> IF c \in serving \cap requested
                                THEN Append(inbox[c], u) ELSE inbox[c]]
    /\ UNCHANGED <<programVars, streamVars, requested, taskVars, tableVars,
                   historyVars>>

\* The stream ends.  If it breaks, updates under way are lost.
StreamStops(c) ==
    /\ StopServing(c)
    /\ \/ UNCHANGED inbox
       \/ inbox' = [inbox EXCEPT ![c] = <<>>]
    /\ StreamSame

StreamTaskEnds(c) ==
    /\ inbox[c] = <<>>
    /\ EndTask(c)
    /\ UNCHANGED inbox
    /\ StreamSame

Read(c) ==
    /\ c \in reading
    /\ inbox[c] # <<>>
    /\ inbox' = [inbox EXCEPT ![c] = Tail(inbox[c])]

\* The subscription is in the registry and the update matches it: its handler
\* spawns a task and returns.
Dispatch(c) ==
    /\ Read(c)
    /\ subscription = "registered"
    /\ Head(inbox[c]) \in Matching
    /\ spawned' = spawned \cup {<<Head(inbox[c]), c>>}
    /\ dispatched' = dispatched \cup {<<Head(inbox[c]), c>>}
    /\ UNCHANGED <<programVars, streamVars, requested, inserting, tableVars,
                   happened, failed, dropped>>

\* No subscription wants it.
Skip(c) ==
    /\ Read(c)
    /\ ~(subscription = "registered" /\ Head(inbox[c]) \in Matching)
    /\ UNCHANGED feedVars
    /\ StreamSame

-----------------------------------------------------------------------------
(* The handler tasks.                                                      *)

HandlerSame ==
    UNCHANGED <<programVars, streamVars, requested, inbox, orphanMark, marked,
                happened, dispatched, dropped>>

\* Not read, not meeting the criteria, or without pool or mint.
HandlerReturns(d) ==
    /\ d \in spawned
    /\ d[1] \notin Wanted
    /\ spawned' = spawned \ {d}
    /\ UNCHANGED <<inserting, rows, orphans, failed>>
    /\ HandlerSame

\* Mutant: a task that finds every connection taken gives up.
InsertStartsOrNot(d) ==
    /\ d \in spawned
    /\ d[1] \in Wanted
    /\ inserting' = IF ConnectionFree THEN inserting \cup {d} ELSE inserting
    /\ spawned' = spawned \ {d}
    /\ UNCHANGED <<rows, orphans, failed>>
    /\ HandlerSame

InsertStarts(d) ==
    /\ d \in spawned
    /\ d[1] \in Wanted
    /\ ConnectionFree
    /\ spawned' = spawned \ {d}
    /\ inserting' = inserting \cup {d}
    /\ UNCHANGED <<rows, orphans, failed>>
    /\ HandlerSame

\* No connection in time.  A failure is logged, and nothing else.
AcquireFails(d) ==
    /\ d \in spawned
    /\ d[1] \in Wanted
    /\ spawned' = spawned \ {d}
    /\ failed' = failed \cup {d}
    /\ UNCHANGED <<inserting, rows, orphans>>
    /\ HandlerSame

InsertSucceeds(d) ==
    /\ d \in inserting
    /\ rows' = Inserted(d)
    /\ inserting' = inserting \ {d}
    /\ UNCHANGED <<spawned, orphans, failed>>
    /\ HandlerSame

\* Mutant: after an error the INSERT is tried again.
InsertRetries(d) ==
    /\ d \in inserting
    /\ inserting' = inserting \ {d}
    /\ orphans' = orphans \cup {d}
    /\ spawned' = spawned \cup {d}
    /\ UNCHANGED <<rows, failed>>
    /\ HandlerSame

\* An error, which does not say that the row is not there or will not be.
InsertFails(d) ==
    /\ d \in inserting
    /\ inserting' = inserting \ {d}
    /\ orphans' = orphans \cup {d}
    /\ failed' = failed \cup {d}
    /\ UNCHANGED <<spawned, rows>>
    /\ HandlerSame

-----------------------------------------------------------------------------
Program == Start \/ Setup \/ CtrlC \/ Exit \/ Crash

Mark == MarkStarts \/ MarkTakesEffect \/ MarkSucceeds \/ MarkFails

Handler(d) ==
    \/ HandlerReturns(d)
    \/ InsertStarts(d) \/ AcquireFails(d)
    \/ InsertSucceeds(d) \/ InsertFails(d)

Orphan(d) == OrphanCommits(d) \/ OrphanLost(d)

StreamTask(c) == Dispatch(c) \/ Skip(c) \/ StreamTaskEnds(c)

\* The program is down for good.
Finished ==
    /\ stage = "down"
    /\ starts = MaxStarts
    /\ UNCHANGED vars

Next ==
    \/ Program
    \/ Mark
    \/ ApplyCommand
    \/ PushRequest
    \/ LetStreamGo
    \/ \E c \in Conn : OpenStream(c) \/ StreamStops(c) \/ StreamTask(c)
    \/ \E u \in Update : Send(u)
    \/ \E d \in Delivery : Handler(d) \/ Orphan(d)
    \/ OrphanMarkEnds
    \/ Finished

Spec == Init /\ [][Next]_vars

\* Tasks that can run do run; whoever waits for a connection gets one or is
\* told that there is none; the database ends each statement, one way or the
\* other.  Nothing is assumed of users, streams, the server, or success.
Fairness ==
    /\ WF_vars(\E d \in Delivery : Handler(d))
    /\ WF_vars(\E d \in Delivery : Orphan(d))
    /\ WF_vars(Mark)
    /\ WF_vars(Exit)

FairSpec == Spec /\ Fairness

-----------------------------------------------------------------------------
(* Properties.                                                             *)

Row == [of : Delivery, active : BOOLEAN]

TypeOK ==
    /\ stage \in Stage
    /\ starts \in Nat
    /\ confirmed \in BOOLEAN
    /\ subscription \in {"none", "queued", "registered"}
    /\ current \in Conn \cup {NoConn}
    /\ reading \subseteq Conn
    /\ serving \subseteq Conn
    /\ requested \subseteq Conn
    /\ inbox \in [Conn -> Seq(Update)]
    /\ spawned \subseteq Delivery
    /\ inserting \subseteq Delivery
    /\ rows \in Seq(Row)
    /\ orphans \subseteq Delivery
    /\ orphanMark \in BOOLEAN
    /\ happened \subseteq Update
    /\ dispatched \subseteq Delivery
    /\ failed \subseteq Delivery
    /\ dropped \subseteq Delivery
    /\ marked \in Nat

Stored(d) == \E n \in DOMAIN rows : rows[n].of = d

\* Every row is of a transaction that the server sent, whose logs have
\* initialize2, that the migration key signed, that runs the program, and in
\* which a pump key is named: no crash, failure or restart leaves a row of
\* anything else, and the filter has not kept it from being read.
RowsAreMigrations ==
    \A n \in DOMAIN rows :
        LET tx == Content[rows[n].of[1]] IN
        /\ rows[n].of[1] \in happened
        /\ tx.initialize2
        /\ \E k \in DOMAIN tx.keys \cap 1..tx.signers :
                tx.keys[k] = MigrationPubkey
        /\ \E k \in DOMAIN tx.keys : tx.keys[k] = ProgramId
        /\ \E k \in DOMAIN tx.keys : tx.keys[k] \in PumpKey

\* One stream makes at most one row of an update, whatever fails and however
\* often the program is started.  Two rows of a transaction are therefore of two
\* streams that overlap, or of two updates.
OneRowPerDelivery ==
    \A m, n \in DOMAIN rows : rows[m].of = rows[n].of => m = n

\* An update that was given to the handler and meets the criteria is under
\* way, in the table, in the log as a failure, or was lost with the program:
\* a task that waits for a connection is never forgotten.
NothingForgotten ==
    \A d \in dispatched :
        d[1] \in Wanted =>
            \/ d \in spawned \cup inserting \cup orphans
            \/ Stored(d)
            \/ d \in failed \cup dropped

\* A row that a mark has met stays inactive, and a mark meets the rows of
\* every run before it: what a crash leaves active is not left for ever.
MarkedStayInactive ==
    /\ marked <= Len(rows)
    /\ \A n \in 1..marked : ~rows[n].active

\* No update of the filter arrives before the subscription can be found: the
\* registry is written before the request that asks for it is sent.
RegisteredBeforeCarried ==
    \A c \in Conn : inbox[c] # <<>> => subscription = "registered"

\* Ctrl+C ends the program, even if the database fails every statement.
CtrlCEndsProgram == stage = "marking" ~> stage = "down"

\* An update that meets the criteria comes to its row, or to a failure in the
\* log, unless it is lost with the program.
WantedSettles ==
    \A d \in Wanted \X Conn :
        d \in spawned ~> Stored(d) \/ d \in failed \cup dropped

\* What the outside sees of all this.  An update is decided on when it leaves
\* the handler task that has no database connection.
Table ==
    INSTANCE PoolTable
        WITH Item <- Delivery,
             Storable <- Wanted \X Conn,
             decided <- dispatched \ spawned,
             given <- inserting \cup orphans,
             table <- rows

\* The table changes by single INSERTs and by marks of all its rows only, and
\* an update is given to the database once at most, no matter which statements
\* fail without having failed, when the program ends, and what it finds when it
\* is started again.
ImplementsPoolTable == Table!TableSpec

\* "Mark all active pools as inactive": when the program has marked the pools
\* and ended, no pool is active.  Refuted by a run.
NoneActiveAfterShutdown ==
    stage = "down" /\ confirmed =>
        \A n \in DOMAIN rows : ~rows[n].active
==============================================================================
