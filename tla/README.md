# SteamHandler in TLA+

SteamHandler watches Solana transactions through a Yellowstone (Geyser) gRPC
stream and stores the Raydium V4 pools it sees in Postgres. This directory holds
TLA+ models of its core, the TLC configurations that check them and TLAPS proofs.
Line numbers refer to `src/connection/manager.rs` unless a file is named.

## 1. Inventory

| Component | State | Operations | Interacts with | Hard behaviour | What makes it correct |
|---|---|---|---|---|---|
| **Connection manager**, API (lines 54-133) | senders of the command channel and of the shutdown broadcast | `new`, `add_subscription`, `remove_subscription`, `remove_client_subscriptions`, `shutdown` | callers; commands over a bounded channel (100) | callers wait while it is full; a call may come after the task has ended | accepted commands are applied in order; shutdown ends everything |
| **Manager task** (136-409) | two registries under separate locks, the client, its request sink, `needs_update`, the command it handles | a `select!` over commands, stream events and the broadcast; connects at the head of the loop | server, registries, stream tasks | locks taken one after the other inside a handler; requests lost on dying streams; events of streams it no longer holds; not listening while it connects or sleeps | registries agree; the server works from what is registered; one connection; dead streams are noticed |
| **Backoff and circuit breaker** (148-238) | `consecutive_failures`, `last_attempt` | count a failure, sleep, wait for the breaker | the clock | arithmetic of `Duration`, two waits that overlap | failing attempts are spaced; retrying goes on |
| **Stream processor tasks** (489-572) | the stream | dispatch updates, report pings, errors and the end | manager task over a bounded channel (100), registry (read lock) | blocked reports; tasks that outlive their connection or the manager | the manager hears of the end; the task ends, and not before the server has stopped |
| **Subscriptions and requests** (`subscription.rs`, 455-486) | id counter; id, client, filter, handler | `apply_to_request`, `build_subscribe_request`, `matches_event` | | filters keyed by client | every registered filter is requested |
| **Dispatch** (575-593, `subscription.rs` 175-238) | - | `dispatch_event` | handlers | runs on every stream still read; a second, local filter | the subscription is there before its updates; the filter skips nothing that is wanted |
| **Orchestrator** (`orchestrator.rs`) | database, manager | set up the monitor; the handler task of an event; `run` until Ctrl+C | manager, database, monitor | tasks spawned per event against the final "mark inactive" | no event is forgotten; Ctrl+C ends the program; rows that were marked stay inactive |
| **Database** (`db.rs`) | table `liquidity_pools_v4`, a connection pool | `insert_pool`, `mark_all_pools_inactive` | Postgres | not idempotent, failures are only logged, statements outlive the program | one row per delivered update |
| **Raydium V4 monitor** (`monitors/raydium_v4.rs`) | ids to look for | extract pool, mint and signers from a transaction | - | indices out of range, early exits of two nested searches | the right pool and mint |
| **Program** (`main.rs`) | - | start, set up, run | all of the above | crash and restart | |
| RPC client, configuration | - | - | - | - | no behaviour of their own |

`PROJECT.json` lists under `hazards` what is hard to test in this code, each at
its line, with the properties that cover it.

The test files for the connection manager and the orchestrator
(`tests/connection_manager_tests.rs`, `tests/orchestrator_tests.rs`) are empty,
so the source and its comments are the only statement of what they should do.

## 2. Modules

```
Subscriptions        registries and requests as operators
  SubscriptionsProofs     lemmas about them
  SubscriptionLedger      abstract: what the API promises
Backoff              the arithmetic of backoff and breaker
ConnectionManager    EXTENDS Subscriptions, Backoff; refines SubscriptionLedger
  MCConnectionManager     instances for TLC
  ConnectionManagerProofs
RetryLoop            EXTENDS Backoff; reconnecting with a clock
  MCRetryLoop, RetryLoopProofs
  StreamProofs            the bound on abandoned streams
StreamLife           abstract: the life of the streams and of one subscription
SubscriptionFeed     EXTENDS ConnectionManager; refines StreamLife
  SubscriptionFeedProofs  that refinement
Transactions         what the program reads in an update, as operators
  TransactionsProofs      lemmas about them
PoolExtraction       EXTENDS Transactions; the search for pool and mint, step by step
  MCPoolExtraction, PoolExtractionProofs
PoolTable            abstract: what the program does to the table
EventPipeline        EXTENDS Transactions, StreamLife; update to row, start to exit;
                     refines PoolTable
  MCEventPipeline, EventPipelineProofs
```

`StreamLife` joins the two halves, as what one assumes and the other guarantees.
ConnectionManager is shown to implement it (SubscriptionFeed), and EventPipeline is
built from its actions: it opens, lets go, stops and ends streams, accepts and registers
the subscription and sends requests in every order the manager can, and in no other,
without repeating commands, registries and events. `PoolOf`, `MintOf` and `Wants` of
Transactions join the other two: PoolExtraction is shown to compute the first two,
and EventPipeline stores what `Wants` wants.

### Subscriptions

A subscription is its id. Ids are unique (`NEXT_SUB_ID`), and client, kind and
filter are fixed when it is built, so `ClientOf` and `KindOf` are constants.
`IndexInsert`, `IndexRemove`, `IndexDrop` and `IndexLookup` are what the code does
to `client_subscriptions` under one lock. `BuildSubscribeRequest` is the set of
requests the code can build: every filter goes into the slot of its kind and
client, later ones replace earlier ones, and the order of a `HashMap` is anyone's.

### ConnectionManager

| Variable | Code |
|---|---|
| `created`, `caller` | arguments not yet given to `add_subscription`; how far `shutdown()` has come, of which the program makes one call |
| `commands`, `events`, `signal` | `command_rx`, `stream_event_rx`, `shutdown_rx` |
| `subscriptions`, `client_subscriptions` | the two maps behind `RwLock`s |
| `pc`, `cmd`, `ids` | the await the manager task stands at, the command it handles, `sub_ids_to_remove` |
| `client`, `subscribe_tx`, `needs_update`, `failures` | the locals of the task |
| `proc`, `link`, `request` | per stream: the task that reads it, what the server does with it, the request the server has |
| `faults` | bound on failing links |

The code between two awaits is one action where nobody can interfere: each handler
is cut at each lock (`ReceiveRemove`, then `UnindexRemoved`;
`ReceiveRemoveClient`, `DropSubscriptions`, `DropClient`), then `Push` is the update
of lines 331-348. `connect_and_subscribe` is one action: only the manager task
writes the registries and it is the one that waits, so it does not matter when
during the attempt the request is built. A failed attempt includes its sleep; what
can happen meanwhile (callers, streams, links) happens between two such actions.
`ConnectPanics` is the attempt whose backoff overflows.

Sending on a bounded channel is guarded by its capacity and fails when the receiver
is gone. A stream task in the state `"closing"` has sent its error and not yet its
end. Ending the task drops the receivers with all they hold, the client and the sink.

What stands outside the repository, and what is assumed of it:

- The request sink of the library is unbounded: a send never waits, and it fails
  only when the stream is dead, which may not show at once (`PushSucceeds` on a
  link that is not up loses the request).
- A link fails with an error or by the plain end of the stream (`LinkFails`).
- The server ends a stream, cleanly, once its request side is dropped
  (`ServerCloses`). If it did so with an error, every abandoned stream would send
  two events and `AbandonedStreamsBounded` would not hold.
- A request that carries a ping only leaves the filters as they are.

Left out: the updates themselves and their dispatch (EventPipeline has them), the branch `else`
of the `select!` (the task holds a sender of its own event channel, so it is never
taken), and the validation of the arguments of `new`.

The stream that is opened next is any stream that nobody reads or holds; a `CHOOSE`
among them is enough because they do not differ. `NoStepHidden` of StreamProofs shows
that `2 * MaxFaults + 1` streams always leave one to open, so the bound on `Conn`
hides nothing in the passing runs.

### SubscriptionLedger

The promise to callers: commands accepted, applied one at a time and in order to a
single set, until the manager stops. `ConnectionManager` refines it with
`pending <- InHandler \o commands`: a removal of a client is pending until the step
that changes the registry, one step longer than it is in the channel.

### StreamLife and SubscriptionFeed

What readers of the streams can count on: a stream is opened only while none is held,
it goes on being read after it was let go, and its task ends only when the server has
stopped serving it. A subscription is accepted, registered and removed, once and in this
order; each request, on a new stream or on the one that is held, carries it if and only
if it is registered when the request goes out.

`SubscriptionFeed` is ConnectionManager seen by those who read the updates of one
subscription `Sub`: `current <- client`, the streams with a task for `reading`, those
with an `"up"` link for `serving`, those whose request has `Sub` for `requested`, and
`Life` for how far `Sub` has come, read off `created`, the command channel and the
registry. `Sub` is any subscription that shares its slot in the request with no other:
for one that does, `same_slot` shows that the promise would not hold. The program has one
subscription, so it is such a `Sub`.

### PoolTable

The table as a reader of it sees it: for each update it is decided once whether an
INSERT is given to the database, the database does each INSERT once or never, and besides
these new rows only marks of all rows change the table. There are no tasks, streams,
crashes or restarts in it. EventPipeline refines it with what has left the handler tasks
without a database connection for `decided`, and the statements of handlers and orphans
for `given`.

### Backoff and RetryLoop

`RetryLoop` adds the clock, in seconds: `elapsed` since the last attempt began and
`outage` since the first failed one. Attempts take any time in `AttemptTime`, up to
`LongestAttempt` (30 s for the connection and 30 s for the subscribe request, lines 425
and 426; the 60 s of line 441 never run out before), and sleeps end late by any
time in `Oversleep`, up to `LongestOversleep`. `Spacing` and `LongestGap` are the least
and the longest time between the starts of two attempts. `BackoffPanics` is the overflow of
`Duration::mul_f64` at line 227: `DurationBits` is 64 in the code.

### Transactions

An update is a record of what the program looks at: keys, the number of signers,
top-level instructions (the index of the program, the indices of the accounts), the
account indices of inner instructions, and whether a log line contains `initialize2`.
A key is a model value; `PumpKey` are those whose base58 form ends in "pump". Indices
start at 0 as in the code and may be out of range.

`MatchesTransaction` is the local filter, `PoolOf` and `MintOf` say without loops what
the monitor extracts, `PoolEvent` is `process_transaction`, and `Wants` the handler's
decision to insert.

### PoolExtraction

`extract_pool_address_mint_and_signers` with its two searches, one instruction to a
step: `at` and `within` are the loop positions, `phase` the loop that is running, and
each `continue` and `break` an action or a branch of one.

### EventPipeline

| Variable | Code |
|---|---|
| `stage`, `starts`, `confirmed` | where `main` and `run` stand, how often the program was started, whether its `mark_all_pools_inactive` returned `Ok` |
| `subscription` | the subscription on its way into the registry |
| `current`, `reading`, `serving` | the streams, as in StreamLife |
| `requested`, `inbox` | per stream: its request carries the filter; updates sent and not yet read |
| `spawned`, `inserting` | handler tasks before and during their INSERT |
| `rows` | the table: for each row the update it is of, and `is_active` |
| `orphans`, `orphanMark` | statements Postgres was given whose caller has gone or was told of an error |
| `happened`, `dispatched`, `failed`, `dropped`, `marked` | history |

A statement holds one of `MaxConnections` connections while it runs. It may succeed,
or fail to get a connection, or fail after Postgres was given it, and then it may
still take effect. `MarkFails` and `InsertFails` are that last case. A crash is
possible at every point; it drops the tasks and the streams and leaves the table and
the orphans. `Exit` does the same at the end of a shutdown, as the runtime drops its
tasks when `main` returns. Ctrl+C before `run` waits for it kills the process, so it
is a `Crash` as well.

The handlers do not change the streams, so the manager's event channel is left to
ConnectionManager. `shutdown()` of the manager is part of `Exit`: no more than one
other command is in its channel of 100, so the call returns at once.

An update is one message of the server and `Content` the transaction in it. With
commitment `Processed` (line 481 of the manager) the server may send a transaction again:
that is another update with the same content.

`OneRowPerDelivery` counts the rows of one update on one stream. It does not promise one
row of a transaction, as the code does not: an update that goes out while two streams
ask for it makes a row on each, and a transaction that is sent again makes another.
What is shown of such doubles is where they come from: `ConnectionIsKept`, that streams do
not overlap before a link has failed; `AbandonedStreamsBounded`, that few do afterwards;
`OneRowPerDelivery`, that failures, crashes and restarts add none.

Updates of other kinds reach no subscription of this program, and are left out, as are
the signature and the timestamp of a row.

## 3. Runs

| Run | What it asks | Result |
|---|---|---|
| `registry` | two clients, three subscriptions (two share client and kind), three commands in the channel, shutdown and panic at any time: registries consistent, ledger implemented, the connection kept as no link fails | holds, 446,084 states |
| `streams` | two failing links, five streams, two events in the channel, one subscription added and removed: server in sync, one connection, dead streams noticed, abandoned streams bounded | holds, 2,472,853 states |
| `live` | progress, with one failing link and `shutdown()` called at any time or never: an accepted subscription that is not removed again reaches the server, dead streams are let go, `shutdown()` returns, the manager task and the stream tasks end; StreamLife implemented, for the streams and the subscription | holds, 39,518 states |
| `retry` | all outages of 65 failures, attempts of 0, 30 or 60 s, sleeps late by 0 or 1 s: least and longest time between attempts, load, time to the overflow | holds, 296,160 states |
| `extraction` | all transactions of up to two top-level instructions and two groups of two inner ones, with lists that are empty, short, out of range or name pump keys in several places: the searches find pool and mint, the filter keeps every update with a pool | holds, 629,102 states |
| `pipeline` | two streams, one database connection, two starts, three kinds of update (wanted; matching and unwanted; not matching): what becomes of updates and rows, through failing statements, Ctrl+C and crashes; PoolTable implemented | holds, 167,984 states |
| `stale_close` | a connection is dropped for its own end only | **violated** |
| `same_slot` | the request carries every registered subscription | **violated** |
| `shutdown_unserved` | `shutdown()` is served whatever the server does | **violated** |
| `retry_limit` | no attempt after five minutes of outage | **violated** |
| `retry_panic` | every failure is followed by the wait for the next attempt | **violated** |
| `active_after_shutdown` | no pool is active when the program has marked them and ended | **violated** |

The violated properties are quoted from comments, docs and the log of the code; the
findings in `PROJECT.json` give both sides.

- **Stale close.** Stream events do not name their connection. A failing stream sends
  an error and then its end. The error makes the manager reconnect; the end then hits
  the new connection, which is dropped though it works. Dropping it makes its stream
  end, and that event hits the next one: after one failure of the network the manager
  may go on reconnecting without any further failure, and without delay, as each
  connect succeeds. `AbandonedStreamsBounded` shows how far this goes: at most two
  superfluous streams at a time per failure, but no end to it.
- **Same slot.** Filters are keyed by client, so a second subscription of the same
  client and kind replaces the first in the request, or the first the second.
- **Shutdown while the server is away.** The task serves nothing while it connects
  and sleeps. The counterexample ends in the panic below, hours later.
- **Five minutes.** `max_elapsed_time` is never read.
- **Panic.** The backoff is computed before it is capped. `PanicTakesHours` gives the
  other side: it needs an outage of at least 20,681 s, 5 h 44 min.

- **Active after shutdown.** The mark is one statement at the start of the shutdown.
  Streams are still read and handlers still spawned after it, and an INSERT that was
  given to Postgres commits even after the exit. Only the next shutdown marks those
  rows: `MarkedStayInactive` shows that its mark reaches them and stays.

Met on the way, and not the subject of a run:

- The comment at `monitors/raydium_v4.rs:138` says that a missing transaction gives
  "Ok with empties"; the code returns an error, and the handler logs it.
- The comment at `connection/subscription.rs:83` says that a cloned handler panics;
  it logs and returns Ok.
- `filter_initialize2`, `filter_specific_signer` and `commitment_level` are read from
  the settings and then used nowhere; the handler applies both filters always.
- `matches_transaction` does not look at `failed` and `vote`: for those it relies on
  the server.

### Bounds

| Bound | Value | Why it is enough |
|---|---|---|
| `CommandCap` | 3 in `registry`, else 1 | 3 lets an add, a remove and a removal of the client queue up and a shutdown overtake them; 1 makes the channel full at once, which is what the other runs are about |
| `EventCap` | 1 or 2 | full after one or two pings, so errors and ends have to wait; 2 lets an error and a stale end be queued together |
| `MaxFaults` | 0, 1, 2 | none where links do not matter; 2 lets a failure meet the leftovers of another |
| `Conn` | 1 to 5 | `2 * MaxFaults + 1` at least in the passing runs: `NoStepHidden` proves that this hides nothing |
| `Sub` | the only subscription of `live` | `ImplementsStreamLife` is checked there with repeated removals, and proved for any number of others; the other runs do not look at `Sub` |
| `LongestAttempt`, `LongestOversleep` | 60, 1 in `retry`; 0 elsewhere | the largest of `AttemptTime` and `Oversleep` |
| `SubId`, `Client`, `Kind` | 3, 2, 2 in `registry`; 1 elsewhere | shared and distinct slots, a client losing its last and not its last subscription |
| `DurationBits` | 1 in most runs of ConnectionManager; 64 in `shutdown_unserved` and RetryLoop | with 1 the second failure in a row panics, so the panic is met everywhere; the count matters for nothing else there |
| `Update`, `Content`, `MaxSent` | in `pipeline` three kinds of update, one of which is sent; in `extraction` all combinations of the lists in MCPoolExtraction | what happens to one update does not depend on others but through the connections to the database, which two deliveries of one update compete for |
| `Conn` in `pipeline` | 2 | two streams that overlap deliver an update twice |
| `MaxConnections` | 1 | the deliveries and the mark compete for it at once |
| `MaxStarts` | 2, and 1 in `active_after_shutdown` | rows and statements of one run meet the next |

Subscriptions are added once each, as the API takes them by value. Removals may
repeat for ever.

### Fairness

`SchedulerFairness` is what tokio gives. A task that can go on does
(`WF` on connecting, `Push`, the broadcast). `select!` polls its branches from a
random start, so a branch that is ready again and again is taken (`SF` on commands
and events). Senders that wait for room are served in order, so a sender waiting on a
channel that is emptied again and again gets its turn (`SF` on `SendShutdown` and on
the reports of the stream tasks). Callers and pings are not fair.
`ServerFairness` says that the server ends a stream nobody requests any more;
`ServerReachable`, that a manager that keeps trying to connect gets through or
panics. `shutdown_unserved` drops the last one.

In EventPipeline, `Fairness` is that handler tasks that can go on do, that whoever
waits for a database connection gets one or the timeout of the pool (30 s in sqlx), that
Postgres or the network ends each statement one way or the other, and that the end of
`run` is reached once nothing blocks it. Success is never assumed, nor is anything of
users, streams or the server. `WantedSettles` therefore promises a row or a logged
failure, not a row.

## 4. Mutants

Each property of a passing run has a mutant in `PROJECT.json`: a plausible bug of the
code (`try_send` for `send`, a forgotten `needs_update`, an index entry left empty, an
update that reconnects, a breaker stopped at the cap, a breaker that waits its whole time
after the backoff, an error that is not noticed, a
stream left at an empty update, a search that misses its `break`, a filter that looks
at the signers, either criterion instead of both, an INSERT or an UPDATE tried again
after an error, an upsert, a task that gives up when all connections are taken)
under which TLC finds the property violated. The mutated forms stand before the
definitions they replace, marked "Mutant".

## 5. Proofs

TLC checks small instances; the theorems hold for every value of the constants that
meets the named assumptions: `SubscriptionAssumption` (clients and kinds are functions
of the id), `BackoffAssumption` (a positive width), `ManagerAssumption` (positive
capacities, `NoConn` is no connection), `RetryAssumption` (times are naturals within
their bounds), `SubAssumption` (`Sub` has a slot of its own),
`TransactionAssumption` (what the settings name are keys), `ExtractionAssumption` and
`PipelineAssumption` (updates are updates, at least one database connection).

**ConnectionManagerProofs.** The properties speak of the places where nothing is half
done, and are not inductive. `IInv` extends each to the middle of the handlers:

- `HandlerInv`: what the index is at each lock. After the add of line 253 it is the
  index of the registry without the new id, in the middle of a remove that of the
  registry with the removed id, in the middle of a removal of a client that of the
  registry with the copied ids; and the copied ids are exactly the client's.
- `HoldsConnection`: where the task holds a connection, and where no update is due.
- `RequestInv`: whenever no update is due and no single id is being handled, the
  request of the server is of the registry as it was before the handler.
- `DeadStreamNoticed` is inductive with the types and the fact that an ended task
  holds no connection.

`HandlerSteps` splits `[Next]_vars` into the seven steps that touch the registries and
a quiet rest; the lemmas `IndexInsertCorrect`, `IndexRemoveCorrect`, `IndexDropCorrect`
and `IndexLookupCorrect` of SubscriptionsProofs carry each of the seven. From
`Spec => []IInv` follow `TypeCorrect`, `RegistryCorrect`, `ServerIsInSync`,
`ConnectionIsOne` and `DeadStreamIsNoticed`. `ManagerImplementsLedger` maps each step
to `Accept`, `Apply`, `Stop` or a stutter; `DropRefines` is the step that needs the
invariant, since the ids it removes were copied two steps earlier.

**RetryLoopProofs.** `Accounted` says how much of the outage is accounted for before
the last attempt began. `LeastOutageStep` adds the spacing of one more failure,
`BreakerCompletesSpacing` shows that backoff and breaker make up that spacing together,
and `BreakerWaitsNoLonger` that they do not wait longer than the longer of the two and one
late sleep. Both come from the bounds of `Accounted` on `elapsed` before the breaker, and
give `SpacingHolds` and `RetriesAreInTime`.

**StreamProofs.** `AbandonedStreamsAreBounded` counts what is owed: `Failing` are tasks
with an error to report, `Owing` tasks with an end to report without a further failure, `Alarms` the reports in the channel. `DebtInv` says
that their number together is at most twice the failures. A failing link adds two, a
report moves one from a task to the channel, taking it from the channel moves it to the
healthy stream that is let go for it; nothing else adds. The abandoned streams are
among `Owing`. The bound is stated while the task runs, since its end abandons one
stream without any failure. The count needs that a stream the server serves has a task
that has reported nothing (`ServedIsRead`). From it follows `NoStepHidden`: with more than
`2 * MaxFaults` identities of streams one is free whenever the manager connects, so the
guard `Unused # {}` of `ConnectSucceeds`, which the code does not have, is never false.
From it follows too that the stale close needs a failure to begin with: while none has
happened nothing is owed, so the stream the manager holds is served and no report but
pings is in the channel (`HeldIsServed`), and none of the steps that let go of a
connection can be taken (`ConnectionIsKept`).

**SubscriptionFeedProofs.** `ManagerImplementsStreamLife` maps each step of the manager to
a step of StreamLife or a stutter. `OnePlace` is its invariant: the subscription is with
its caller, in the channel once, or in the registry, never in two of them; without it a
removal would leave a second one behind and the subscription would come back.
`QueuedAfterSend` and `QueuedAfterReceive` carry it through the channel;
`RequestCarries` says that nobody takes its slot in a request, and `ServedIsRead` that
what goes out on the stream that is held goes to a task that reads.

**TransactionsProofs, PoolExtractionProofs.** The lemmas say that whatever is found is a
key in range, and what the least telling instruction gives. `Progress` says that no
instruction before the loop positions is telling, so the first hit is the least one.
`SearchesAreCorrect` and `FilterNeverSkipsPools` hold for transactions of any size.

**EventPipelineProofs.** A delivery is in one place at a time. `Travels`: an inbox holds
an update once, and never one that its stream has delivered. `Places`: a delivery is
spawned, inserting, an orphan or in the table, one of these at most, and was dispatched.
`Chosen`: what reaches the database is wanted. `Asked`: a stream asks for updates only
when the subscription is registered. With the properties themselves these are inductive,
and give `RowsAreMigrationsAlways` (with `WantedIsMigration` of TransactionsProofs),
`OneRowPerDeliveryAlways`, `NothingForgottenAlways`, `MarkedStayInactiveAlways` and
`RegisteredBeforeCarriedAlways`, for any number of streams, updates, starts and
connections. `PipelineImplementsPoolTable` follows from `Places` and `Travels`: a delivery
that was decided on is not dispatched again, and a failing statement or the end of the
program hands its INSERT to the orphans without giving it anew.

Only model-checked: liveness (`AddedReachesServer`, `DeadStreamReplaced`,
`ShutdownCompletes`, `StreamTasksEnd`, `CtrlCEndsProgram`, `WantedSettles`), which is out
of the prover's reach. Every invariant, action property and refinement of the passing
runs is proved.

## 6. Not modelled

- The Helius client (`connection/rpc.rs`): nothing uses it.
- The configuration (`config.rs`): a record read from a file. The values the behaviour
  depends on are constants.
- TLS and timeouts inside `connect_and_subscribe`: an attempt succeeds or fails after
  some time. Logging. The clone of a handler: nothing calls it.
- Subscriptions of other kinds than transactions in the pipeline: the program makes one
  subscription, of transactions. The manager is modelled for all kinds.
- Updates that are sent while no stream asks for them are lost, as in the code
  (`from_slot` is `None`, line 484); no property speaks of them.
- The bound on tasks waiting for a database connection: the program sets none.

## 7. Plan

1. **Done.** Core: Subscriptions, ConnectionManager, SubscriptionLedger, Backoff,
   RetryLoop. StreamLife and StreamProofs. Transactions, PoolExtraction and
   EventPipeline, their runs and theorems.
2. **Done.** The joint of the two halves as a refinement of streams and subscription
   (SubscriptionFeed), PoolTable and its refinement, the longest time between two
   attempts, the theorems that the finite set of streams hides nothing and that no
   connection is given up before a link has failed.
3. **Next.** The safety behind the liveness properties: that each step towards them is
   never undone (a stream task never comes back once the manager task has ended, a
   delivery never returns to a place it has left, the count of what a call of
   `shutdown()` waits for never grows). What PoolTable and StreamLife imply by
   themselves, so that a reader of the table need not look at EventPipeline.
