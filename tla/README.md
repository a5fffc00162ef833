# A verification project for congruent

TLA+ models of the concurrent core of this Matrix homeserver, checked with TLC on
small instances, with theorems about all six models that TLAPS proves for every
value of the constants. All paths are relative to the root of the repository, with the
code under `src/`; `PROJECT.json` maps each definition to its lines.

## The system

The server (Rust, on tokio) receives *transactions* from other servers, applies their
events (PDUs) to its rooms and their ephemeral messages (EDUs) to its users, answers the
requests of clients, and sends what its own users do to the other servers.

| Part | Source (`src/src/`) | Modules |
|---|---|---|
| Inbound transactions | `api/server/send.rs`, `service/transactions/mod.rs` | `InboundTxns`, `InboundTxnsProofs` |
| Federation sender | `service/sending/{mod,sender,data}.rs` | `FederationSender`, `Outbox`, `FederationSenderProofs`, `FederationSenderAborts`, `FederationSenderOutbox` |
| Reconciliation of rooms with peers | `service/rooms/reconcile/` | `ReconcileQueue`, `ReconcileQueueProofs` |
| Per-key locks | `core/utils/mutex_map.rs` | `MutexMap`, `MutexMapProofs` |
| Partial state and its resync | `service/rooms/state_partial/` | `PartialState`, `PartialStateProofs` |
| Delayed events | `service/rooms/delayed_events/` | `DelayedEvents`, `DelayedEventsProofs` |
| Event handler, timeline, room state | `service/rooms/{event_handler,timeline,state}/` | in part: extremities and appends in `PartialState`, the sending of an event in `DelayedEvents` |
| Inbound EDU handlers | `api/server/send.rs` | in part: deferred device-list updates in `PartialState` |
| State cache, state resolution | `service/rooms/{state_cache,state_hamt,state_accessor}/` | no |
| Global counter, EDU barrier, sync windows | `service/globals/`, `api/client/sync/` | no |
| Service manager, restarts, shutdown | `service/manager.rs`, `core/server.rs` | no: crash and shutdown are actions of the models |
| Other room services, users, devices, keys | `service/rooms/*`, `service/users/`, `service/key_backups/` | no |
| Server keys, resolver, HTTP client, media, push, mail | `service/*` | no: cryptography and I/O |
| Database engine | `database/`, `mtxdb/` | no: a write is an atomic step |
| Routes, admin commands, router, web, macros, entry point | `api/`, `admin/`, `router/`, `web/`, `macros/`, `main/` | no: validation, formatting, start-up |

How the modelled parts meet: an inbound transaction that touches a room asks the
reconciliation for an exchange (a trigger of `ReconcileQueue`); the sender of one server
talks to the inbound side of another, which recognises a repeated transaction by its
id; the per-key locks serialise aborts of a
destination, the work on a room and claims of one-time keys. A partial room marks the
events appended to it until its resync has re-authorised them. The models are separate;
each represents its neighbours by their outcomes.

## The models

### ReconcileQueue

The scheduling state of `service/rooms/reconcile/queue.rs`, one pair (room, peer) per key.
A Rust `Entry` is spread over sets (`tracked`, `queued`, `in_flight`, `dirty`,
`retry_pending`) and functions of the key; `ready` is the deque. Instants are
the time left until them, and `Tick` is the clock. Each method is an action with the
same name; `enqueue` is the disjunction of its returns (`Coalesce`, `RefuseBackingOff`,
`QueueIdle`, `QueueNew`, `QueueNewEvicting`, `RefuseQueueFull`). The tie of
`min_by_key` in `evict_idle` over a hash map is a choice. `asked` is history: the
non-periodic triggers accepted since the pair last started.

### FederationSender and Outbox

One federation destination: the three tables (`queued`, `active`, `reliable`), the
worker of its shard, the futures on the wire, the admin commands. The worker is
one sequential task; its handlers are cut at the awaits where another task can change
what they read, and `at` is the point it stands at. A section under the abort gate is one
step. `channel` is its queue of messages, `timers` the
scheduled flushes, `status`/`tries`/`waiting` the entry of the destination in
`CurTransactionStatus`. A future goes through `Built`, `OnWire`, `Processed` and `Ok` or
`Err`: the remote server may process a transaction whose answer is then lost. An abort
raises `epoch`, waits for the worker (or, with `AckTimeout`, gives up waiting) and clears
the tables. A crash or shutdown loses everything except the tables; `startup_netburst`
reads them again.

`Outbox` is what the sender promises: an at-least-once queue. A row is pending from
acceptance until it was delivered or dropped on purpose. `ImplementsOutbox` maps
the three tables together to the pending rows.

Not in this model: the choice of EDUs by the per-server cursor (a future may carry EDUs,
by choice), appservice and push destinations, `wait_for_pdu_servers`, clearing all
destinations at once.

### MutexMap

One key of the map. Taking a reference (`CloneEntry`) and removing the entry are atomic,
under the lock of the map; `Guard::drop` is cut into reading the count, removing,
unlocking and releasing the reference, as the code reads `strong_count` outside that lock, and
other tasks may run between any two of these. `raced` is history: a task took a reference
between the count and the removal of another, and since then the key was never idle.

### InboundTxns

The `/send` route, `get_or_start_federation_txn`, the task of a transaction, the
wait with its 50 second timeout, and the cache of responses with its clean-up. A task has
its items not begun (`todo`) and the PDUs inside `handle_incoming_pdu` (`inhand`); PDUs
and EDUs are processed concurrently, in any order. What one item does is an outcome:
processed (accepted or refused), a local failure, a panic. A PDU of a room that is not known
here gets its verdict before the server is asked whether it is running. The EDUs of a rejected
transaction have a task of their own, which may panic too. `running` is
`server.running()`; its change in the middle of a transaction is an action. The clean-up sorts
the responses by age, those of the same time in any order; `cleared` is history: the keys whose
response an administrator removed.

### PartialState

One room joined with partial state. On disk: the marker, the marks and rows of what was
appended meanwhile, the extremities, the timeline and the current state (the set of events
it reflects). In memory: the state lock, the signal channel, the task of the resync with
its locals (`pc` is where it stands), a waiting client, a device-list update. An append is
cut where a crash or an error matters: extremities and mark, timeline and state, sending,
recording whom it was sent to. A received event is judged before that, without the lock
(`judge_event`): when the room is partial then, and no longer when the event is appended, it is
`late`. A device-list update is deferred in three steps (partial rooms, known rooms, the
deferral), and is `Late` when the task has taken the deferred ones by the last. The walk
(`reauth_window`) is made without the lock and the install under it; `has_drifted` looks
again before the markers go. `unverified`, `full`, `told` and `narrow` record what has
happened. What a server answers, and whether an event is authorised, are outcomes; an error
of an operation that the code checks is an alternative, bounded by `FailMax`.

### DelayedEvents

The two tables, the set of scheduled ids (`held`), the channel and the queue of the worker.
Requests and the worker are processes; `at` is where one stands between two accesses to
the tables or the set. Whoever takes the id out of the set owns the event. A request may be
dropped at an await, an append may fail before or after the event is in the room, and a
crash loses all memory. Two history sets name the events about which the code promises
less: `stale`, whose row or id came back after the event was taken, and `left`, for
which neither timer nor set entry stands until a restart.

## What is checked

Twelve runs; `PROJECT.json` lists the properties of each. Every property of a passing run
has a mutant, a definition marked `Mutant` before the one it changes, under which it fails.

| Run | Shows |
|---|---|
| `reconcile_queue` | The deque and the flags agree, the limits hold, no accepted trigger is lost; failed pairs are retried, triggers served, and a full queue has room again and again. |
| `sender_abort` | Abort, resume, clear and the retry limit with its detached clean-up, against producers, worker and futures: `BusyIsBacked`, `WaitingIsWoken`, `OneTransaction`, `AbortLeavesNothing`, `OldWorkStaysDead`. Safety only. |
| `sender_crash` | Crash or shutdown anywhere, failing requests, an unreadable PDU: the sender implements `Outbox`, reliable rows keep their source, every row settles. |
| `mutex_map` | In any interleaving in which no task meets the entry between count and removal, a key is held once, by the mutex in the map; waiters are served in every one. |
| `inbound` | No transaction is processed twice at once or stays active without a task; the limits hold; success means everything was processed; an answered transaction is forgotten only for a cause. |
| `inbound_live` | With panics and shutdown every waiter is answered, and the EDUs of rejected transactions are processed unless their task panics. |
| `partial_state` | Resync against appends, failures, giving up and a restart: markers go only from a room with full state whose marked events are re-authorised; an install overwrites nothing; new servers get what was recorded for them; updates deferred in time surface; waiting clients return. |
| `delayed_events` | Timer, send, cancel, restart, dropped requests and a crash: an event is finalised once, answers are true, no event is in neither table, every event settles. |

Four runs show that the code does not do what a comment beside it says. Each has a finding
in `PROJECT.json` with the quoted line.

| Run | Disagreement |
|---|---|
| `reconcile_explicit_backoff` | An explicit request followed by another trigger during the same exchange, or meeting a pair that is queued in backoff, does not override the backoff. |
| `sender_limit_reliable` | A transaction that succeeds before the detached clean-up of the retry limit deletes the source rows of reliable EDUs that were not delivered. |
| `mutex_map_parallel` | The reference count is read before the map is locked, so with several threads two tasks can hold one key. |
| `inbound_panic` | A panic in the task of a transaction leaves its key Active until a restart. |

### Bounds

- `ReconcileQueue`: three pairs over two rooms and two peers, two tracked slots (so
  eviction and refusal happen), two exchanges at once and one per peer (so both limits
  bind), two non-periodic triggers (one may land during the exchange of another, or on
  another pair), one truncated exchange, backoffs of one and two ticks. `CounterMax` is
  the count at which the failure delay stops growing. Periodic triggers are not bounded.
- `FederationSender`: an ordinary and a reliable EDU, one abort, one clear or one flush
  (`OneCommand`) and a retry limit of two where aborts are studied; that run checks safety
  only, so the constraint hides nothing but the states with both commands, and without it
  TLC finds no error either (3.8 million states). Two PDUs, one unreadable, a reliable EDU
  and one crash for crashes. `DequeueLimit` 2. Failures repeat without bound, counted up to
  `TriesMax`. `startup_netburst` is on and `startup_netburst_keep` above the number of rows.
- `MutexMap`: three tasks (holder, waiter, newcomer) and four generations of the mutex.
- `InboundTxns`: three requests for three transactions of two origins, a PDU and an EDU in
  most of them, shared items, and a cache of one entry; with liveness two requests for two
  transactions, with the overall limit at one. A request is one HTTP request, so a retry
  is another request for the same key. Requests are symmetric in the safety run only.
- `PartialState`: one join, a local and a received event, two failures of which one may be
  a crash, two walks per attempt. This has appends before, during and after walk and install. With
  `Remote = {r1, o1}` and `Old = {o1}` (an event no deeper than the anchor) the invariants
  also hold; that instance is too large for the liveness property and is not a run.
- `DelayedEvents`: one event, two requests at a time, a delay of one, a clock up to two (which
  also bounds how often a timer is set back) and one crash. Events do not interact.

Deadlock is not checked where the budgets or the requests run out and the system may
rest; `ReconcileQueue` has it on.

### Fairness

- `ReconcileQueue`: time passes, the worker loop wakes at least once a second, and every
  exchange ends: its requests time out, and a panic is caught and recorded as a failure
  (`reconcile/mod.rs`). Nothing is assumed about triggers.
- `FederationSender`: the worker's `select!` is unbiased, so neither messages nor results
  starve (strong fairness on each branch); timers fire; spawned clean-ups run; and a
  remote server that is asked again and again processes a request and answers it in the end.
  The last is an assumption about the other server: without it nothing can be delivered.
- `MutexMap`: guards are dropped, and tokio's mutex serves its waiters in order. The model
  keeps no queue and states this as strong fairness of `acquire`.
- `InboundTxns`: the runtime runs every task and every waiter that is ready. The 50 second
  timeout is *not* assumed to fire, so `WaiterAnswered` does not rest on it.
- `PartialState`: a task that was spawned runs, an append that has begun goes on, signals are
  received, a client that is woken looks again. Failures are bounded, not unfair.
- `DelayedEvents`: the worker and each request run, and time passes.

## What is proved

All theorems hold for every value of the constants that satisfies the named assumption of
the module (finite sets, limits that are natural numbers); they are safety properties.

- **`ReconcileQueueProofs`.** `QueueConsistent` proves `TypeOK /\ ReadyMatchesQueued` as one
  inductive invariant: forgetting a finished pair is type-correct only because a running
  pair is never queued (`QueueTypes` states the first conjunct alone). The heart is that
  `requeue_due_retries` appends a sequence of distinct pairs none of which is in the deque,
  and that `next_ready` removes one position. On top of it: `LimitsHold` (only `next_ready`
  adds to `in_flight`), `TrackingStaysBounded` and `TriggersAreKept`.
- **`MutexMapProofs`.** `ExclusionHolds` and `MappedHolds`, for any finite set of tasks in any
  interleaving, while the key has not been raced for. The invariant says that, until then,
  whoever waits or holds refers to the mutex in the map, and that a task removes the entry
  only when every other one is idle or past its own removal; the lemma `CountedAlone`
  derives that from the reference count. After a race it is false (`mutex_map_parallel`).
- **`InboundTxnsProofs`.** `Linked` ties entries, tasks and requests together: a task at work
  has an Active entry that names it, and the reverse. `AtMostOneTask` follows at once.
  `ActiveBacked` (assuming no task panics; false otherwise, see `inbound_panic`) and
  `AckAfterCommit` are proved over it; the latter needs `Committed`, which says where
  each unprocessed item of a task is. It assumes nothing: panics, retries and
  clean-ups are included, and the property speaks of the time before the server stops.
  `WithinLimits` counts the Active entries: only a request that found room under both
  limits adds one. `ResultsArrive` assumes, like `ActiveBacked`, that no task panics;
  `Outcomes` and `Answered` say that a task leaves its work only with a result and that a
  waiter takes what the task left. `ResponsesKept` needs `Clocked` (no response was created
  after the present time) and `CleanupCause`: a clean-up drops a fresh response only when
  `max_entries` of those it keeps are as young. `InboundTypes` has the types.
- **`FederationSenderProofs`.** `SenderTypes`, `NeverBusyForNothing` and
  `NeverWaitsForNothing`, with no hypothesis: the wait of an abort may time out, and
  crashes and shutdowns come at any step. `Sound` is the types with what each table, message
  and local may hold at each point of the worker, `Numbered` tells futures apart. `BusyIsBacked`
  is not inductive. `Backed` adds that the worker launches only from a busy entry, and that
  work it selected under an older generation is given up only when an abort that removes
  the entry is on its way. `Woken` adds that a timer stands while the backoff runs.
- **`FederationSenderAborts`.** `AbortIsComplete` with no hypothesis: `Cleared` follows the
  clearing table by table, and nothing is added while the flag is up. `OldWorkEnds` assumes
  `AbortsWait`: there are no aborts, or none of them is cut short by the timeout, a
  shutdown or a crash. Then work of an older generation is with the worker only until it
  acknowledges (`Stale`, `Unacked`), and what it selects afterwards is fresh (`FreshWork`).
  Without the hypothesis the property is false (see the limits below).
- **`FederationSenderOutbox`.** `OneAtATime` assumes `AbortsWait`. `ReliableRowsKept` and the
  refinement `DeliversAtLeastOnce` assume also `RowsReturn`: the startup burst is on or there
  is no crash, and there is no retry limit or no reliable row (at the limit
  `ReliableKept` is false, see `sender_limit_reliable`). The refinement is a step simulation
  under the mapping of `ImplementsOutbox`. A success deletes every active row, so the
  invariant `Accounted` has to say that every active row is carried by the transaction in
  flight, or is settled; with the burst off it is false, as rows kept over a crash
  are deleted by the next success. The theorems cover aborts and clears, which the run of
  the refinement leaves out.
- **`DelayedEventsProofs`.** `TypesKept`, `OnceFinalized`, `AnswersTrue` and `NoneVanishes`, for
  any events, requests, delay and number of crashes. `FinalizedOnce` is not inductive: the
  invariant adds that the id in the set is a token. An event that is not stale has at most one
  owner, none while its id is in the set, and its sends, its record and the answers given agree
  with where its owner stands.
- **`PartialStateProofs`.** `ResyncTypes` assumes nothing. `MarkersGoLast`, `NoServerMissed` and
  `InstallsKeepEverything` assume `Stays`: the room is joined once, or the resync is never given
  up (then a join that failed may be tried again). `UpdatesSurface` assumes `OneJoin`. Without
  these they are false (see the limits below). None of the properties is inductive:
  - `Sound` (the types, and where the task and an append may stand), `Locked` (who holds the
    state lock, so that nothing is appended between the drain and the clearing) and `Once` (what
    a join finds, and when a task is at work) carry all the others.
  - `Verified`: an event accepted on partial state is marked until an install covers the marks,
    or is late; the task sends and clears only when no mark is left, and what was installed is the full state.
  - `Served`, `Told`: an event recorded as sent to few servers has its row until it is sent to
    all, one that is about to be recorded is in a room still partial, and the device lists go out before the room is resolved.
  - `Surfaced`: while an update is deferred, or is found to be unknown and still in time, and the
    membership is known, the task remembers that it found the member, or there is no task left
    and the room stays partial.
  - `Graph`, `Reachable`, `Walked`: until a crash, every set of events that contains the
    extremities and the marks and is closed under predecessors contains the timeline. A walk that
    covers the marks therefore covers what was appended while it ran without the lock. The
    closure is stated by a quantifier over sets, so that no induction over paths is needed.

Only model-checked: all liveness properties (fairness and `ENABLED` are beyond this prover). The
type invariant of `MutexMap` is only proved, as part of its inductive invariant.

## Limits of the models

- `EveryRowSettles` and `ImplementsOutbox` count a row as settled when an action that may
  discard took it away (`discarded`): abort, clear, the retry limit, unreadable rows, the
  trim of the startup burst. They show that no *other* step loses a row. Both are checked
  with crashes and not together with aborts; the proof has crashes or aborts, not both.
- Three behaviours of the sender lie outside its runs. With `AckTimeout = TRUE` in
  `FederationSenderAbort.cfg` TLC finds `OldWorkStaysDead` violated: a worker that misses the
  30 second wait starts old work after the resume. With `AbortBudget = 1` in
  `FederationSenderCrash.cfg` it finds `ReliableKept` and `ImplementsOutbox` violated: a
  future of the startup burst, built after an abort (`sender.rs:653`), succeeds without
  sending and its success settles a newer transaction. With `startup_netburst` off,
  `startup_netburst_keep` still trims the active rows (`sender.rs:679`).
- `TriggerIsServed` and `FailedIsRetried` are checked with two non-periodic triggers;
  whether endless ones could starve a pair that has none of them is not.
- `MutualExclusion` fails after a race (`mutex_map_parallel`), and `ExclusionUnlessRaced` and
  `MappedUnlessRaced` say nothing from a race until the key is next idle.
- `RejectedEdusHandled` excepts a panic of the detached task, and `ForgottenForCause` an
  administrator who clears the cache.
- `AckedIsHandled` ends when the server begins to stop: from then on a local failure of a
  PDU is reported inside a successful response (`send.rs:899`). The run `inbound` has no stop.
- `WaiterReleased` excepts rooms that stay `Blocked` (a marked event that no extremity leads
  to) or `Orphaned` (a failed join or an unreadable marker left the room partial without a
  task). `NothingOverwritten`, and the device lists in `NewServersServed`, are stated for
  behaviours without a crash.
- `MarkersGuardState` excepts `late` events: one that was judged by the rules of a partial room
  (`upgrade_outlier_pdu.rs:226`) and got the state lock when the markers had gone is not marked,
  and nothing re-authorises it. With `unverified = {}` instead, TLC finds the property violated.
- `NewServersServed` speaks of events that were recorded. An append that ends with an error, or
  by a crash, between sending and recording (`timeline/build.rs:239`, `255`) leaves none.
- `DeferredSurfaces` excepts an update that is stored after the task took the deferred ones,
  on a look at the rooms made before (`send.rs:1270`): it stays in the map. Without the exception
  TLC finds the property violated.
- `partial_state` has one join. With `Joins = {j1, j2}` TLC finds `MarkersGuardState`,
  `NothingOverwritten` and `NewServersServed` violated: giving up clears the markers of a room
  joined again after the leave (`resync.rs:565`). With `GiveUp = FALSE` as well, these hold and
  `DeferredSurfaces` fails: a task that stops at an unreadable marker is followed by one, started
  by the signal of the other join, that finds the membership rebuilt already.
- The properties of `DelayedEvents` except `stale` and, for liveness, `left` events.
- A database write is atomic and durable at once. Failed reads and writes are modelled only
  where `PartialState` says so; an append's read of the marker does not fail.

## Not modelled

`PROJECT.json` gives the reason for each component, and its hazards what is uncovered.

- The tables behind the EDU handlers (positions, device keys, message ids): an EDU is an
  outcome in `InboundTxns`. The hazards at `send.rs:1208`, `1290` and `1447` (one entry) stay open.
- Counts, the EDU barrier, the cursor of the sender and the sync windows: every table would
  need its counts, which the models replace by the order of their steps.
- Backfill and outlier promotion (`backfill.rs:1094`).
- Authorisation and state resolution: they work on event contents whose codecs, and the
  resolution in use, are libraries outside this repository.
- A composition of sender and inbound side over a network: the sender's instances alone
  have up to millions of states.
