# A TLA+ model of kurlyk

kurlyk is a header-only C++ client library for HTTP (over libcurl) and WebSocket
(over Simple-WebSocket-Server). This directory models its concurrent core and its
text conversions in TLA+, checks them with TLC on small instances, and proves the
main safety properties with TLAPS for all instances. Paths below are relative to
`include/kurlyk/` of the repository.

## The system

| Part | Code | Model |
|---|---|---|
| `NetworkWorker`: one thread, a task list, the managers it drives | `core/NetworkWorker.hpp` | `NetworkWorker` |
| `HttpRequestManager`: queue, batches, retries, cancellation, groups and waiters, shutdown | `http/HttpRequestManager.hpp` | `HttpRequestManager`, `HttpRequestLifecycle` |
| `HttpRequestContext`, `HttpBatchRequestHandler`, `HttpRequestHandler`: one request, a set of transfers, one transfer | `http/HttpRequestManager/` | `HttpRequestManager` |
| `HttpRateLimiter`, `HttpRateLimitHandle`: limits by rate and period, sequential limits, partition keys, RAII handles | `http/HttpRequestManager/` | `LimitOps`, `HttpRateLimiter`, `HttpRateLimiterLog` |
| `HttpClient`, free functions of `http/utils.hpp` | `http/` | `HttpClient` |
| `BaseWebSocketClient` (state machine, event and send queues), `WebSocketClient`, `WebSocketManager`, `EventQueue` | `websocket/`, `utils/EventQueue.hpp` | `WebSocketClient`, `WebSocketSender` |
| `WebSocketRateLimiter` | `websocket/client/` | `WebSocketRateLimiter` |
| SimpleWeb adapter, its io thread and socket client | `websocket/client/` | `WebSocketClient`, `WebSocketSender` |
| Percent encoding, query strings, base64url, cookies, URL validation | `utils/` | `Codecs`, `RoundTrips` |

User threads call the managers, then `notify()` the worker. The worker runs
`process()` of every manager and then the queued tasks, while any of them is
loaded. The HTTP manager admits queued requests that the limiter allows, groups
them into a batch (one libcurl multi handle), drives the batches, puts failed
requests back after a delay, applies cancellations and notifies waiters. The
WebSocket manager runs the state machine of each client; the client's adapter
reports what happens to the connection from an io thread, through the client's
event queue. User callbacks run on the worker thread.

## Modules

**LimitOps** holds the arithmetic of one limit on one partition key: `CanPass`,
`UpdateKey`, `CommitLimit`, `ReleaseKey`, `StaleKey`, `TimeUntilKeyAllows`. A key
is `NoKey` while it is missing from the map.

**HttpRateLimiter** is the limiter with the handles and requests that use it.
Each public operation runs under the limiter's mutex and is one action. The
destructor of the last handle calls `remove_limit_internal` outside that mutex,
so an id first becomes `dying` and `RemoveLimitInternal` is a later step. The 64
of the sweep is the constant `GcEvery`. The model assumes that a request context
is destroyed only after `complete()`; a shutdown with a parked retry is the one
path on which the manager breaks this (see *Deviations*).

**HttpRateLimiterLog** adds a history, the times of the attempts granted on each
key of each limit, and nothing else.

**HttpRequestManager** follows a request through `loc`, the list that owns its
context. What the worker does under `m_mutex`, or to state only it touches, is one
step; each user callback is a step of its own, and `pc` names the next step of
`process()` or `shutdown()`. `FinalCallback`, `Release` and
`CompleteGroupRequest` are the three parts of `invoke_final_callback`, so
submissions, cancellations and waits come between them. The limiter appears by its
effect on admission: a sequential key is a slot with one holder, and a counting
limit may deny any scan. The scan of the queue is characterised (`IsScan`) rather
than computed. `cancelDue` and `waitDue` are history. The order of final callbacks
inside one step and the order of retries are left open, which allows more
behaviours than the code. A multi handle that cannot be created is the case in
which every request of the batch gets no curl handle. Calls with group or request
id 0 return at once and are left out.

**HttpRequestLifecycle** is the abstract specification: what users of the manager
may rely on whatever happens inside. A request is idle, open, answered, finished or
refused; `inflight` of a group is the number of its accepted requests that have not
finished; a waiter is answered only when all it registered for has been answered.
`HttpRequestManager!ImplementsLifecycle` is the refinement, under the mapping
`status <- RequestStatus` (from `loc`), `inflight <- m_group_request_counts`,
`waiting <- WaiterStatus` and `owed <- waitDue`. Scans, batches, retries, parking
and cancellation are stuttering steps of it.

**HttpClient** composes user threads with a manager that is not shut down and whose
batches open: `OpenBatchThrows` and the steps of `shutdown()` are in
`HttpRequestManager` only. Its worker steps are those of `HttpRequestManager` with the
promises following the callbacks. It adds the admission cap, checked under `m_submit_mutex` and held until the submission; the
futures; `wait_requests_for`, whose timeout races the notification of its waiter;
and the destructor, which cancels its group and waits for the answer. `spared` is
history: the requests parked in a batch when the destructor's cancellation was taken.

**NetworkWorker** has two threads, the worker and one in `stop()`, and callers
between their push and their `notify()` (`owed`; a submission that is refused owes
none). `start()` publishes the flag (`StartClaim`), launches the thread
(`StartLaunch`) and assigns `m_future` (`StartAssign`), and the thread runs before the
assignment. The reads of `m_future` and `m_worker_thread_id` without synchronisation
are taken to see the old or the new value. `m_managers_mutex` is a variable
because it is held across user callbacks; uses of the other mutexes are single
steps. Nested `process_tasks` calls are a stack. A manager is known only by the
work it holds. The inline path of `HttpClient::cancel_requests`, which calls
`process()` from the worker thread, is here.

**WebSocketClient** is one client. `client` is the `BaseWebSocketClient` object and
the connection its adapter owns; the operators on it are the member functions. One
pass of `process_fsm_state` is a step, except in RECONNECTING, where the switch and
the code after it are two, because both may start a connection. The io thread opens,
fails, closes and delivers at any moment, and pushes events that the state machine
reads later, possibly after the connection they come from has been replaced. The
facade's calls (`connect`, `disconnect`, `set_config`) queue events and notify the
worker, in one step here; of its constructors, the one with a configuration and a
callback queues without notifying. The configuration the facade keeps for `connect` is
chosen before the first call. A connection's time is reduced to whether
`reconnect_delay` has passed.

Of the worker it keeps what concerns one client: it sleeps when the client neither
runs nor has events and no task waits, and wakes when notified, by `stop()` or by
anything else it works for (`NotifiedByOthers`). The facade's destructor gives it a
task that runs `shutdown()`; `stop()` makes it run the manager's `shutdown()` of the
client, then the tasks that are left, and end. `deinit_websocket` and `create_client`
destroy a SimpleWeb client under `m_client_mutex`. SimpleWeb is external; its
destructor waits for the handler that runs, and `on_open` takes the same mutex, so a
worker that comes first blocks for ever (`Opens`, `Block`, `worker = "blocked"`).

**WebSocketSender** extends the client with the outgoing messages: the bounded
queue, the scan that asks **WebSocketRateLimiter** for every message, the hand-over
to the adapter, completions on the io thread and the callbacks the worker makes of
them. **WebSocketRateLimiter** is its table of fixed windows, as operators. The
history `recent` keeps the ages of the messages each limit let through, up to
`AgeCap`, which is at least the longest period.

**Codecs** has the conversions as operators on sequences: of bytes for percent
encoding, base64url with its two tables, and cookies, whose reserved words are
compared without regard to case; of tokens for URLs, where only the class of a
character matters. `parse_cookie` gives a multimap, how often each cookie was found,
because that is what the code returns: the order is not kept. `tolower` is that of the
C locale. The empty result when `curl_easy_init` or `curl_easy_escape` fails, and the
prefix of `to_query_string`, are left out. A loop over a text is a recursive function
of the position it has reached, one turn of it an operator (`DecodeAt`,
`ParseCookieAt`, `ParamValidAt`); a loop that only appends is `Concat`.
**RoundTrips** builds inputs one element at a time and compares each parser with its
encoder, and the URL validator with a grammar of its own: a host name of two or more
labels, a path and a query.

The `MC*` modules give constants their values. The `*Proofs` modules and
`HttpRequestManagerInvariants` hold the theorems.

## Runs

| Run | Question | Result |
|---|---|---|
| `limiter` | Do exclusion, token ownership and handle lifetime survive retries, sweeps and removal? Do counters equal what was granted, what does a sliding window see, and do the delay queries agree with `allow_request`? | holds, 1,473,516 states |
| `manager` | Ownership, tokens and chunks with retries, a group cancellation, a waiter and a queue limit; refinement of the lifecycle | holds, 1,077,765 |
| `manager_stop` | Shutdown against everything else, without retries; refinement again | holds, 444,785 |
| `client` | Cap, futures, waits with a timeout and the destructor; does everything become ready and return? | holds, 58,467 |
| `worker` | Tasks, wake-ups, reentrancy, `stop()`; does everything finish? | holds, 117,463 |
| `ws` | Is the state machine ever waiting for a connection that is gone? Is every call answered? | holds, 333,584 |
| `ws_send` | Rate of sends, lost callbacks, hand-over | holds, 557,271 |
| `codecs` | Do the conversions invert each other, does the validator split as it should? | holds, 3,044,727 |
| `manager_parked` | Is a request finished when its cancellation is reported? | violated |
| `worker_reentrant` | May a request callback call `HttpClient::cancel_requests`? | violated |
| `ws_shutdown` | Does `shutdown()` of a WebSocket client end? | violated |
| `codecs_url` | Does a well-formed URL pass the validator? | violated |

The violated properties state what the repository says:

* `manager_parked`: a request to be retried waits in its batch until the batch is
  over (`HttpBatchRequestHandler.hpp:197`). Cancellation does not look there, calls
  its callback, and the request is sent again. `HttpRequestManager.hpp:269`:
  "Cancels all requests with the specified group ID."
* `worker_reentrant`: `process()` holds `m_managers_mutex` over request callbacks
  (`NetworkWorker.hpp:118`), and `cancel_requests` on the worker thread calls
  `process()` again. `HttpClient.hpp:57`: "On the worker thread: execute
  cancellation inline to avoid self-deadlock." From a task, where the mutex is free,
  it is safe: `worker` checks and `TasksMayReenter` proves that.
* `ws_shutdown`: in RECONNECTING, the case for a disconnect request leaves only the
  switch (`BaseWebSocketClient.hpp:614`), and the code after it reconnects when the
  delay is over. `shutdown()` has used its one disconnect by then and loops for as
  long as the new connection lives. `BaseWebSocketClient.hpp:186`: "processes any
  remaining events until the client stops running." The run leaves `stop()` out, so
  that this is the path it shows. Two more lead to the same: a null or invalid
  configuration in RECONNECTING leaves STOPPED with `m_is_running` true, and a
  `connect()` queued while the manager shuts a live client down starts it again.
* `codecs_url`: `is_valid_domain` takes what follows the first dot for the top-level
  domain (`url_utils.hpp:78`) and refuses the second dot there. `url_utils.hpp:123`:
  "Validates if a URL is correctly formatted." The repository's README opens a client
  at `wss://echo-websocket.fly.dev/`, which the Emscripten adapter, whose
  `init_websocket` asks `is_valid_url`, refuses.

Some limits of the passing runs are deliberate. `manager` has no shutdown and
`manager_stop` no retries, because together they lose requests (see *Deviations*).
`StopWaitsForWorker` is about a `stop()` that does not overlap `start()`.
`DelayAgreesWithAllow` is checked for millisecond durations, the default;
truncation to a coarser unit can report 0 to a request that is denied.
`DestroyedMeansQuiet` excepts a request parked in its batch at the moment the
destructor's cancellation is taken, as `manager_parked` shows it must, and no other.
In `ImplementsLifecycle` any wait may be answered at once, since the abstract
specification does not know of the shutdown that allows it; what is constrained is a
wait that registered. `EveryCallAnswered`, `WaitingEnds` and
`AcceptedIsHandedOver` except a worker that is blocked on `on_open`; the first also a
worker whose thread has ended, and it promises the constructor's callback only once
something else keeps the worker awake. `AcceptedIsHandedOver` also excepts what a
shutdown or a destroyed connection drops. `UrlSplits` excepts the host names of
`codecs_url` and a `/` in a query that follows the domain directly. `NoCallbackLeft`
is about programs whose configurations agree on `reconnect`, and `SendRateBound` about
limits that every configuration has: a `set_config` without a limit forgets its window
and its count.

### Bounds

* `limiter`: two requests, so that one can hold what the other wants, and two
  limits for general and specific; one key, rate 1, a period of 2 and a clock that
  runs through it; `GcEvery = 2` so that sweeps fall everywhere; two attempts for a
  retry. Requests without a token (`Untracked`) and rates above 1 are left to the
  proofs, which cover them for every property of the run.
* `manager`: two requests compete for one sequential limit, and a third (`free`),
  which receives chunks, can share a batch with either; two attempts give one
  retry; one request may be denied by a counting limit; a queue limit of 2 is below
  the number of requests.
* `manager_stop`: a request whose curl handle may fail, a null request, one
  cancellation by id and one by group.
* `client`: a cap of 1 with two requests of the client, one of them retried, and a
  request without a client; one wait and the destructor.
* `worker`: two tasks, the first of which calls `process()`, so that a list is taken
  while another is half done; one request; `stop()` at any moment, also inside
  `start()`.
* `ws`: two calls, each of any kind, the constructor's included, with configurations
  that reconnect (two attempts), never reconnect or are refused, and none; one message
  of the server per connection; `stop()` at any moment. `AttemptCap` is where the model
  stops counting failed attempts; it is above every limit that is compared with them.
* `ws_send`: starts in the state that a connect and a first message lead to, one tick
  after the limit was set; two messages, a limit of one per two ticks and a queue of
  one make every message wait for either. One call can reconfigure or disconnect, and
  `stop()` is left out.
  `AgeCap` is the period: nobody asks for more.
* `codecs`: two parameters, five bytes (more than one base64 group and both partial
  ones) that fill, empty and straddle the groups of six bits, two cookies, URLs of
  eight tokens. The alphabets hold every delimiter. Here
  the proofs take over: they need no bound.

All of these bounds are constants. Deadlock checking is off in all runs because a
finished system is idle.

### Fairness

The worker thread keeps running (weak fairness of its steps). A transfer ends and
`curl_multi_perform` does not fail for ever on one batch, and a retry delay runs
out: these are enabled again and again, not continuously, and get strong fairness
for each request. A thread inside a call
(`submit`, a wait that has been answered or withdrawn, the destructor, between a
push and its `notify()`) goes on. A wait need not time out, and nobody is obliged to
call. In `NetworkWorker` the program does start the worker, and a manager finishes
the work it holds.

In `WebSocketClient` a worker that is awake, the clock and the io thread go on, and a
connection attempt either opens or fails, which the adapter's `request_timeout` ensures
unless it is 0. Nobody has to wake a worker that sleeps; an open connection may live for
ever, and the server need not send. In `WebSocketSender` the worker and the clock go on
and a write need not complete.

## Proofs

TLAPS proves the following for every value of the constants that satisfies the
`ASSUME`s of the modules. Between them the theorems cover every safety property of
the passing runs. The name in brackets is the property; all but
`TypeOK` and `HandleKeepsLimit` are also checked by runs.

**`HttpRateLimiterProofs`**: `TypeCorrect` (`TypeOK`), `Exclusion`
(`SequentialExclusion`), `NoLeak` (`NoLeakedToken`), `HandleSafety`
(`HandleKeepsLimit`), `RemovedSafety` (`RemovedIsIdle`) and `CountSafety`
(`CountWithinRate`). None is inductive alone. Exclusion needs to know that a granted
request's token really is in every sequential slot it uses (`TokensHeld`), that each
key has at most one token (`OneToken`) and that each token has an owner which will
release it (`TokensOwned`). `TokensHeld` in turn needs the limit of a granted request
to be present and not removed, which follows from the request's own handle
(`HandlesOK`). Keys of unused ids are blank (`Blank`), so a new limit starts empty,
and a counter within the rate (`CountBound`) closes the induction. Lemmas about
`CommitLimit` and `ReleaseKey` come first, then one lemma per action.

The delay queries: `DelayAgrees` (`DelayAgreesWithAllow`), `DelayExact`
(`DelayIsExact`) and `AnyDelayBound` (`AnyDelayIsLowerBound`) assume
`DurationUnit = 1`, a caller that asks in milliseconds. They follow from what the
delay of one slot means (`SlotDelayMeaning`: it lets the request pass from the end of a
finite delay on, and not before) and from the delay of a request being the largest of its slots
(`NextAllowedIsMax`).

**`HttpRateLimiterLogProofs`**: `CounterIsHistory` (`CountIsHistory`) and `WindowBound`
(`SlidingWindowBound`). The invariant `KeyHistory` ties the state of a key to the times
of its grants: the counter covers the newest of them, those since the window began
(`Window`); a key that was swept has no attempt that could still count (`NoWindow`);
and attempts a rate before the window are a period older than it (`Trails`), so that two
attempts at distance 2 * rate - 1 are a period apart (`Spread`). A key first used less
than a period after the clock's epoch has a window that began before its first attempt,
which is where the bound is 2 * rate.

**`HttpRequestManagerInvariants`, `HttpRequestManagerProofs`**. `PhaseInv` says
which contexts can be where at each step of the worker (an admitted one only while
its batch is being made, a queued one during shutdown only until the clean-up);
`BatchInv` that a context in a batch is running or parked, in one batch only.
* `ContextsHaveOneOwner` (`OneOwner`): with `QueueInv` and `OwnedInv`, the lists hold
  exactly the contexts that `loc` says, each once.
* `TokensHeldThroughRetries` (`HoldsThroughRetries`) and `TokensReturned`
  (`NoTokenAfterEnd`) by `TokenInv`: the holder of a slot has been admitted and not yet
  released, and whoever has been holds all its slots.
* `ChunksAreFinal` (`NoRetryAfterChunk`) by `ChunkInv`.
* `FinalsInv` and `CountInv` determine `finals` and `m_group_request_counts` from `loc`;
  `CancelInv` and `WaitInv` say what a call has achieved at each of its stages.
  `ManagerImplementsLifecycle` (`ImplementsLifecycle`): the initial states map to
  initial states, and each step to one of the abstract specification or a stutter.
  Most steps only move live contexts (`InternalStep`); the others are taken one by
  one in `LifecycleStep`.
* `CancelAnswersLast` (`CancelMeansFinished`), assuming `NoRetries`, that is
  `retry_attempts` of at most 1. With retries it is false: `manager_parked`.
* `NothingLeftBehind` (`ShutdownFinishesAll`).

`TokensReturned`, `ManagerImplementsLifecycle` and `NothingLeftBehind` assume
`NoneLost`: either nothing is retried or the worker is not stopped. Without it
`shutdown()` loses parked requests.

The queue is filtered by the recursive function `Without`. What it returns for every
queue is proved by induction over the length, as a set of lengths without a smallest
counterexample (`NatSetInduction`).

**`HttpClientProofs`**, on top of those invariants (`ManagerInv`, shown to survive
every step of the composition): `CapHolds` (`InFlightBound`) by `CapInv`, whoever is
between check and submission holds the mutex, and while it is held there is room
for one; `FuturesAreFinal` (`FutureMeansFinal`) by `FutureInv`; `WaitsAreRight`
(`WaitResultIsRight`) by `TimedInv`, which ties what the waiting thread knows to its
waiter; `DestructorIsQuiet` (`DestroyedMeansQuiet`) by `DestroyInv`, which says what
the destructor's cancellation has achieved when it is queued, taken and answered, and
which requests it has spared. No
assumption on retries is needed for these. `ClientImplementsLifecycle`
(`ImplementsLifecycle`), under `NoneLost`, carries the refinement over to the
composition.

**`NetworkWorkerProofs`**: `TasksMayReenter` (`NoSelfDeadlock`), assuming
`Reentrant \cap Work = {}`, that is, no request callback calls back; the invariant
is that a thread holds `m_managers_mutex` only while the managers run. Without the
assumption it is false: `worker_reentrant`. `StopJoins` (`StopWaitsForWorker`), by
`StopInv`: `start()` publishes the flag before the future, and a `stop()` that does
not overlap it has seen both. `EachTaskOnce` (`TasksRunOnce`), by `TasksInv`: every
task is in one place of the list, of one entry of one thread's stack of taken lists,
or has run (`OnePlace`), and the tasks that were queued when `stop()` set
`m_shutdown` stay within reach of the loop that drains them (`EarlyInv`).

**`WebSocketProofs`**, the client: `NeverStranded` (`ActiveHasSocket`) and
`ConfigNeverNull` (`ConfigWhileActive`). The invariant `ActiveOK` of the object says
that in CONNECTING and WORKING a configuration and a socket exist, that the end of
an ended socket is still in the queue, and that in CONNECTING the opening or the
failure of a socket that is no longer connecting is too; `Holds` speaks only of
events of the connection now owned, so that events of an older one cannot stand in
for them. A socket whose `on_open` waits for the mutex counts as one that will report.
It is shown for each member function and then for each action.
`ReconnectsBounded` (`ReconnectBound`), by `ReconnectInv`: while a connection is open
or opening there was at most one reconnection more than failures are counted.

The client with its send queue: `SenderImplementsClient`, every behaviour of the client
with its send queue is one of `WebSocketClient`, so the theorems above hold for it.
`SendRateBounded` (`SendRateBound`), by `RateInv`: the messages before those a window
has counted are older than the window (`WindowOK`), at most a rate of those is
younger than a period, and the table in force is that of some configuration
(`TableOK`). `CallbacksTold` (`NoCallbackLeft`), by `LiveInv`, a connection is live only in
CONNECTING and WORKING, also between the two halves of a pass in RECONNECTING, and
`CallbackInv`, a send in progress has its connection and a client without one has no
callback waiting between two passes.

**`CodecsProofs`**: `Base64RoundTrips` (`Base64RoundTrip`), `QueryRoundTrips`
(`QueryRoundTrip`), `CookieRoundTrips` (`CookieRoundTrip`) and `UrlsSplit`
(`UrlSplits`). Every reachable input is a sequence of what its kind is made of
(`InputsTyped`), and the rest is about the operators, for inputs of every length:
* `Base64Inverse`, `PercentInverse`, `QueryInverse`: each decoder undoes its encoder
  on any sequence of bytes. For base64url this includes the two tables
  (`TablesInverse`).
* `CookieInverse`: of any list of cookies as a server writes them, with or without
  path, expiry and flags in any spelling, `parse_cookie` finds the multimap of those
  cookies, names without their prefix, and nothing else. A name holds neither `=` nor
  `;` and is, in no spelling, an option or a flag, and no value or path holds `"; "`.
* `UrlByGrammar`: `is_valid_url` accepts only URLs of the grammar, and all of them but
  two kinds, which are part of the property: a `/` in a query that follows the domain
  directly, and a host name of more than two labels. This is for every text with at
  most one `"://"` and every set of schemes without a `/`.

The argument has four layers.
* Induction over a number is a set without a smallest missing element
  (`NatSetInduction`, from `WFMin`). It gives `Recursion`: an equation whose right-hand
  side looks only at places of smaller rank has a solution. The recursive functions of
  the model exist because the loops of the code always move on (`ConcatSteps`,
  `CookieTurns`, `QueryTurns`).
* `Placed` says where each part of a concatenation is; it determines the text
  (`PlacedUnique`), and cutting at a delimiter that no part holds gives the parts back
  (`SplitJoin`).
* base64url works in groups of three bytes and quartets of characters (`QuartetParts`),
  percent encoding in one or three characters per byte (`ByteCoding`). Cookies are
  fragments laid one after the other (`Laid`), and `Turn` says what a turn of
  `parse_cookie` takes from the one it stands at.
* A URL is cut at the first `/` and the first `?`. `GrammarByParts`, `DomainIsHost`,
  `HostIsDomain` and `QueryValid` compare the validator with the grammar part by part.

Only model-checked: all liveness (`EveryFutureReady`, `EveryCallReturns`,
`EverythingFinishes`, `StopReturns`, `EveryCallAnswered`, `WaitingEnds`,
`AcceptedIsHandedOver`), which is out of the prover's reach.

## Deviations

Behaviour met while modelling that a reader of the code should know about. No run
states these as properties: they come from reading the code, and the passing runs
leave them out by their bounds or except them in their properties. Line numbers are of
the files named; BW is `websocket/client/BaseWebSocketClient.hpp`.

HTTP and worker:
* `shutdown()` clears the batches with the requests parked in them
  (`HttpRequestManager.hpp:315`); those get no final callback and keep token and
  group counter.
* The cancelling calls read `m_shutdown` before they lock
  (`HttpRequestManager.hpp:261`); one that queues after `shutdown()` has passed is
  never answered.
* `~HttpClient` may return while a request parked for a retry lives on.
* A `stop()` that overlaps `start()` may return before the thread ends
  (`NetworkWorker.hpp:141-145,198`).
* A task added after the last `process_tasks` of `shutdown()` never runs
  (`NetworkWorker.hpp:219`).

WebSocket:
* `reconnect_attempts` of N gives N - 1 reconnections (BW:655-660), and the counter
  is not reset when the client gives up. A reconfiguration while RECONNECTING may
  start one connection more; `ReconnectBound` allows for it.
* The worker and `on_open` may wait for each other
  (`SimpleWebSocketClientAdapter.hpp:126-132,235`).
* The constructor with a configuration and a callback does not wake the worker
  (`WebSocketClient.hpp:37`).
* The callback of `connect()` gets true when connecting starts, and false from
  states in which the client does go on to connect.
* A configuration with `reconnect = false` that arrives in RECONNECTING leaves the
  state INIT with a live connection. Sends on it complete, and nobody calls their
  callbacks until the worker is woken for something else; `NoCallbackLeft` excepts
  this.
* Messages queued at shutdown, and sends on a connection that is destroyed, never
  get their callback.
* Close requests use the general limit, although BW:734 says they "are sent
  immediately". An id past the table is not limited at all, not even by the general
  limit. Messages may overtake each other, even with the same id, because the scan
  reads the clock for each.
* `submit_message` looks at `is_connected` before it queues, so a message may be
  queued for a connection that is gone.

Conversions:
* The validator takes a `/` in a query that directly follows the domain for the start
  of the path.
* A cookie name without `=` takes the next fragment with it.
* The `to_query_string` without curl does not encode keys.

## Not modelled

* HTTP: setters that fill a request, the ownership of rate limits by a client,
  `set_max_in_flight` and `set_max_pending_requests` (constants here), id
  generators, curl options, headers and timings, memory exhaustion.
* Worker: `start(false)`, `register_manager`, error handlers and callbacks that
  throw.
* WebSocket: the list of clients and its mutex (held over user callbacks), a worker
  that is never started (`KURLYK_AUTO_INIT_USE_ASYNC` false), the queue
  of received events for users without a handler, TLS and the proxy dialogue (one
  step that succeeds or fails), stopping the io thread.
* The Emscripten adapter: it replaces the SimpleWeb adapter under the same state
  machine, and its callbacks belong to the browser.
* `startup/`: it calls `start` and `stop`, whose races are in `NetworkWorker`.
* OAuth, authentication providers and `ProxyChecker`: sequential request building
  and parsing around one HTTP request.
* Header maps, user-agent and path helpers, and the plain data records.
