# cocls: models and proofs

This directory specifies [cocls](../src/README.md), a header-only C++20 library of
coroutines, futures and synchronisation, in TLA+. Everything is translated from
the headers in `src/src/cocls/`. TLC checks the models on small instances; the TLA+
proof system proves the most important safety properties for every
number of objects and threads. Section 1 is the inventory, 2 explains the modules, 3 the
runs, 4 the proofs, 5 what is left out.

## 1. Inventory

The library has no process, no thread of its own (but for the thread pool and
the scheduler) and nothing persistent. What is hard in it is *shared pointers
between threads*: every component below is an object in memory that several
threads and coroutines call, and that holds pointers to objects whose lifetime ends
as soon as they are resumed.

| Component (header) | State | Operations | What makes it correct |
|---|---|---|---|
| **future, promise** (`future.h`) | `future_common::_awaiter`, an atomic pointer that is `&instance`, `&disabled` or the head of a stack of awaiters; `_state` and the result; `promise::_owner`, an atomic pointer to the future | construct, `get_promise`, call, drop, move, `set`, `resolve`, `co_await`, `wait`, callbacks, `make_promise`, `discard` | a pending future has one resolver; the result is written once, before it is published; every awaiter is resumed, once, and reads it |
| **awaiter** (`awaiter.h`) | `_next`, what `resume()` does | `subscribe`, `subscribe_check_ready`, `resume_chain*` | no awaiter is lost between subscribing and resolving, none is touched after it was resumed |
| **mutex** (`mutex.h`) | `_requests`, an atomic stack of awaiters over a doorman; `_queue`, the owner's list | `try_lock`, `lock`, `release`, `build_queue` | mutual exclusion, first come first served, no lost waiter |
| **queue, limited_queue** (`queue.h`) | items, promises of poppers, blocked producers, all under a lock | `push`, `pop`, `unblock_pop`, `unblock_push`, destruction | order, nothing lost or duplicated, nobody waits in vain, no more items than the limit |
| **suspend_point** (`suspend_point.h`) | an array of coroutine handles | merge, `pop`, `co_await`, destroy | every handle is resumed exactly once |
| **coro_queue, pause** (`coro_queue.h`, `resume.h`) | one thread-local queue of handles and whether it is installed | `install_queue_and_call`, `resume`, `pause`, `swap_coroutine` | every queued coroutine runs before the installer returns, in order |
| **async** (`async.h`) | a coroutine frame with the promise of its result | `start`, `detach`, `co_await` | its return resolves the future, then control passes to the awaiter |
| **thread_pool** (`thread_pool.h`) | tasks, threads, `_exit` | `enqueue`, `worker`, `stop`, `run`, `co_await` | a task runs once, on a worker; after `stop` nothing waits for a task that is gone |
| **scheduler** (`scheduler.h`) | a heap of timed promises | `schedule`, `remove`, `cancel`, `interval`, the worker coroutine | a promise is resolved once, not before its time, or cancelled; a stop is noticed |
| **publisher, subscriber** (`publisher.h`) | the last items, the position of every subscriber, their awaiters | `push`, `close`, `kick`, `subscribe`, `leave`, `advance`, `get_value` | a subscriber sees the items in order, once, up to what its read mode may skip |
| **generator** (`generator.h`, `iterator.h`) | the suspended frame, its caller, a blocking flag, the yielded value | `next`, `co_yield`, destruction | each request gets one value, in order |
| **generator_aggregator** (`generator_aggregator.h`) | a queue of generators that have a value | `co_yield` of what any of them yields | every generator is asked again after its value was taken |
| **signal** (`signal.h`) | a chain of emitters, the current value | collector call, `co_await` emitter, `connect` | a value reaches all emitters that wait when it is emitted |
| **shared_future** (`shared_future.h`) | a shared state that holds itself while pending | `get_promise`, `charge`, `co_await` | the state lives until it is resolved, then is released |
| **promise_with_default** (`future.h`) | a promise and the default it is resolved with when it is dropped | call, move, destroy | no future without a value, none with the default of another |
| **discard, call_fn_future_awaiter** (`future.h`) | an object that holds a future and is its awaiter | construct, subscribe, resume, delete itself | one call, one delete, in whatever order it is subscribed and resolved |
| **callback_awaiter, future_conv** | a coroutine, or an object, that awaits a future on behalf of a callback or of another promise | `<<`, `operator()`, resume | the callback is called once, the other promise is resolved |
| **function** (`function.h`) | a callable in the object's own space or on the heap | construct, move, assign, destroy | one owner |
| **storages of frames** (`coro_storage.h`, `alloca_storage.h`, `with_allocator.h`) | a reusable buffer and whether it is busy; the size learned for a stack frame | `alloc`, `dealloc` | one frame per block, none too small, none lost |
| priority_queue, generics, common, exceptions | adapters, type traits, exception classes | | no protocol |

How they interact: everybody who waits in the library waits on a `future` or directly on a chain
of `awaiter`s (mutex, signal, publisher). Whoever resolves gets a `suspend_point`
with the coroutines it made ready; awaiting it switches to them,
destroying it puts them into the `coro_queue` of the thread. `queue`,
`scheduler`, `thread_pool::run` and `generator` keep `promise`s and resolve them, mostly
after they released their own lock.

The behaviours that a test hardly reaches are listed, at their lines, in
`PROJECT.json` under `hazards`: subscribing against resolving, concurrent calls and moves of one promise,
awaiters that vanish when they are resumed, `build_queue` against new requests,
promises resolved after an unlock, the queue at its limit, timeouts (`unblock_pop`)
against late answers, stop requests against a worker about to wait, generators that go on in other threads,
callbacks that link themselves again in the middle of a walk, blocks of memory whose address is used again, destruction of objects in use.

## 2. Modules

| Module | What it is |
|---|---|
| `Future` | `future`, `promise`, the chain of awaiters (`future.h`, `awaiter.h`) |
| `FutureSpec` | the contract of a future towards those who await it |
| `Mutex` | `mutex` with its two-level queue (`mutex.h`, `awaiter.h`) |
| `MutexSpec`, `MutexRefinement` | a first-come first-served lock, and the mapping of `Mutex` to it |
| `Queue` | `queue` and `limited_queue` (`queue.h`) |
| `Publisher` | `publisher` and `subscriber` (`publisher.h`) |
| `Resumption` | `suspend_point`, `coro_queue`, `pause`, `async`, `parallel`, `self` (`suspend_point.h`, `coro_queue.h`, `async.h`, `resume.h`, `self.h`): which coroutine a thread runs next |
| `HandleArray` | how a `suspend_point` stores its handles (`suspend_point.h`) |
| `ThreadPool` | `thread_pool` (`thread_pool.h`) |
| `Scheduler` | `scheduler` and its workers (`scheduler.h`) |
| `Generator` | `generator` and its iterator (`generator.h`, `iterator.h`) |
| `Aggregator` | `generator_aggregator` (`generator_aggregator.h`) |
| `Signal` | `signal` with emitters, collectors and callbacks (`signal.h`) |
| `SharedFuture` | `shared_future` (`shared_future.h`) |
| `Defaults` | promises with a default value (`future.h`) |
| `Callbacks` | `discard` and `call_fn_future_awaiter` (`future.h`) |
| `Conversion` | `future_conv`, `callback_await` (`future_conv.h`, `callback_awaiter.h`) |
| `Storage` | `reusable_storage_mtsafe`, `stack_storage` (`coro_storage.h`, `alloca_storage.h`, `with_allocator.h`) |
| `MC...` | instances of the module of that name for TLC; `MCComponents` runs the smaller components side by side |
| `FutureProofs`, `MutexProofs`, `ThreadPoolProofs`, `SchedulerProofs`, `PublisherProofs`, `ResumptionProofs` | theorems about the module of that name |
| `StreamProofs` | theorems about `Queue`, `Generator`, `Aggregator` and `Signal` |
| `OwnershipProofs` | theorems about `SharedFuture`, `Defaults`, `Callbacks`, `Conversion`, `Storage` and `HandleArray` |

The line numbers each definition stands for are in `PROJECT.json` under `map`.
Operators named `X_Something` just before `X`
(`claim_Load`, `Unlink_ClearFirst`, ...) are plausible wrong versions of `X`. No
specification uses them; each shows, when it takes the place of
`X`, that a property fails (`mutants` in `PROJECT.json`).

How the modules compose. `Future` is the ground: `FutureSpec` is what it promises, and the modules
that hold promises (`Queue`, `Scheduler`, `Generator`, `SharedFuture`, `Callbacks`, `Conversion`, `Defaults`) have a future as one state that is
resolved once, on the strength of that contract. Those that resolve outside of their own lock have
the resolving as a step of its own, because that is where threads interleave. `Resumption` takes what happens after a resolution: the handles of the
coroutines that were made ready. `HandleArray` shows that the arrays of a `suspend_point` are the sequences `Resumption` has.
`Aggregator` has a source as what `Generator` promises: asked once, it is suspended with an item, the end or an exception.

### Future

* `awt[f]` is `_awaiter`, `result[f]` is `_state` with the member of the union it selects,
  `owner[p]` is `promise::_owner`, `next[w]` is `awaiter::_next`. `flife` and
  `plife` are lifetimes: each element of `Futures`, `Promises`,
  `Waiters` is an object during one lifetime, and an address is not reused.
* One action is one atomic access to shared memory with the private steps around it.
  `subscribe_check_ready` is `SubscribeLinked`, `SubscribeRetry`, `SubscribeReady` (the
  outcomes of one `compare_exchange`); `resolve` is the exchange that
  publishes `disabled`; `ResumeCoro`, `ResumeSync`, `ResumeCallback`
  are one round of the loop of `resume_chain_lk`.
* The promise operations share `claim`. `set` (writing the result) and
  `resolve` are separate steps of the claiming thread. A move assignment is
  `MoveAssign` (drop what the target held), the steps of that drop,
  and `MoveAssignEnd` (claim the source). Other threads may call both promises meanwhile.
* Awaiters come in the four kinds whose `resume()` differs: `Coros` put their
  handle into the suspend_point of the walk and run later (`ResumeHandle`), `Syncs` set the flag of a blocked
  thread, `Callbacks` run inside the walk, `Heaps` (`make_promise`,
  `discard`) run inside the walk and delete the future.
* What the caller must respect is a guard: `get_promise` only on a fresh future
  (asserted by the code), a future is not destroyed while it is pending (asserted) or while somebody is going
  to read it, a promise is not destroyed or moved during a move assignment of it.
* Memory order: steps are sequentially consistent. `resolve()` exchanges with
  acquire only, although it publishes a result; whether a reader that
  acquires sees the result is outside this model.

### Mutex

* `requests`, `queue`, `next` are `_requests`, `_queue`, `_next`. `pc[c]` is
  what the client does, `at[c]` what its `await_suspend` does after
  the `compare_exchange` has made the awaiter public: another thread may resume the client while
  the first one is still in `await_suspend`.
* `build_queue` is an exchange (`LockSwap`, `UnlockSwap`) and one step per round of its loop
  (`LockBuild`, `UnlockBuild`).
* `NextReload` chooses between the two builds of the line `if (aw->_next == nullptr)`. With
  `FALSE`, `subscribe()` decides on the value that its `compare_exchange`
  compared. With `TRUE` it loads `_next` from memory again, as the source says; that
  load races with the thread that unlocks (finding 1). Everything proved of
  the mutex but for the checks of that finding assumes `~NextReload`.

### Queue

* Every operation is one critical section. The future returned by a `pop` or a `push` is `pops[k]`,
  `pushes[v]`. A promise taken out under the lock is in `hand[t]` until `Resolve(t)`,
  after the unlock; this is where the threads interleave.
* `limit` is chosen initially among `Limits` and `Unlimited`; the operations of the two classes differ only where the limit does.
  `single` chooses a `single_item_queue` for those who wait: it refuses a second one by an exception (`FullOfAwaiters`).
* A blocked producer puts a second item aside, made of arguments that were already forwarded:
  `PushBlocked` chooses whether it is the item (an lvalue was pushed) or
  what is left of it (`movedFrom`). `unblock_push` drops that one; the item that was queued before stays (finding 2).
* The destructor drops the promises of all who wait.
* `pushed` and `asked` are history variables for the properties.

### Publisher

* `q`, `pos`, `regs`, `nextFree`, `closed` are the members of `publisher::queue`; an item is its number, so that
  `q` shows where in the stream the deque begins. `handle`, `mode`, `val` are the members of a subscriber.
* Each critical section of `_mx` is one step. `next()` of a subscriber is up to three: `ready()`, `subscribe()`,
  `check_next()`; the states between them are `checked` and `reading` in `use[s]`, or `late` when `subscribe()` found the publisher closed and
  did not advance; `next_ready()` gives up after the first (`GiveUp`). `push`, `close` and `kick` collect awaiters in `wake[t]`
  and resume them one by one after the unlock (`Resume`).
* What `next()` should give is `NextItem`, by the type of the subscription, and the reasons for the end are `NoNext`. `InOrder` and `EndIsJustified` ask for them
  of every read up to the first end. They say nothing of a `late` read, which breaks them: `NextKeepsItsWord` does, and is violated (finding 6). `seen` is the newest item that
  a subscriber has read. One may begin at any position (`SubscribeAt`); who begins past the newest item has no read before the end.
* Positions wrap around in the code (`std::size_t`) when a subscriber advances past the end of the stream;
  `Needed`, `get_value` do what the wrapped differences do, and `Garbage` stands for what an index outside of the deque yields.
* Assumed of the caller: a subscriber is not destroyed during its own `next()`. A place in `Subscribers` is used again after its
  subscriber has gone. `MaxItems` bounds what is published.

### Resumption

* `stack[t]` is what lies on the stack of thread `t`: coroutines that were resumed, and calls of
  `install_queue_and_call` with the handles they have still to resume and the `prev` they will restore.
  `queue[t]` and `active[t]` are `coro_queue::queue_impl::instance` and `coro_queue::instance`.
* Only the top of a stack acts. A symmetric transfer replaces the top, a `resume()` pushes, a suspension pops.
* What a coroutine awaits is a coroutine or `Event` (anything else of the library). Setting and walking the future is in
  `Future`; here the walk is `Wake` (the handle goes to some `suspend_point`) and, for the result of a coroutine, part of `Finish`.
* Assumed: `pause()` runs where a queue is installed (the code dereferences it); a `suspend_point` is left alone
  while its destructor resumes its handles; with `SelfLast = FALSE`, a coroutine does not await a `suspend_point` whose *last* handle
  is its own: `await_suspend` pops the handle to resume before it looks for the awaiting coroutine among the rest, and would
  resume and queue it. `MaxDepth` bounds the stacks.

### ThreadPool

* `exit`, `queue`, `threads` are `_exit`, `_queue`, `_threads`; `current[a]` says whether the thread-local `_current` is this pool.
  `joins[a]` and `hands[a]` are the local variables `tmp` and `q` of a `stop()` that `a` is in.
* A task does what a client may do: it enqueues, stops the pool, destroys it. `StopBegins` is the critical section of `stop()`, `Join` one round
  of its loop, `Drop` and `StopReturns` what happens when its locals are destroyed.
* The tasks differ in what their destructor does when they were not run: `AwaitedTasks` resume a coroutine with an exception
  or drop a promise, `SilentTasks` (`run_detached`, and the bare handles that `resume` queues, with them those of `run` of a coroutine and of `co_await pool(awaitable)`) do nothing, and a
  coroutine handle in one is lost: who waits for that coroutine waits for ever.
* Assumed of the caller: nobody destroys the pool while another thread is in `stop()` or has called `worker()`, and no client
  calls a pool that is being destroyed. Tasks may.

### HandleArray

* `point[p]` has `_count_flag` and the cells of the array in use, the one in the object or the one on the heap; `add`, `Count`, `External` are the
  operations on it. `list[p]` is the sequence it stands for, which each action updates as `Resumption` does: the refinement is the invariant `HoldsTheList`.

### Scheduler

* `heap` is `_scheduled` as a set of items; `Front` is what may be first. `remove()` moves a promise out of the middle of the
  heap, so that `Emptied` items stay behind until they are popped. `st[s]` is the promise of a call of `sleep_until`.
* A worker coroutine is a `w` in `Workers`: `Start`, `Check` (the condition of the loop), `paused` (the mutex is released and
  the coroutine is behind others in the queue of its thread or pool), `Test` (the stop, `get_expired_lk`, and whether it may block), `Block`, `WakeUp`.
  `PoolWorkers` run in a pool, `SpareWorkers` in one with other threads. `awake[w]` are the coroutines it woke, `others` anything else in that queue.
* `RequestStop` and `StopCallback` are two steps, as they are in `std::stop_source`, and the callback does not take the mutex (finding 3).
* A pool may be stopped (`PoolStops`): what is in its queue is dropped, the coroutines the worker woke are `lost` there, and so are those it wakes afterwards
  (`Wake`); the worker ends at its next `co_await` of the pool, or at once if it was in the queue.
* `remove()` pops the items of its identifier that were emptied as long as one is in front. When that was the last of all it goes on with the front of an
  empty heap, which is undefined: it does not come back (`Remover` keeps the mutex), and `fault` records it (finding 5).
* Time passes in steps of its own (`Tick`) up to `MaxTime`.

### Generator

* `body`, `caller`, `ret`, `exp`, `done`, `block` are the coroutine and its promise; `inUser` says whether the body still
  runs inside of `resume()` in the consumer's thread. `BodyAwaits` and `BodyContinues` move it to another thread.
* The consumer asks by `next_sync`, `next_future` or `next_async`, at any request anew. What follows a `co_yield` is split where another
  thread can step in: the exchange of `_caller` (`Suspends`), the call (`unblock_sync`, ...), and `notify_all` (`NotifyBlock`).
* `LeavesAtOnce` lets the owner destroy the generator between the store to `_block` and `notify_all`, which then uses memory that is gone. `abuse` records this and
  the failing of the assertion that the generator is not busy.

### Aggregator

* `phase` is the coroutine and its frame, `count` and `arrived` the members of the controller and the queue; `source[s]` is
  what a generator of the list is doing. `Answer` is any time a source is suspended, in any thread. `WaitOne`, `Left` are the destructor of the controller.
* `Ended` are sources that had ended when they were passed: charging one throws. The sources behind it in the list were then never charged, and the
  destructor waits for them (with `Ended` not empty, `AggregatorAnswers` fails).

### Signal

* `chain` is `_chain`, `walk` what a call has detached and still has to resume; callbacks link themselves again in the middle of it, into the new chain.
* `holders` are strong references; an emitter has a weak one, which it locks while it subscribes (`locking`), so that it may turn
  out to hold the last. `Released` is the destructor of the shared state.
* `emitting` says whether the value is stored in the state or referred to. With `QueuedResume = TRUE` the collector is called by a coroutine that discards the
  result: the emitters are then only queued, and run after the value changed (`ReadsItsValue` fails; the documentation asks for `co_await`).

### SharedFuture, Defaults, Callbacks, Conversion

* `SharedFuture`: `keeps[o]` is the reference that the future holds to itself, `tracer[o]` the awaiter that gives it up, `charging[h]`
  the part of a constructor that runs after the promise was handed out. `restarted` are futures used again by `operator<<`, which does not charge them.
* `Defaults`: `holds[h]` and `def[h]` are the two members, moved one after the other: `taking[h]` is an assignment in progress. `constant` are the variants whose
  default is a template parameter. `moved` and `lost` record what an assignment does: it drops the future of its target and leaves its default behind;
  `bare` are the futures of promises made by an inherited constructor, which sets no default.
* `Callbacks`: `dpc`, `dsub`, `deletes` follow the object of each `discard()`, `cpc`, `csub`, `starts`, `called` the reusable `call_fn_future_awaiter`,
  which its own callback may start again.
* `Conversion`: `prom`, `from`, `attached` are the members of a `future_conv`, `kept` the promises that the function took over. `SourceIsVoid` chooses
  the form whose function has no argument; there an exception is not passed on, and the function is called as for a value. `call[w]` is the coroutine of `callback_await`; a callback that throws
  when it is called with the value is called a second time, without one.

### Storage

* `Storage`: `size[b]` is what the heap knows of an address; `New` returns any free one, those that were in use before included. `AllocBegins`, `Shrink`, `Grow`, `Fallback`
  are the steps of `alloc` between which another thread can run. `learned` and `taken[f]` are the shared state of `stack_storage` and what one caller of `alloca` took.

### MCComponents, MCSafety, MCContracts

`part` names the one component that is at work in a behaviour; the others rest. The components have no
state in common, so that nothing is lost by not interleaving them, and each conjunct of `Spec` is the specification of that component. `MCSafety` has `Future` and `Publisher` in this way, `MCContracts` `Future` and `Scheduler`.

## 3. What TLC checks

Type invariants (`TypeOK` and its kin) are not listed in the runs: where they matter the proofs contain them.

| Run | Instance | Properties |
|---|---|---|
| `future` | either 2 futures, 2 promises, 2 threads, a coroutine, a blocked thread, a heap awaiter, or a publisher with lengths 1 and 2, 2 subscribers of all types, 2 threads, 2 items; up to symmetry | `ResolvedOnce` (claims hand a pending future to exactly one resolver; assertion of `set`), `WalksSuspended` (a walk never touches a resumed awaiter), `OneOutcome` (readers agree), `NoLostWaiter`; `ListsSound` (free list and registrations; the newest items are kept, as many as the lengths say), `NobodySleepsThrough`, `InOrder` (the item that the type of subscription promises), `EndIsJustified` (the end of the stream is told to who has read it, was kicked, or fell behind) |
| `contract` | either 1 future, 2 promises, 2 threads, a coroutine, a blocked thread, a callback, or 2 sleeps, 1 identifier, a worker in a thread of its own or in a pool of one thread, times 0, 1 and never; fair | `ImplementsContract` (refinement of `FutureSpec` with liveness); `NoOversleep` (no worker waits past the earliest sleep), `NoPromiseLost` (nothing is popped unresolved, nobody woken is forgotten), `SleepEnds`, `OthersRun` (the worker does not block the coroutines of its thread) |
| `mutex` | 3 coroutines, 1 blocked thread; fair | `MutualExclusion`, `QueueDiscipline` (assertions of `build_queue`, `unlock`), `FirstComeFirstServed` (refinement of `MutexSpec`), `WaiterRuns` |
| `resumption` | 3 coroutines, 2 suspend_points, 2 threads; fair | `OneHandle` (a suspended coroutine that is ready has one handle, others have none), `QueueIsServed`, `QueuedRuns` |
| `thread_pool` | 2 workers, 2 clients, 3 tasks; fair | `EachTaskOnce`, `WorkersGone` (after `stop()` and after the destructor), `TaskSettles`, `StopEnds` |
| `components` | one of the components below at a time; fair | see there |
| `mutex_reload` | as `mutex`, `NextReload = TRUE` | `MutualExclusion` is violated (finding 1) |
| `queue_unblock` | 3 items, 2 pops, 2 threads, limits 1 and 2 | `UnblockedIsRemoved` is violated (finding 2) |
| `scheduler_stop` | one worker in a thread of its own, 1 sleep; fair | `StopEnds` is violated (finding 3) |
| `storage_grow` | 3 coroutines with frames of 2 sizes, 4 addresses | `OneFrame` is violated (finding 4) |
| `scheduler_cancel` | 2 sleeps, 1 identifier, 1 worker | `CancelFinds` is violated (finding 5) |
| `publisher_close` | 1 subscriber of all values, 1 thread, 2 items | `NextKeepsItsWord` is violated (finding 6) |

The run `components`:

| Component | Instance | Properties |
|---|---|---|
| `Queue` | 3 items, 2 pops, 2 threads, no limit or 1 or 2, with and without `single_item_queue` | `PromisesKept` (no item and waiter at once; one promise per pending operation), `InItsOrder` (items are delivered in their order, none is invented, and none lost but of a push that was unblocked, also when promises are resolved late; the copies of a limited queue come later), `MatchedPopAnswered` |
| `Signal` | 2 emitters, 1 callback, 2 strong references, 2 values | `ReadsItsValue`, `NobodyWaitsForTheDead` |
| `Generator` | 2 items, 2 awaits of the body | `EveryItemOnce`, `AskEnds` |
| `Aggregator` | 3 sources | `NoOrphan` (no source is active when the frame is gone), `AggregatorAnswers` |
| `SharedFuture` | 2 handles, 2 futures | `PendingKept` |
| `Conversion` | 2 conversions of a `future<void>`, 1 `callback_await` | `ConversionAnswers` |
| `Storage` | 2 coroutines, 3 addresses, one size of frames in the buffer, two on stacks | `OneFrame` |
| `HandleArray` | 2 suspend_points with 2 handles inline, 5 handles | `HoldsTheList` |
| `Defaults` | 2 futures, 2 promises | `DefaultReaches` |
| `Callbacks` | 2 calls of `discard`, 2 starts of the awaiter | `CallbackOnce` |

**Bounds.** Two promises and two threads suffice for every race on `_owner`: a claim, a
move and a drop meet in pairs. A second future is needed so that a move assignment drops one future while it takes over
another. Three awaiters give chains whose walk still has a rest
when a member vanishes, of all kinds between the two runs. Four clients of the mutex let one own it, one build the queue, and two arrive
during that; the list `_queue` reaches length 3. Three items fill a limit of 2 and
leave a producer blocked, or two behind a limit of 1; two threads let one resolve late while the other pushes or pops. Two subscribers share the free list, are copied, and one lags while the other leads;
two threads let one resume what it collected while the other publishes or closes; a deque of one or two items and a stream of two
is cut, read behind and read past the end. Three coroutines let one wait for another while a third is in the queue, two suspend_points can be merged, and
stacks of six frames nest `install_queue_and_call` three deep. Two workers let one stop the pool
in its task while the other sleeps, runs, or stops it too; the other threads become workers or
stop it from outside; the third task waits in the queue meanwhile. Two sleeps lie in the heap in either order, one of them emptied while the
other is behind it; a sleep is due at once, one step of the clock later, or there is none to wait for. Two emitters and a callback make a chain whose walk has callbacks before and behind emitters;
the second value finds some linked and some not. Two items and an end let a generator change threads between any two requests. Of three sources
one is held while one is in the queue and one active. Two frames meet in one buffer, the third address is free to be reused. Five handles fill the object and one array, and make it grow.
Every behaviour of each instance is explored; the only counters
cut by a bound are `MaxItems`, `MaxAwaits`, `MaxEmits`, `MaxStarts`, `MaxHandles`, `MaxTime` and `MaxDepth`.

Constants that stand for what a caller, or the compiler, decides have the value for which the code is right, and the opposite is
named where it is not: `NextReload` (finding 1), `FrameSizes` of more than one size (finding 4), `SelfLast`,
`QueuedResume`, `LeavesAtOnce`, a non-empty `Ended`. `SourceIsVoid = TRUE` is the form of `future_conv` that allows more.

`CHECK_DEADLOCK FALSE` is set where objects run out of lifetimes (`Future`) or operations
(`Queue` and the other components), since each constant stands for one of them; where subscribers have all read (`Publisher`), where
coroutines have returned or await each other in a circle (`Resumption`), where the pool is stopped (`ThreadPool`), and where the
worker has ended (`Scheduler`). The clients of the mutex lock for ever, and
deadlock is checked there.

**Fairness.** A thread inside an operation keeps running, and a coroutine or thread that was
resumed runs: weak fairness of the steps of a thread (`ThreadStep`), of an awaiter (`WaiterStep`), of a client
inside `lock`/`unlock`, of `Resolve`. Nothing is assumed about starting operations, except that an
owner of the mutex releases it some day. The loops of `compare_exchange` may fail for ever
only if others keep succeeding; the instances are finite or the winner must wait for the loser, so that weak fairness is enough. In `Resumption` the loop of
`install_queue_and_call` goes on and a coroutine gives up its thread some day (`Leave`). In `ThreadPool` workers and `stop()` go on, and a task returns if
the calls of `stop()` it makes do: strong fairness of `TaskEnds`, because a task is no candidate to return while it is in one. Nothing forces a
spurious wakeup: the notifications alone must wake the workers. In `Scheduler` the clock advances, and a worker gets the mutex and its turn in the queue of its
thread some day though others take them meanwhile: strong fairness of `Work` and `RunOther`; again only notifications and the time wake it (`Woken`).
In `Generator` what the body awaits resumes it; in `Aggregator` an active source is suspended some day, for `Generator` promises that (`AskEnds`);
in `Conversion` what is awaited is resolved, and who took a promise uses or drops it; in `Signal` and `SharedFuture` a walk and a
constructor go on.

### Findings

1. `mutex::subscribe` reads `aw->_next` after the awaiter was made public. An unlocking thread that takes this
   awaiter off `_queue` clears `_next`; `subscribe()` then believes that it found the mutex free
   and runs `build_queue` next to the new owner. `awaiter.h` says of the `compare_exchange` that
   it "is last operation of this thread with awaiter".
2. `limited_queue::push` inserts the item before it blocks the producer, then puts a second one aside. `unblock_push` drops the second one only: an item
   whose push failed is still delivered, although a note there says that "unblocking push operation also removes the item".
3. The stop callback of a worker of the scheduler notifies without the mutex. A stop that is requested between the worker's test of
   `stop_requested()` and its wait is not noticed until the next time point, for ever if there is none: `start(awt)` does not return, and the
   destructor hangs.
4. `reusable_storage_mtsafe::dealloc` recognises the buffer by its address. While `alloc` in one thread replaces the buffer by a larger one, another thread may
   be given the old address by the heap; its `dealloc` then marks the storage as free under a coroutine that runs in it.

5. `scheduler::remove()` leaves an item without its promise in the middle of the heap. When the identifier is cancelled again and such items are
   all there is, its loop pops the last one and reads `_scheduled[0]` of an empty vector, where its documentation promises an "empty promise".
6. A publisher that is closed between `ready()` and `subscribe()` of a subscriber makes `advance_suspend_lk` return without
   advancing. `check_next()` then reads at the old position: the last item again or, in the run, the end of the stream, with an item left of which
   the documentation says that "the subscribers can still read" it.

Met while reading, and not the subject of a run:

* Publisher: the skipping modes return items after the end of the stream has been
  reported, or index an empty deque when it was closed with nothing published. They may deliver the recent item twice when another is published between `ready()` and `check_next()`, which `NextItem` allows them.
* Queue: the second item that `limited_queue::push` puts aside is queued later, so that what was pushed is delivered a second time, or what is left of it.
* Resuming: a coroutine that awaits a suspend_point whose last handle is its own, as in `co_await self()`, is resumed and queued, although the comment there wants "to avoid double insert";
  a nested `install_queue_and_call` flushes the queue of the outer one,
  although documented to keep them apart; `parallel` resumes a coroutine where no queue is installed, so that `pause()` in it dereferences nullptr;
  `immediately` has a callback with a signature that awaiters do not accept.
* Thread pool: handles that `thread_pool::resume` enqueues after `stop()` are lost without a word; `any_enqueued` is true for each stopped pool;
  a second `stop()` returns while the first one still waits for tasks.
* Scheduler: the stop callback of `interval()` locks a mutex that its thread holds; in a pool of one thread, a worker that waits is not woken by what others submit to the pool;
  nor by `thread_pool::stop()`, which joins it meanwhile.
* Generator: `unblock_sync` calls `notify_all` on a flag of a frame that the consumer may have destroyed already; a generator that ended by an exception fails the
  assertion that it is not busy when it is awaited a second time. An aggregator that is given a source that had ended waits for the sources behind it, which were never charged.
* Future: `initialized()` tests the wrong way round; `value()` throws `await_canceled_exception`
  for a dropped promise where its documentation says `value_not_ready_exception`; a move assignment of `promise_with_default` drops the future of its target without the default, and moves its own
  default into itself instead of taking the other's;
  the callback of `make_promise` runs when the promise is called, not when all its instances are destroyed, as documented;
  `future_with_cb::operator<<` destroys the pending future; `set_value_and_suspend` calls a function that does not exist.
* Function: the constructor "from other object with different internal storage" reads a protected member of another specialization, so that it cannot be used.
* Others: `shared_future::init_if_needed()` is inverted, and `operator<<` does not charge the future it starts; `future_conv` of a `future<void>` converts an exception as if it were a value;
  `callback_await` calls a callback a second time when it throws; `static_storage` has a `dealloc` that is not static, so that no coroutine can use it; `coro_storage.h` uses `std::atomic`
  without including it.

## 4. What is proved

For every number of objects, threads, items and requests. The assumptions are those named in the modules: kinds of awaiters are disjoint, special
pointers and tags differ from all objects, bounds are numbers, the clients of the mutex are finitely many. Where a theorem has a premise it is one of the constants of the section before.

| Theorem | States | Premise |
|---|---|---|
| `FutureProofs`: `ResolutionUnique`, `WalkSafe`, `OutcomeAgreement` | `ResolvedOnce`, `WalksSuspended`, `OneOutcome` | |
| `TypeCorrect`, `ResolverUnique`, `NeverSetTwice`, `ResultStable` | `TypeOK`, `OneResolver`, `SetOnce`, `ResultIsFinal` | |
| `WaitersAreFound` | `NoLostWaiter` | |
| `ContractImplemented` | the safety part of `FutureSpec` is implemented | |
| `MutexProofs`: `Exclusive`, `QueueSafe`, `TypeCorrect` | `MutualExclusion`, `QueueDiscipline`, `TypeOK` | `~NextReload` |
| `LineImplemented` | the safety part of `MutexSpec`, and so of `FirstComeFirstServed`, is implemented | `~NextReload` |
| `ThreadPoolProofs`: `WorkersAreGone`, `QuietStop`, `SafeDestruction`, `TasksAreOnce`, `TypeCorrect` | `WorkersGone` and its two halves, `EachTaskOnce`, `TypeOK` | |
| `SchedulerProofs`: `WokenInTime`, `PromisesInHeap` | `NoOversleep`, `NoPromiseLost` | |
| `PublisherProofs`: `ListsAreSound`, `SleepersAreWoken`, `TypeCorrect` | `ListsSound`, `NobodySleepsThrough`, `TypeOK` | |
| `ReadsInOrder`, `EndsAreJustified` | `InOrder`, `EndIsJustified` | |
| `ResumptionProofs`: `QueuesAreServed` | `QueueIsServed` | |
| `ResumedOnce`, `TypeCorrect` | `OneHandle`, `TypeOK` | `~SelfLast` |
| `StreamProofs`: `PromisesAreKept`, `ServedInOrder`, `ItemsOnce` | `PromisesKept`, `InItsOrder`, `EveryItemOnce` | |
| `BusyAfterException` | `NotAbused` | `~LeavesAtOnce` |
| `NoSourceOrphaned` | `NoOrphan` | |
| `ValueIsRead` | `ReadsItsValue` | `~QueuedResume` |
| `LinksAreUnique` | `LinkedOnce` | |
| `OwnershipProofs`: `PendingStays`, `DefaultsReach`, `CalledBackOnce` | `PendingKept`, `DefaultReaches`, `CallbackOnce` | |
| `FramesAreOwn`, `FramesAreFreed` | `OneFrame`, `NothingLeaks` | `OneSize` |
| `StackFrameFits`, `ListsAreHeld` | `FitsTheStack`, `HoldsTheList` | |

Hardly any of these is inductive. What each rests on:

**Future.** `IInv` adds what the code relies on silently:
`Moves` (the operands of a move assignment are alive, its target is empty), `Claims` (`OneResolver` as
statements about pointers), `Unwritten` (an unclaimed future has no result), `Stages` (where threads and
awaiters are), and `Chains`. A chain is never described as a list: it is enough
that whatever is linked, from a future, an awaiter or the cursor of a walk,
is suspended on the same future as what links it, and linked from one place only. Each conjunct is
preserved by each action (`TypeStep`, `MovesStep`, ... `ChainsStep`); `ClaimKeepsClaims` and `MoveKeepsClaims`
carry the arguments that promise operations share. For the refinement each action is shown to be one step of the contract
(`MapSettle`, `MapAwait`, `MapObserve`) or none (`MapStutter`): only the exchange in `resolve()` and the
constructors of resolved futures settle a future.
`NoLostWaiter` says that the recursion along the links finds all who are registered. Its proof needs no list either, but an order: `Reachable` gives each of them a depth that is one more than
that of what links it (a newcomer is at the head, so everyone else is moved down by one). Of those the recursion did not find,
one would have the smallest depth; what links that one is found or is the head, and so it is found itself.

**Mutex.** `IInv` names the lists: there is an assignment `loc` of the waiting clients to the stack under
`_requests`, the stack that a `build_queue` has detached, and `_queue`, such that each list
is closed under `_next` up to its end (doorman, the new owner that has not replaced itself, or nullptr)
and all links are injective. `loc` is existentially quantified: each step shows the assignment
after it (`ListsStep`), so that no history variable is needed. `HolderStep` proves that one client has all the activities that act as owner.
For the order, `Chained` adds that each list, followed by `_next`, comes to its end, and that somebody holds a mutex that is locked. A list that ends meets nobody twice (`NobodyTwice`) and is
the only one from its head (`OneChain`), so that `Chain` finds it (`ChainFound`, the one place where `Clients` has to be finite). The line is then the detached stack from its bottom, `_queue`, and the stack from its bottom:
`Swapped` and `Pushed` show that an exchange and a round of `build_queue` only move clients from one part to another, `Enqueued` that a `compare_exchange` appends one, `Granted` that `unlock` takes the first.

**ThreadPool.** `Custody`: `_threads` is emptied by the first `stop()`, so each worker is in the hands of one `stop()` until it is joined, which it is after it
has left, or detached, which only it does itself. `Roles` says that a detached worker does not come back to the lock and who is in `stop()` is not
in the loop of a worker; `Destruction`, that a `stop()` which starts after the destructor has nothing to join.
For the tasks, `Listed`: neither `_queue` nor the queue that a `stop()` has taken has a task twice, no two of them share one, and what is listed was not begun; `Begun`: what runs is run
by one worker; `Kept`: what was enqueued and not begun is in `_queue`, or with a `stop()` that goes on. Head and tail of a queue without repetitions are lemmas (`FirstLeaves`, `LastJoins`).

**Queue.** `PopsOnce`, `PushesOnce`, `HandsOnce`: no name occurs twice among those who wait, a thread has the promise of an operation only if none of the
queues and no other thread has, and what is in one of these places is pending. That an operation takes a promise from the front of a queue, or an arbitrary one of an unblocked
producer, and puts it into its own hand keeps them.
For the order, `Delivered` is what the answered pops were given, in the order they asked, and after it what is queued; what a pop is given is with its promise until that is resolved, so that late resolving changes nothing (`ResolvedAnswers`).
`Latest` says that the last who asked are those who wait, which makes the one unblocked the first unanswered one. `Delivering` is the inductive part: in a queue `Delivered` is what was pushed; in a limited queue
the items come for the first time in the order of `push()` (`Ordered`). It needs of `History` that an item put aside is one that was pushed before or moved from: then it may come again, but never before its turn. All this holds of the items of unblocked pushes too, since
the code does not remove them; the property does not ask for it. `Over` keeps the answers after the destructor.

**Scheduler.** `HoldsMutex`: a worker owns the mutex from its look at the heap until it waits, so that nobody schedules in between. `WaitsForFront`: whoever waits
without having been notified waits for no later time than any item in the heap, emptied ones included; that is what makes the test in `schedule()`, which compares with the front only, sufficient.
`PromisesStay`: what is popped is emptied, or about to be resolved. `AwakeOnce`: a sleep leaves `scheduled` when it enters the queue of one worker, and is not woken again.

**Resumption.** `QueueIsServed` is inductive with the types of the lists (`Sound`): a step changes the stack, queue and flag of one thread, so that it
is enough that what it leaves there is `Served` (`Local`). Removing a call restores `prev`, which is right because `prev` says whether there is a call further down.
`OneHandle` counts the places of a handle. The proof takes all lists as one function from holders (a suspend_point, a queue, a call on a stack) to sequences:
`Owed` says that no handle occurs twice in it, that each ready coroutine has one there, that those who have one are ready or running, and,
outside of suspend_points, ready; `InFrames`, that each running coroutine is on one stack at one depth, and nobody else is.
What the actions do is composed of a few changes of such a function, each with a lemma: a handle is put somewhere, taken from the front or the back of a list, or a list is moved to another.
`co_await` of a suspend_point is a composition of three: its last handle is taken, the others are moved to the queue,
and the coroutine appends its own unless it has just been moved. With `SelfLast` the handle that was taken could be its own, so that it would be queued and run: there the
invariant ends. Only `OneHandle` and the types have the premise; `QueueIsServed` holds without it.

**Publisher.** Everything rests on five facts at once. `Registered` and `Free`: who is alive has a used slot of its own, and the others are in the free list, which is an
injective list of n slots: `subscribe` takes its head or, if n is 0, a new slot; that the destructor's
n + 1 slots still fit is the pigeonhole principle. `Newest`: the queue is the end of what was published, which needs the minimum and maximum that `push_lk` computes over all slots.
`Sleepers`: a registered awaiter stands at the next item of an open publisher, and one that was collected is in one place of one thread; `AllAwaiters` shows
that the loop of `push_lk` collects each once. `Reading` is what makes `next()` correct although it takes two or three critical sections: `Progress` says that
the position is past what was read only while an item is due, and at the end only if nothing is due but `close`; `Pace`, by how much
each type of subscription may be ahead. `WhatIsRead` then derives from the position what `get_value_lk` returns, and both action properties follow.

**Generator, Aggregator, Signal.** `Requests` splits a generator into `Resting`, `Working` and `Handing`: who has the caller, whether an item is on its way,
and how far the consumer is behind (by one item in `Handing`, not at all otherwise); `Callable` adds that what ended was done or thrown, and keeps a caller only if it threw. `Counted` says that `_count` is the number of sources that are not over; `Arrivals`, that
the queue holds those pushed, once each; `OneIsNot`, that one of them is not active when the destructor begins to wait. `Emission` says that whoever is woken was woken by the current value, which
cannot change before they ran; `LinkInv`, that an awaiter is in the chain or in the walk at one place, and that an emitter about to subscribe is in neither.

**Promises.** `Charged` is `PendingKept` with the two steps of charging: between them the constructor itself has the reference. `Backed` says that a promise with a default
has the default of its own future, unless one of the two was in an assignment or it was made without. `DiscardStages` and `AwaiterStages` count calls and deletes by where the subscriber and the future are.

**Storage.** `BusyMeansOne`: whoever is in the buffer, or allocates it, is the only one, and `_busy` is set. `BufferStays`: with frames of one size, a buffer that exists is large enough
and is never replaced, so that its address is nobody else's. `Needs` relates the size asked for to the place.

**HandleArray.** `Keeps` relates an object to the list it holds, and adds what the code relies on: an array is never empty, so that doubling it makes room, and without the flag
the capacity is the one of the object. `AddKeeps` is the step of `add` on the bits of the counter, and `AllKept` goes along the loop of `operator<<` with it.

**Only model-checked:** everything under fairness (`WaiterRuns`, `MatchedPopAnswered`, `QueuedRuns`, `TaskSettles`, `StopEnds`, `SleepEnds`, `OthersRun`, `AskEnds`, `AggregatorAnswers`, `ConversionAnswers`,
`NobodyWaitsForTheDead`, the liveness of `FutureSpec`
and `MutexSpec`), which the prover does not support.

Induction. The theorems of the library that state it take an operator as a parameter, which the provers cannot instantiate. Where a proof has to go along a chain or a loop it uses `Smallest` instead, that every
set of numbers has a smallest one, proved from the well-founded order of finite sets; `AllNumbers` is induction for the members of a set, and `Buffer` shows with it that the recursive function of the loop in `push_lk` exists.

## 5. Not modelled

* `scheduler::interval`: a generator over `sleep_until`, whose stop callback locks a mutex that its thread holds, which is undefined.
* `future::result_of`, which destroys and rebuilds a future in place, `bind`, `has_value`: they add no step of another thread to what `Future` has.
* `swap_coroutine`, `initial_awaiter` and `resume_handle_next`, which nothing in the library calls; `immediately` and `set_value_and_suspend`, which cannot be compiled when used.
* The conditions that `thread_pool::current` and `pool(awaitable)` test before they enqueue: they are the caller's.
* `static_storage`, which no coroutine can use; `placement_alloc`, `reusable_buffer_storage`, `promise_extra_storage` and a plain `reusable_storage`,
  which one coroutine at a time uses by contract: no order of steps matters.
* `function`: what can be used of it hands a pointer from one object to another of the same type, within one thread.
* `priority_queue`, `generics`, `common`, `exceptions`: adapters, type traits and exception classes without a state of their own.
* The weak memory order: steps are sequentially consistent in all modules. Data races that are undefined are modelled where the value that is read decides
  something (`NextReload`, the address in `Dealloc`); the lifetime of an object that another thread still notifies is modelled in `Generator`, not in `Future`
  (`sync_awaiter` calls `notify_all` on a flag whose owner may have gone).
