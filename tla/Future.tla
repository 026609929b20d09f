------------------------------- MODULE Future -------------------------------
(***************************************************************************)
(* future<T>, promise<T> and the lock-free chain of awaiters between them  *)
(* (future.h, awaiter.h).                                                  *)
(*                                                                         *)
(* A future keeps one atomic pointer, _awaiter, which is `instance' when   *)
(* the future was only constructed, `disabled' when it is resolved and     *)
(* otherwise the head of a stack of awaiters linked by their _next.  A     *)
(* promise keeps one atomic pointer to its future; whoever exchanges it    *)
(* for nullptr must write the result and publish `disabled', and then owns *)
(* the detached stack.                                                     *)
(*                                                                         *)
(* Every element of Futures, Promises and Waiters stands for one object    *)
(* during one lifetime.  Each action is one atomic access to shared memory *)
(* together with the private steps around it.                              *)
(***************************************************************************)
EXTENDS Integers

CONSTANTS
    Futures,        \* future<T> objects
    Promises,       \* promise<T> objects
    Threads,        \* threads that resolve, move and destroy promises
    Coros,          \* co_awaiter of a coroutine: resume() yields its handle
    Syncs,          \* sync_awaiter of a blocked thread: resume() sets its flag
    Callbacks,      \* call_fn_future_awaiter: resume() calls a function
    Heaps,          \* future_with_cb, discard(): the function deletes the future
    Values,         \* values a promise can be called with
    nullptr, instance, disabled     \* pointers that are no awaiter

Waiters  == Coros \cup Syncs \cup Callbacks \cup Heaps

\* What _state and the union member it selects hold.
Results  == Values \cup {"exception", "not_value"}
\* What value() returns or throws.
Outcomes == Values \cup {"exception", "value_not_ready", "await_canceled"}

ASSUME KindsAssumption ==
    /\ \A K, L \in {Coros, Syncs, Callbacks, Heaps} : K # L => K \cap L = {}
    /\ Promises \cap Threads = {}
ASSUME ValuesAssumption ==
    Values \cap {"exception", "not_value", "value_not_ready",
                 "await_canceled", "none"} = {}
ASSUME PointersAssumption ==
    /\ nullptr # instance /\ nullptr # disabled /\ instance # disabled
    /\ {nullptr, instance, disabled} \cap (Waiters \cup Futures \cup Promises) = {}

VARIABLES
    flife,      \* "raw", "alive" or "dead": lifetime of each future
    awt,        \* future_common::_awaiter
    result,     \* future_common::_state with the union member it selects
    plife,      \* lifetime of each promise
    owner,      \* promise::_owner
    next,       \* awaiter::_next
    wfut,       \* the future an awaiter was created for
    wpc,        \* what the awaiter's owner is doing
    got,        \* what the awaiter's owner was given
    tpc,        \* where a thread is inside an operation of a promise
    tfut, tout, \* the claimed future and the result to give it
    cursor,     \* resume_chain_lk: `chain'
    sp,         \* coroutine handles in the suspend_point being filled
    dst, src    \* operands of a move assignment in progress

future_vars  == <<flife, awt, result>>
promise_vars == <<plife, owner>>
waiter_vars  == <<next, wfut, wpc, got>>
thread_vars  == <<tpc, tfut, tout, cursor, sp, dst, src>>
vars == <<future_vars, promise_vars, waiter_vars, thread_vars>>

TypeOK ==
    /\ flife  \in [Futures -> {"raw", "alive", "dead"}]
    /\ awt    \in [Futures -> Waiters \cup {nullptr, instance, disabled}]
    /\ result \in [Futures -> Results]
    /\ plife  \in [Promises -> {"raw", "alive", "dead"}]
    /\ owner  \in [Promises -> Futures \cup {nullptr}]
    /\ next   \in [Waiters -> Waiters \cup {nullptr}]
    /\ wfut   \in [Waiters -> Futures \cup {nullptr}]
    /\ wpc    \in [Waiters -> {"idle", "subscribe", "suspended", "collected",
                               "resumed", "done"}]
    /\ got    \in [Waiters -> Outcomes \cup {"none"}]
    /\ tpc    \in [Threads -> {"idle", "set", "resolve", "walk", "flush", "assign"}]
    /\ tfut   \in [Threads -> Futures \cup {nullptr}]
    /\ tout   \in [Threads -> Results]
    /\ cursor \in [Threads -> Waiters \cup {nullptr}]
    /\ sp     \in [Threads -> SUBSET Coros]
    /\ dst    \in [Threads -> Promises \cup {nullptr}]
    /\ src    \in [Threads -> Promises \cup {nullptr}]

Init ==
    /\ flife  = [f \in Futures |-> "raw"]
    /\ awt    = [f \in Futures |-> instance]
    /\ result = [f \in Futures |-> "not_value"]
    /\ plife  = [p \in Promises |-> "raw"]
    /\ owner  = [p \in Promises |-> nullptr]
    /\ next   = [w \in Waiters |-> nullptr]
    /\ wfut   = [w \in Waiters |-> nullptr]
    /\ wpc    = [w \in Waiters |-> "idle"]
    /\ got    = [w \in Waiters |-> "none"]
    /\ tpc    = [t \in Threads |-> "idle"]
    /\ tfut   = [t \in Threads |-> nullptr]
    /\ tout   = [t \in Threads |-> "not_value"]
    /\ cursor = [t \in Threads |-> nullptr]
    /\ sp     = [t \in Threads |-> {}]
    /\ dst    = [t \in Threads |-> nullptr]
    /\ src    = [t \in Threads |-> nullptr]

-----------------------------------------------------------------------------
(* Observers *)

pending(f) == awt[f] \notin {instance, disabled}

ready(f) == awt[f] = disabled

\* value(): a dropped promise leaves not_value in a future that is not pending.
value(f) ==
    IF result[f] # "not_value" THEN result[f]
    ELSE IF pending(f) THEN "value_not_ready" ELSE "await_canceled"

\* The awaiters that still have to look at f.
Using(f) == {w \in Waiters : wfut[w] = f /\ wpc[w] # "done"}

-----------------------------------------------------------------------------
(* Construction and destruction of futures *)

\* future(): no promise yet.
Construct(f) ==
    /\ flife[f] = "raw"
    /\ flife' = [flife EXCEPT ![f] = "alive"]
    /\ awt' = [awt EXCEPT ![f] = instance]
    /\ UNCHANGED <<result, promise_vars, waiter_vars, thread_vars>>

\* set_value(), set_exception(), set_not_value(): a future that is born resolved.
ConstructReady(f, r) ==
    /\ flife[f] = "raw"
    /\ flife' = [flife EXCEPT ![f] = "alive"]
    /\ awt' = [awt EXCEPT ![f] = disabled]
    /\ result' = [result EXCEPT ![f] = r]
    /\ UNCHANGED <<promise_vars, waiter_vars, thread_vars>>

\* promise(future_t &)
NewPromise(p, f) ==
    /\ plife[p] = "raw"
    /\ plife' = [plife EXCEPT ![p] = "alive"]
    /\ owner' = [owner EXCEPT ![p] = f]

\* future(Fn &&init): calls init with a promise of the new future.
ConstructWithPromise(f, p) ==
    /\ flife[f] = "raw"
    /\ flife' = [flife EXCEPT ![f] = "alive"]
    /\ awt' = [awt EXCEPT ![f] = nullptr]
    /\ NewPromise(p, f)
    /\ UNCHANGED <<result, waiter_vars, thread_vars>>

\* get_promise(), on a future that was only constructed (the code asserts it).
get_promise(f, p) ==
    /\ flife[f] = "alive"
    /\ awt[f] = instance
    /\ awt' = [awt EXCEPT ![f] = nullptr]
    /\ NewPromise(p, f)
    /\ UNCHANGED <<flife, result, waiter_vars, thread_vars>>

\* make_promise(fn): a heap allocated future that is its own first awaiter.
make_promise(f, p, w) ==
    /\ flife[f] = "raw"
    /\ w \in Heaps /\ wpc[w] = "idle"
    /\ flife' = [flife EXCEPT ![f] = "alive"]
    /\ awt' = [awt EXCEPT ![f] = w]
    /\ NewPromise(p, f)
    /\ wfut' = [wfut EXCEPT ![w] = f]
    /\ wpc' = [wpc EXCEPT ![w] = "suspended"]
    /\ UNCHANGED <<result, next, got, thread_vars>>

\* ~future(): the caller must not destroy a pending future (the code asserts
\* it), nor one that another awaiter is still going to read.
DestroyFuture(f) ==
    /\ flife[f] = "alive"
    /\ ~pending(f)
    /\ Using(f) = {}
    /\ flife' = [flife EXCEPT ![f] = "dead"]
    /\ UNCHANGED <<awt, result, promise_vars, waiter_vars, thread_vars>>

-----------------------------------------------------------------------------
(* Resolving: an operation of a promise claims the future first *)

\* Promises a move assignment in progress refers to.  They may be called, but
\* their owner may not destroy or move them meanwhile.
Busy(p) == \E t \in Threads : p \in {dst[t], src[t]}

\* Variant: claim() loads _owner instead of exchanging it.
claim_Load(t, p, r, after) ==
    /\ UNCHANGED owner
    /\ IF owner[p] = nullptr
       THEN tpc' = [tpc EXCEPT ![t] = after] /\ UNCHANGED <<tfut, tout>>
       ELSE /\ tpc' = [tpc EXCEPT ![t] = IF r = "not_value" THEN "resolve" ELSE "set"]
            /\ tfut' = [tfut EXCEPT ![t] = owner[p]]
            /\ tout' = [tout EXCEPT ![t] = r]

\* promise::claim() followed by set_value(args...) or set_value(drop), which
\* skips set().  When the promise is empty the operation goes on at `after'.
claim(t, p, r, after) ==
    /\ owner' = [owner EXCEPT ![p] = nullptr]
    /\ IF owner[p] = nullptr
       THEN /\ tpc' = [tpc EXCEPT ![t] = after]
            /\ UNCHANGED <<tfut, tout>>
       ELSE /\ tpc' = [tpc EXCEPT ![t] = IF r = "not_value" THEN "resolve" ELSE "set"]
            /\ tfut' = [tfut EXCEPT ![t] = owner[p]]
            /\ tout' = [tout EXCEPT ![t] = r]

\* promise::operator()(...), set_value, set_exception; any thread, any time.
Call(t, p, r) ==
    /\ tpc[t] = "idle"
    /\ plife[p] = "alive"
    /\ claim(t, p, r, "idle")
    /\ UNCHANGED <<future_vars, plife, waiter_vars, cursor, sp, dst, src>>

\* ~promise() resolves the future without a value.
DestroyPromise(t, p) ==
    /\ tpc[t] = "idle"
    /\ plife[p] = "alive" /\ ~Busy(p)
    /\ plife' = [plife EXCEPT ![p] = "dead"]
    /\ claim(t, p, "not_value", "idle")
    /\ UNCHANGED <<future_vars, waiter_vars, cursor, sp, dst, src>>

\* promise(promise &&)
MoveConstruct(p, q) ==
    /\ plife[p] = "raw" /\ plife[q] = "alive" /\ ~Busy(q)
    /\ plife' = [plife EXCEPT ![p] = "alive"]
    /\ owner' = [owner EXCEPT ![p] = owner[q], ![q] = nullptr]
    /\ UNCHANGED <<future_vars, waiter_vars, thread_vars>>

\* operator=(promise &&): drops what the target held ...
MoveAssign(t, p, q) ==
    /\ tpc[t] = "idle"
    /\ p # q
    /\ \A x \in {p, q} : plife[x] = "alive" /\ ~Busy(x)
    /\ dst' = [dst EXCEPT ![t] = p]
    /\ src' = [src EXCEPT ![t] = q]
    /\ claim(t, p, "not_value", "assign")
    /\ UNCHANGED <<future_vars, plife, waiter_vars, cursor, sp>>

\* ... and only then claims the future of the source.
MoveAssignEnd(t) ==
    /\ tpc[t] = "assign"
    /\ owner' = [owner EXCEPT ![dst[t]] = owner[src[t]], ![src[t]] = nullptr]
    /\ dst' = [dst EXCEPT ![t] = nullptr]
    /\ src' = [src EXCEPT ![t] = nullptr]
    /\ tpc' = [tpc EXCEPT ![t] = "idle"]
    /\ UNCHANGED <<future_vars, plife, waiter_vars, tfut, tout, cursor, sp>>

\* future::set(): writes the result; nobody else may touch it yet.
set(t) ==
    /\ tpc[t] = "set"
    /\ result' = [result EXCEPT ![tfut[t]] = tout[t]]
    /\ tpc' = [tpc EXCEPT ![t] = "resolve"]
    /\ UNCHANGED <<flife, awt, promise_vars, waiter_vars, tfut, tout, cursor, sp, dst, src>>

\* Variant: resume_chain, which leaves nullptr, instead of resume_chain_set_ready.
resolve_NotReady(t) ==
    /\ tpc[t] = "resolve"
    /\ cursor' = [cursor EXCEPT ![t] = awt[tfut[t]]]
    /\ awt' = [awt EXCEPT ![tfut[t]] = nullptr]
    /\ tpc' = [tpc EXCEPT ![t] = "walk"]
    /\ UNCHANGED <<flife, result, promise_vars, waiter_vars, tfut, tout, sp, dst, src>>

\* resolve(): resume_chain_set_ready publishes `disabled' and takes the chain.
resolve(t) ==
    /\ tpc[t] = "resolve"
    /\ cursor' = [cursor EXCEPT ![t] = awt[tfut[t]]]
    /\ awt' = [awt EXCEPT ![tfut[t]] = disabled]
    /\ tpc' = [tpc EXCEPT ![t] = "walk"]
    /\ UNCHANGED <<flife, result, promise_vars, waiter_vars, tfut, tout, sp, dst, src>>

\* Variant: _next is cleared before the loop advances.
Unlink_ClearFirst(t, y) ==
    /\ tpc[t] = "walk"
    /\ y = cursor[t] /\ y # nullptr
    /\ next' = [next EXCEPT ![y] = nullptr]
    /\ cursor' = [cursor EXCEPT ![t] = next'[y]]

\* One round of the loop of resume_chain_lk: advance first, then resume().
Unlink(t, y) ==
    /\ tpc[t] = "walk"
    /\ y = cursor[t] /\ y # nullptr
    /\ cursor' = [cursor EXCEPT ![t] = next[y]]
    /\ next' = [next EXCEPT ![y] = nullptr]

ResumeCoro(t) == \E y \in Coros :
    /\ Unlink(t, y)
    /\ sp' = [sp EXCEPT ![t] = @ \cup {y}]
    /\ wpc' = [wpc EXCEPT ![y] = "collected"]
    /\ UNCHANGED <<future_vars, promise_vars, wfut, got, tpc, tfut, tout, dst, src>>

ResumeSync(t) == \E y \in Syncs :
    /\ Unlink(t, y)
    /\ wpc' = [wpc EXCEPT ![y] = "resumed"]
    /\ UNCHANGED <<future_vars, promise_vars, wfut, got, tpc, tfut, tout, sp, dst, src>>

\* The function runs inside the loop; that of a heap future ends with `delete'.
ResumeCallback(t) == \E y \in Callbacks \cup Heaps :
    /\ Unlink(t, y)
    /\ got' = [got EXCEPT ![y] = value(wfut[y])]
    /\ wpc' = [wpc EXCEPT ![y] = "done"]
    /\ flife' = IF y \in Heaps THEN [flife EXCEPT ![wfut[y]] = "dead"] ELSE flife
    /\ UNCHANGED <<awt, result, promise_vars, wfut, tpc, tfut, tout, sp, dst, src>>

\* Variant: the suspend_point is dropped with the coroutines in it.
WalkEnd_Drop(t) ==
    /\ tpc[t] = "walk"
    /\ cursor[t] = nullptr
    /\ tpc' = [tpc EXCEPT ![t] = "flush"]
    /\ sp' = [sp EXCEPT ![t] = {}]
    /\ UNCHANGED <<future_vars, promise_vars, waiter_vars, tfut, tout, cursor, dst, src>>

WalkEnd(t) ==
    /\ tpc[t] = "walk"
    /\ cursor[t] = nullptr
    /\ tpc' = [tpc EXCEPT ![t] = "flush"]
    /\ UNCHANGED <<future_vars, promise_vars, waiter_vars, tfut, tout, cursor, sp, dst, src>>

\* The returned suspend_point is awaited or discarded: its coroutines run.
ResumeHandle(t) == \E y \in sp[t] :
    /\ tpc[t] = "flush"
    /\ sp' = [sp EXCEPT ![t] = @ \ {y}]
    /\ wpc' = [wpc EXCEPT ![y] = "resumed"]
    /\ UNCHANGED <<future_vars, promise_vars, next, wfut, got, tpc, tfut, tout, cursor, dst, src>>

Return(t) ==
    /\ tpc[t] = "flush"
    /\ sp[t] = {}
    /\ tpc' = [tpc EXCEPT ![t] = IF dst[t] # nullptr THEN "assign" ELSE "idle"]
    /\ UNCHANGED <<future_vars, promise_vars, waiter_vars, tfut, tout, cursor, sp, dst, src>>

-----------------------------------------------------------------------------
(* Waiting *)

\* co_awaiter::await_ready, or the direct subscription of a callback.  Awaiting
\* a future without a promise is a misuse, and so is sharing one that its own
\* awaiter deletes.
Await(w, f) ==
    /\ wpc[w] = "idle"
    /\ flife[f] = "alive"
    /\ awt[f] # instance
    /\ \A v \in Waiters : wfut[v] = f => {v, w} \cap Heaps = {}
    /\ wfut' = [wfut EXCEPT ![w] = f]
    /\ wpc' = [wpc EXCEPT ![w] =
                  IF ready(f) /\ w \in Coros \cup Syncs THEN "resumed" ELSE "subscribe"]
    /\ UNCHANGED <<future_vars, promise_vars, next, got, thread_vars>>

\* Variant: subscribe() tells the awaiter not to suspend though it is linked.
SubscribeLinked_Runs(w) ==
    /\ wpc[w] = "subscribe"
    /\ awt[wfut[w]] = next[w]
    /\ awt' = [awt EXCEPT ![wfut[w]] = w]
    /\ wpc' = [wpc EXCEPT ![w] = "resumed"]
    /\ UNCHANGED <<flife, result, promise_vars, next, wfut, got, thread_vars>>

\* subscribe_check_ready: the compare_exchange succeeds,
SubscribeLinked(w) ==
    /\ wpc[w] = "subscribe"
    /\ awt[wfut[w]] = next[w]
    /\ awt' = [awt EXCEPT ![wfut[w]] = w]
    /\ wpc' = [wpc EXCEPT ![w] = "suspended"]
    /\ UNCHANGED <<flife, result, promise_vars, next, wfut, got, thread_vars>>

\* or fails and leaves the head it saw in _next,
SubscribeRetry(w) ==
    /\ wpc[w] = "subscribe"
    /\ awt[wfut[w]] \notin {next[w], disabled}
    /\ next' = [next EXCEPT ![w] = awt[wfut[w]]]
    /\ UNCHANGED <<future_vars, promise_vars, wfut, wpc, got, thread_vars>>

\* or meets `disabled': the future was resolved meanwhile, do not suspend.
SubscribeReady(w) ==
    /\ wpc[w] = "subscribe"
    /\ awt[wfut[w]] = disabled
    /\ next' = [next EXCEPT ![w] = nullptr]
    /\ wpc' = [wpc EXCEPT ![w] = "resumed"]
    /\ UNCHANGED <<future_vars, promise_vars, wfut, got, thread_vars>>

\* await_resume(), or the function of a callback called by its subscriber.
await_resume(w) ==
    /\ wpc[w] = "resumed"
    /\ got' = [got EXCEPT ![w] = value(wfut[w])]
    /\ wpc' = [wpc EXCEPT ![w] = "done"]
    /\ flife' = IF w \in Heaps THEN [flife EXCEPT ![wfut[w]] = "dead"] ELSE flife
    /\ UNCHANGED <<awt, result, promise_vars, next, wfut, thread_vars>>

-----------------------------------------------------------------------------
ThreadStep(t) ==
    \/ set(t) \/ resolve(t)
    \/ ResumeCoro(t) \/ ResumeSync(t) \/ ResumeCallback(t) \/ WalkEnd(t)
    \/ ResumeHandle(t) \/ Return(t)
    \/ MoveAssignEnd(t)

WaiterStep(w) ==
    \/ SubscribeLinked(w) \/ SubscribeRetry(w) \/ SubscribeReady(w)
    \/ await_resume(w)

Next ==
    \/ \E f \in Futures : Construct(f) \/ DestroyFuture(f)
    \/ \E f \in Futures, r \in Results : ConstructReady(f, r)
    \/ \E f \in Futures, p \in Promises : ConstructWithPromise(f, p) \/ get_promise(f, p)
    \/ \E f \in Futures, p \in Promises, w \in Waiters : make_promise(f, p, w)
    \/ \E t \in Threads, p \in Promises, r \in Results : Call(t, p, r)
    \/ \E t \in Threads, p \in Promises : DestroyPromise(t, p)
    \/ \E p, q \in Promises : MoveConstruct(p, q)
    \/ \E t \in Threads, p, q \in Promises : MoveAssign(t, p, q)
    \/ \E t \in Threads : ThreadStep(t)
    \/ \E w \in Waiters, f \in Futures : Await(w, f)
    \/ \E w \in Waiters : WaiterStep(w)

Spec == Init /\ [][Next]_vars

\* A thread inside an operation and an awaiter that can run keep running;
\* nothing obliges anybody to start an operation.
Fairness ==
    /\ \A t \in Threads : WF_vars(ThreadStep(t))
    /\ \A w \in Waiters : WF_vars(WaiterStep(w))

FairSpec == Spec /\ Fairness

-----------------------------------------------------------------------------
(* Properties *)

\* The promises that point at f and the threads that claimed it.
Resolvers(f) ==
    {p \in Promises : owner[p] = f}
    \cup {t \in Threads : tpc[t] \in {"set", "resolve"} /\ tfut[t] = f}

\* promise::claim() hands a future to one resolver and loses none: whatever
\* threads call, move and destroy promises, a pending future has exactly one
\* promise or thread that is going to resolve it, and no other future has any
\* (so none is written after ~future()).
OneResolver == \A f \in Futures :
    IF flife[f] = "alive" /\ pending(f)
    THEN \E x \in Resolvers(f) : Resolvers(f) = {x}
    ELSE Resolvers(f) = {}

\* The assertion of future::set(), "can't set value twice".
SetOnce == \A t \in Threads : tpc[t] = "set" => result[tfut[t]] = "not_value"

\* A future is resolved once, by whoever claimed it: nobody else can, and it has no
\* result before.
ResolvedOnce == OneResolver /\ SetOnce

\* resume_chain_lk only touches awaiters that are still suspended on the future
\* it resolves, in spite of concurrent subscriptions and of awaiters that
\* vanish as soon as they are resumed.
WalksSuspended == \A t \in Threads :
    tpc[t] = "walk" /\ cursor[t] # nullptr =>
        /\ wpc[cursor[t]] = "suspended"
        /\ wfut[cursor[t]] = tfut[t]

\* Whoever is let run by the future finds it alive and resolved, and all who
\* read one future are given the one outcome that it was resolved with.
OneOutcome == \A w \in Waiters :
    /\ wpc[w] \in {"collected", "resumed"} => flife[wfut[w]] = "alive" /\ ready(wfut[w])
    /\ wpc[w] = "done" => ready(wfut[w]) /\ got[w] = value(wfut[w])

\* No wake-up is lost between subscribe_check_ready and the exchange in
\* resolve(): once no thread is busy with a resolved future nobody waits for it.
NoLostWaiter == \A w \in Waiters :
    /\ wpc[w] \in {"suspended", "collected"}
    /\ ready(wfut[w])
    => \E t \in Threads : tpc[t] \in {"walk", "flush"} /\ tfut[t] = wfut[w]

\* A resolved future keeps its result.
ResultIsFinal ==
    [][\A f \in Futures : ready(f) => ready(f)' /\ result'[f] = result[f]]_vars

\* The future as its awaiters see it: settled when it is born resolved or by the
\* exchange in resolve().
Settled(f) == IF flife[f] # "raw" /\ ready(f) THEN value(f) ELSE "none"

Contract == INSTANCE FutureSpec WITH
    Outcomes <- Outcomes,
    none     <- "none",
    nowhere  <- nullptr,
    outcome  <- [f \in Futures |-> Settled(f)],
    on       <- wfut,
    seen     <- got

\* future and promise implement the contract, its liveness included: whoever
\* awaits a future that gets resolved is let run and reads the outcome.
ImplementsContract == Contract!Spec
=============================================================================
