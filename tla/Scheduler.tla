------------------------------ MODULE Scheduler ------------------------------
(***************************************************************************)
(* The scheduler (scheduler.h): sleeps ordered by their time, cancelled by *)
(* identifier, and the workers that wait for the earliest of them, in a    *)
(* thread of their own, under start(awt), or in a thread pool.             *)
(*                                                                         *)
(* A call of sleep_until is a member of Sleeps.  _scheduled is a set of    *)
(* items; which of two with the same time comes first is open.  Time       *)
(* passes in steps of its own.                                             *)
(***************************************************************************)
EXTENDS Naturals

CONSTANTS
    Sleeps,         \* calls of sleep_until
    Idents,         \* identifiers they are cancelled by
    Workers,        \* runs of worker_coro
    PoolWorkers,    \* those that run in a thread pool ...
    SpareWorkers,   \* ... with threads besides the one that the worker occupies
    MaxTime         \* bound: the clock stops there

NoOne == "none"             \* nobody holds the mutex, nobody has an identifier
Remover == "remover"        \* one that does not come back from remove()

ASSUME WorkersAssumption ==
    /\ SpareWorkers \subseteq PoolWorkers /\ PoolWorkers \subseteq Workers
    /\ NoOne \notin Workers /\ Remover \notin Workers
ASSUME MaxTimeAssumption == MaxTime \in Nat

Never == MaxTime + 1        \* time_point::max()

VARIABLES
    now,        \* the system clock
    mx,         \* who holds _mx between two steps
    heap,       \* _scheduled: items
    st,         \* what became of the promise of each sleep
    awake,      \* per worker: coroutines it woke, in the queue of its thread or pool
    others,     \* the workers with anything else in that queue
    exit,       \* the workers whose pool was stopped
    pc, until,  \* per worker: where it is, and the time it waits for
    notified,   \* the workers waiting in _cond that were notified
    stop,       \* the workers whose stop_source was asked to stop ...
    notifying,  \* ... and those whose stop callback did not run yet
    fault       \* what remove() did wrong

schedulerVars == <<now, mx, heap, st, awake, others, exit, pc, until, notified, stop, notifying,
                   fault>>
items == <<heap, st>>
queues == <<awake, others, exit>>
sleepers == <<pc, until, notified>>
stops == <<stop, notifying>>

Time == 0 .. MaxTime
Item == [sleep : Sleeps, tp : Time, ident : Idents \cup {NoOne}]
\* "removed" and "taken": out of the scheduler, and about to be resolved by the thread
\* that called cancel() or get_expired(); "woken": the coroutine is yet to be resumed;
\* "lost": so it was when its pool was stopped.
PromiseStates == {"none", "scheduled", "removed", "taken", "woken", "expired", "canceled",
                  "dropped", "lost"}
Places == {"new", "check", "paused", "test", "block", "waiting", "done", "gone"}

SchedulerTypeOK ==
    /\ now \in Time /\ mx \in Workers \cup {NoOne, Remover}
    /\ heap \subseteq Item
    /\ st \in [Sleeps -> PromiseStates]
    /\ awake \in [Workers -> SUBSET Sleeps]
    /\ others \subseteq Workers /\ exit \subseteq PoolWorkers
    /\ pc \in [Workers -> Places] /\ until \in [Workers -> 0 .. Never]
    /\ notified \subseteq Workers /\ stop \subseteq Workers /\ notifying \subseteq stop
    /\ fault \in {"none", "missed", "beyond"}

Fresh ==
    /\ mx = NoOne /\ heap = {}
    /\ st = [s \in Sleeps |-> "none"]
    /\ awake = [w \in Workers |-> {}] /\ others = {} /\ exit = {}
    /\ until = [w \in Workers |-> Never]
    /\ notified = {} /\ stop = {} /\ notifying = {}
    /\ fault = "none"

\* Some of the workers may have ended.
SchedulerInit == now = 0 /\ Fresh /\ pc \in [Workers -> {"new", "done"}]

-----------------------------------------------------------------------------
(* The heap.  remove() leaves an item without its promise in the middle of it. *)

Live(i) == st[i.sleep] = "scheduled"
Emptied == {i \in heap : ~Live(i)}

\* What may be at the front of the heap, and whether the items of P can be the first popped.
Front(items_) == {i \in items_ : \A j \in items_ : i.tp <= j.tp}
PoppedFirst(P) == \A i \in P, j \in heap \ P : i.tp <= j.tp

Become(s, what) == st' = [st EXCEPT ![s] = what]

Notify == notified' = notified \cup {w \in Workers : pc[w] = "waiting"}

-----------------------------------------------------------------------------
(* The clients *)

\* Variant: the workers are notified when the heap was empty only.
Schedule_NotifiesFirst(s, t, id) ==
    /\ mx = NoOne
    /\ st[s] = "none"
    /\ heap' = heap \cup {[sleep |-> s, tp |-> t, ident |-> id]}
    /\ Become(s, "scheduled")
    /\ IF heap = {} THEN Notify ELSE UNCHANGED notified
    /\ UNCHANGED <<now, mx, queues, pc, until, stops, fault>>

\* schedule(), with the time already past or not: the workers are notified when there is
\* nothing in the heap, or the front is later.
Schedule(s, t, id) ==
    /\ mx = NoOne
    /\ st[s] = "none"
    /\ heap' = heap \cup {[sleep |-> s, tp |-> t, ident |-> id]}
    /\ Become(s, "scheduled")
    /\ IF \A i \in heap : i.tp > t THEN Notify ELSE UNCHANGED notified
    /\ UNCHANGED <<now, mx, queues, pc, until, stops, fault>>

\* sleep_until(), whose future holds the promise that is scheduled, and sleep_for(), with
\* a time from now on.
SleepUntil(s, t, id) == Schedule(s, t, id)

\* Variant: all items of the identifier are popped, for the promise of one.
Remove_All(id) ==
    /\ mx = NoOne
    /\ \E i \in heap :
          /\ i.ident = id /\ Live(i)
          /\ heap' = {j \in heap : j.ident # id}
          /\ Become(i.sleep, "removed")
    /\ UNCHANGED <<now, mx, queues, sleepers, stops, fault>>

\* remove(): items of the identifier are popped as long as they are at the front, until
\* one has a promise; else the promise of the first such item is moved out.  The front
\* is read even when the last item was popped: the identifier is still there, so the loop
\* goes on popping what the heap does not have, and the mutex is not released.
Remove(id) ==
    /\ mx = NoOne /\ heap # {}
    /\ \E P \in SUBSET {i \in Emptied : i.ident = id} :
        LET rest == heap \ P
            named == {i \in rest : i.ident = id}
        IN  /\ PoppedFirst(P)
            /\ \/ \E i \in Front(rest) \cap named :
                    /\ Live(i)
                    /\ heap' = rest \ {i}
                    /\ Become(i.sleep, "removed")
                    /\ UNCHANGED <<mx, fault>>
               \/ /\ Front(rest) \ named # {}
                  /\ heap' = rest
                  /\ \E i \in named : Live(i) /\ Become(i.sleep, "removed")
                  /\ UNCHANGED <<mx, fault>>
               \/ /\ Front(rest) \ named # {}
                  /\ heap' = rest
                  /\ named = {} \/ \E i \in named : ~Live(i)
                  /\ fault' = IF \E i \in named : Live(i) THEN "missed" ELSE fault
                  /\ UNCHANGED <<mx, st>>
               \/ /\ rest = {}
                  /\ heap' = rest
                  /\ mx' = Remover /\ fault' = "beyond"
                  /\ UNCHANGED st
    /\ UNCHANGED <<now, queues, sleepers, stops>>

\* get_expired_lk(): the emptied items P are popped and, if it is due, one with a promise.
Expire(i, P) ==
    /\ PoppedFirst(P)
    /\ i \in Front(heap \ P) /\ Live(i) /\ i.tp <= now
    /\ heap' = heap \ (P \cup {i})

\* Variant: the time of the first item is not returned.
NoneDue_Never(t, P) ==
    /\ PoppedFirst(P)
    /\ \A i \in Front(heap \ P) : Live(i) /\ i.tp > now
    /\ t = Never
    /\ heap' = heap \ P

\* Nothing is due: t is when the first of the rest is.
NoneDue(t, P) ==
    /\ PoppedFirst(P)
    /\ \/ \E i \in Front(heap \ P) : Live(i) /\ i.tp > now /\ t = i.tp
       \/ heap = P /\ t = Never
    /\ heap' = heap \ P

\* get_expired(), by a thread that schedules on its own.
GetExpired ==
    /\ mx = NoOne
    /\ \E P \in SUBSET Emptied :
        \/ \E i \in heap : Expire(i, P) /\ Become(i.sleep, "taken")
        \/ \E t \in 0 .. Never : NoneDue(t, P) /\ UNCHANGED st
    /\ UNCHANGED <<now, mx, queues, sleepers, stops, fault>>

\* cancel() resolves what remove() gave it, in its own thread and without the mutex, and
\* so does the caller of get_expired().
Resolve(s) ==
    /\ \/ st[s] = "removed" /\ Become(s, "canceled")
       \/ st[s] = "taken" /\ Become(s, "expired")
    /\ UNCHANGED <<now, mx, heap, queues, sleepers, stops, fault>>

-----------------------------------------------------------------------------
(* worker_coro, from start(), start_in() and start_thread() *)

At(w, place) == pc[w] = place
Go(w, place) == pc' = [pc EXCEPT ![w] = place]

\* The coroutine ends, and its stop callback is gone.
End(w) ==
    /\ Go(w, "done")
    /\ notifying' = notifying \ {w}
    /\ UNCHANGED stop

\* The callback is registered and the mutex taken.
Start(w) ==
    /\ At(w, "new") /\ mx = NoOne
    /\ mx' = w
    /\ Go(w, "check")
    /\ UNCHANGED <<now, items, queues, until, notified, stops, fault>>

\* The condition of the loop; the mutex is released, by the end or for the pause.  A pool
\* that is stopped does not take the worker: co_await throws.
Check(w) ==
    /\ At(w, "check")
    /\ mx' = NoOne
    /\ IF w \in stop \cup exit THEN End(w) ELSE Go(w, "paused") /\ UNCHANGED stops
    /\ UNCHANGED <<now, items, queues, until, notified, fault>>

\* What is in the queue runs while the worker is paused, when it is done, or in another
\* thread of the pool.
Runs(w) == pc[w] \in {"paused", "done"} \/ w \in SpareWorkers

RunReady(w, s) ==
    /\ s \in awake[w] /\ Runs(w)
    /\ awake' = [awake EXCEPT ![w] = @ \ {s}]
    /\ Become(s, "expired")
    /\ UNCHANGED <<now, mx, heap, others, exit, sleepers, stops, fault>>

RunOther(w) ==
    /\ w \in others /\ Runs(w)
    /\ others' = others \ {w}
    /\ UNCHANGED <<now, mx, items, awake, exit, sleepers, stops, fault>>

\* Another coroutine enters the queue: one of the same thread, which has to run for that,
\* or whatever a thread submits to the pool.
Enqueue(w) ==
    /\ w \notin others \cup exit
    /\ w \in PoolWorkers \/ pc[w] = "paused"
    /\ others' = others \cup {w}
    /\ UNCHANGED <<now, mx, items, awake, exit, sleepers, stops, fault>>

\* The worker's turn comes after that of the coroutines it woke.
Resume(w) ==
    /\ At(w, "paused") /\ awake[w] = {} /\ mx = NoOne
    /\ mx' = w
    /\ Go(w, "test")
    /\ UNCHANGED <<now, items, queues, until, notified, stops, fault>>

\* A promise is resolved with the mutex held, its coroutine goes into the queue of the
\* thread or the pool, and is lost in one that is stopped.
Wake(w, s) ==
    IF w \in exit THEN Become(s, "lost") /\ UNCHANGED awake
    ELSE Become(s, "woken") /\ awake' = [awake EXCEPT ![w] = @ \cup {s}]

\* Variant: it waits though there is something in the queue of its thread.
MayBlock_Always(w) == TRUE

\* any_enqueued, can_block: nothing is waited for while there is something in the queue.
MayBlock(w) == w \notin others \cup exit

\* With the mutex again: the stop is tested, and what is due is looked for.
Test(w) ==
    /\ At(w, "test")
    /\ \/ /\ w \in stop
          /\ End(w) /\ mx' = NoOne
          /\ UNCHANGED <<items, awake, until>>
       \/ /\ w \notin stop
          /\ UNCHANGED <<mx, stops>>
          /\ \E P \in SUBSET Emptied :
              \/ /\ \E i \in heap : Expire(i, P) /\ Wake(w, i.sleep)
                 /\ Go(w, "check")
                 /\ UNCHANGED until
              \/ \E t \in 0 .. Never :
                  /\ NoneDue(t, P)
                  /\ IF MayBlock(w)
                     THEN Go(w, "block") /\ until' = [until EXCEPT ![w] = t]
                     ELSE Go(w, "check") /\ UNCHANGED until
                  /\ UNCHANGED <<st, awake>>
    /\ UNCHANGED <<now, others, exit, notified, fault>>

\* _cond.wait_until(lk, x): the mutex is released.
Block(w) ==
    /\ At(w, "block")
    /\ mx' = NoOne
    /\ Go(w, "waiting")
    /\ notified' = notified \ {w}
    /\ UNCHANGED <<now, items, queues, until, stops, fault>>

\* It returns when it was notified, the time has come, or for no reason.
WakeUp(w) ==
    /\ At(w, "waiting") /\ mx = NoOne
    /\ mx' = w
    /\ Go(w, "check")
    /\ notified' = notified \ {w}
    /\ until' = [until EXCEPT ![w] = Never]
    /\ UNCHANGED <<now, items, queues, stops, fault>>
Woken(w) == (w \in notified \/ until[w] <= now) /\ WakeUp(w)

\* thread_pool::stop(): what is in the queue is dropped, which may be the worker that has
\* yet to begin, and nothing enters it any more.
PoolStops(w) ==
    /\ w \in PoolWorkers \ exit
    /\ exit' = exit \cup {w}
    /\ others' = others \ {w} /\ awake' = [awake EXCEPT ![w] = {}]
    /\ st' = [s \in Sleeps |-> IF s \in awake[w] THEN "lost" ELSE st[s]]
    /\ UNCHANGED pc \/ (At(w, "new") /\ Go(w, "gone"))
    /\ UNCHANGED <<now, mx, heap, until, notified, stops, fault>>

\* The worker may have been among that: it is resumed with an exception, and ends.
PoolStopped(w) ==
    /\ At(w, "paused") /\ w \in exit
    /\ End(w)
    /\ UNCHANGED <<now, mx, items, queues, until, notified, fault>>

\* request_stop(), by the callback of start(awt) or by the destructor: the flag, and then
\* the callback, which notifies without the mutex.
RequestStop(w) ==
    /\ w \notin stop /\ pc[w] \notin {"done", "gone"}
    /\ stop' = stop \cup {w} /\ notifying' = notifying \cup {w}
    /\ UNCHANGED <<now, mx, items, queues, sleepers, fault>>

StopCallback(w) ==
    /\ w \in notifying
    /\ notifying' = notifying \ {w}
    /\ Notify
    /\ UNCHANGED <<now, mx, items, queues, pc, until, stop, fault>>

\* The destructor, after the worker it stopped is done, and no start(awt) is running:
\* the promises that are left are dropped.
Destroy ==
    /\ \A w \in Workers : pc[w] = "done"
    /\ heap # {}
    /\ st' = [s \in Sleeps |-> IF st[s] = "scheduled" THEN "dropped" ELSE st[s]]
    /\ heap' = {}
    /\ UNCHANGED <<now, mx, queues, sleepers, stops, fault>>

Tick ==
    /\ now < MaxTime
    /\ now' = now + 1
    /\ UNCHANGED <<mx, items, queues, sleepers, stops, fault>>

-----------------------------------------------------------------------------
Client ==
    \/ \E s \in Sleeps, t \in Time, id \in Idents \cup {NoOne} : SleepUntil(s, t, id)
    \/ \E id \in Idents : Remove(id)
    \/ \E s \in Sleeps : Resolve(s)
    \/ GetExpired

Work(w) == Start(w) \/ Check(w) \/ Resume(w) \/ Test(w) \/ Block(w) \/ Woken(w)
           \/ StopCallback(w)

SchedulerNext ==
    \/ Client
    \/ \E w \in Workers : Work(w) \/ WakeUp(w) \/ PoolStops(w) \/ PoolStopped(w) \/ RequestStop(w)
                           \/ Enqueue(w) \/ RunOther(w)
    \/ \E w \in Workers, s \in Sleeps : RunReady(w, s)
    \/ Destroy
    \/ Tick

\* The clock advances, a worker gets the mutex it waits for, and the queue of a thread or a
\* pool is in order: what is ahead of the worker in it has its turn.
SchedulerFairness ==
    /\ WF_schedulerVars(Tick)
    /\ \A w \in Workers : SF_schedulerVars(Work(w)) /\ SF_schedulerVars(RunOther(w))
                           /\ WF_schedulerVars(\E s \in Sleeps : RunReady(w, s))
    /\ \A s \in Sleeps : WF_schedulerVars(Resolve(s))

SchedulerSpec == SchedulerInit /\ [][SchedulerNext]_schedulerVars /\ SchedulerFairness

-----------------------------------------------------------------------------
(* Properties *)

\* A worker that waits and was not notified waits for nothing later than the earliest
\* sleep: schedule() notifies whenever it puts an item at the front, and cancelled items
\* that are still in the heap do not hide that it did.
NoOversleep ==
    \A w \in Workers, i \in heap :
        At(w, "waiting") /\ w \notin notified /\ Live(i) => until[w] <= i.tp

\* No item is popped with its promise in it, and no coroutine that was woken is forgotten:
\* a sleep that was not cancelled, and whose time did not come, is in the heap, whatever was
\* cancelled around it, and one that was woken is in one queue.
NoPromiseLost == \A s \in Sleeps :
    /\ st[s] = "scheduled" => \E i \in heap : i.sleep = s
    /\ st[s] = "woken" =>
          \E w \in Workers : s \in awake[w] /\ \A v \in Workers : s \in awake[v] => v = w

\* remove() finds the promise of an identifier, if one is scheduled ("If there were no such
\* promise, result is empty promise"), and reads no front that is not there.
CancelFinds == fault = "none"

SleepSettled(s) == st[s] \in {"expired", "canceled", "dropped"}

\* Whatever was scheduled ends, and its coroutine is resumed, as long as a worker goes on,
\* unless its pool was stopped meanwhile, or remove() does not come back.
SleepEnds ==
    \A s \in Sleeps :
        st[s] = "scheduled" ~> \/ SleepSettled(s)
                               \/ st[s] = "lost" \/ fault = "beyond"
                               \/ \A w \in Workers : pc[w] \in {"done", "gone"}

\* What else is in the queue of the thread of a worker, or of a pool with another thread,
\* has its turn: the worker does not wait while there is anything in it.
OthersRun ==
    \A w \in Workers \ (PoolWorkers \ SpareWorkers) : w \in others ~> w \notin others

\* "Once the awaiter is resolved, the scheduler stops and function returns value."
StopEnds == \A w \in Workers : w \in stop ~> pc[w] = "done"
==============================================================================
