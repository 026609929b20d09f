----------------------------- MODULE ThreadPool -----------------------------
(***************************************************************************)
(* thread_pool (thread_pool.h): a queue of tasks under a lock, workers     *)
(* that wait on a condition variable and run them, and stop(), which joins *)
(* the workers and drops the tasks nobody has begun.                       *)
(*                                                                         *)
(* Each critical section of _mx is one step.  A task does what a client    *)
(* may do as well: it enqueues others, stops the pool and destroys it.     *)
(***************************************************************************)
EXTENDS Naturals, SequencesExt

CONSTANTS
    Workers,        \* the threads that the constructor starts
    Clients,        \* other threads
    AwaitedTasks,   \* co_await pool, co_await current(), run() of a function: what is queued
                    \* owns the coroutine or promise that waits
    SilentTasks     \* run_detached(), and what resume() queues: bare handles, those of run() of
                    \* a coroutine and of co_await pool(awaitable) too

Actors == Workers \cup Clients
Tasks == AwaitedTasks \cup SilentTasks
NoTask == "no task"

ASSUME ActorsAssumption == Workers \cap Clients = {}
ASSUME TasksAssumption ==
    /\ AwaitedTasks \cap SilentTasks = {}
    /\ NoTask \notin Tasks

VARIABLES
    exit,       \* _exit
    queue,      \* _queue
    threads,    \* _threads
    pc,         \* what each actor does
    task,       \* the task that a worker runs
    current,    \* whether _current of the actor is this pool
    joins,      \* per actor: the threads that its stop() has still to join
    hands,      \* per actor: the tasks that its stop() took out of the queue
    stopping,   \* per actor: whether it is in stop()
    destroyer,  \* the actors that have begun ~thread_pool()
    destroyed,  \* ~thread_pool() has returned
    fate        \* what became of each task

vars == <<exit, queue, threads, pc, task, current, joins, hands, stopping, destroyer, destroyed, fate>>

\* "check": a worker about to lock _mx and look at the predicate of the condition;
\* "asleep": it waits for a notification; "run": outside of the lock; "free": a thread
\* that is no worker; "exited".
PCs == {"free", "check", "asleep", "run", "exited"}
Fates == {"none", "queued", "running", "done", "canceled", "lost"}

TypeOK ==
    /\ exit \in BOOLEAN /\ destroyed \in BOOLEAN
    /\ queue \in Seq(Tasks)
    /\ threads \in SUBSET Workers
    /\ pc \in [Actors -> PCs]
    /\ task \in [Actors -> Tasks \cup {NoTask}]
    /\ \A a \in Actors : pc[a] = "run" <=> task[a] # NoTask
    /\ current \in [Actors -> BOOLEAN]
    /\ joins \in [Actors -> SUBSET Workers]
    /\ hands \in [Actors -> Seq(Tasks)]
    /\ stopping \in [Actors -> BOOLEAN]
    /\ destroyer \in SUBSET Actors
    /\ fate \in [Tasks -> Fates]

Init ==
    /\ exit = FALSE /\ destroyed = FALSE
    /\ queue = <<>>
    /\ threads = Workers
    /\ pc = [a \in Actors |-> IF a \in Workers THEN "check" ELSE "free"]
    /\ task = [a \in Actors |-> NoTask]
    /\ current = [a \in Actors |-> a \in Workers]
    /\ joins = [a \in Actors |-> {}]
    /\ hands = [a \in Actors |-> <<>>]
    /\ stopping = [a \in Actors |-> FALSE]
    /\ destroyer = {}
    /\ fate = [k \in Tasks |-> "none"]

\* A client that does nothing, or the task that a worker runs, calls the pool.  Clients
\* respect that it is being destroyed; the tasks need not know.
Calls(a) ==
    /\ pc[a] \in {"free", "run"} /\ ~stopping[a]
    /\ ~destroyed
    /\ a \in Workers \/ pc[a] = "run" \/ destroyer = {}

-----------------------------------------------------------------------------
(* enqueue *)

\* What the destructor of a task that was not run does: it resumes the coroutine, which
\* throws await_canceled_exception, or drops the promise; that of a bare handle does nothing,
\* and whoever waits for the coroutine waits for ever.
Dropped(k) == IF k \in SilentTasks THEN "lost" ELSE "canceled"

\* Variant: enqueue() does not notify.
Enqueue_Silent(a, k) ==
    /\ Calls(a) /\ fate[k] = "none" /\ ~exit
    /\ queue' = Append(queue, k)
    /\ fate' = [fate EXCEPT ![k] = "queued"]
    /\ UNCHANGED <<exit, threads, pc, task, current, joins, hands, stopping, destroyer, destroyed>>

\* enqueue() with notify_one.
Enqueue(a, k) ==
    /\ Calls(a) /\ fate[k] = "none" /\ ~exit
    /\ queue' = Append(queue, k)
    /\ fate' = [fate EXCEPT ![k] = "queued"]
    /\ LET asleep == {w \in Actors : pc[w] = "asleep"}
       IN  \/ asleep = {} /\ UNCHANGED pc
           \/ \E w \in asleep : pc' = [pc EXCEPT ![w] = "check"]
    /\ UNCHANGED <<exit, threads, task, current, joins, hands, stopping, destroyer, destroyed>>

\* After stop() the task is destroyed by who called enqueue().
EnqueueStopped(a, k) ==
    /\ Calls(a) /\ fate[k] = "none" /\ exit
    /\ fate' = [fate EXCEPT ![k] = Dropped(k)]
    /\ UNCHANGED <<exit, queue, threads, pc, task, current, joins, hands, stopping, destroyer, destroyed>>

-----------------------------------------------------------------------------
(* worker *)

\* worker() called by another thread.
BecomeWorker(a) ==
    /\ a \in Clients /\ pc[a] = "free" /\ Calls(a)
    /\ pc' = [pc EXCEPT ![a] = "check"]
    /\ current' = [current EXCEPT ![a] = TRUE]
    /\ UNCHANGED <<exit, queue, threads, task, joins, hands, stopping, destroyer, destroyed, fate>>

Left(a) == IF a \in Workers THEN "exited" ELSE "free"

\* One round of the loop under the lock, and a wakeup nobody asked for.
WorkerExits(a) ==
    /\ pc[a] = "check" /\ exit
    /\ pc' = [pc EXCEPT ![a] = Left(a)]
    /\ UNCHANGED <<exit, queue, threads, task, current, joins, hands, stopping, destroyer, destroyed, fate>>

WorkerSleeps(a) ==
    /\ pc[a] = "check" /\ ~exit /\ queue = <<>>
    /\ pc' = [pc EXCEPT ![a] = "asleep"]
    /\ UNCHANGED <<exit, queue, threads, task, current, joins, hands, stopping, destroyer, destroyed, fate>>

\* Variant: the task stays in the queue until it has run.
WorkerRuns_Unpopped(a) ==
    /\ pc[a] = "check" /\ ~exit /\ queue # <<>>
    /\ pc' = [pc EXCEPT ![a] = "run"]
    /\ task' = [task EXCEPT ![a] = Head(queue)]
    /\ fate' = [fate EXCEPT ![Head(queue)] = "running"]
    /\ UNCHANGED <<exit, queue, threads, current, joins, hands, stopping, destroyer, destroyed>>

WorkerRuns(a) ==
    /\ pc[a] = "check" /\ ~exit /\ queue # <<>>
    /\ pc' = [pc EXCEPT ![a] = "run"]
    /\ task' = [task EXCEPT ![a] = Head(queue)]
    /\ queue' = Tail(queue)
    /\ fate' = [fate EXCEPT ![Head(queue)] = "running"]
    /\ UNCHANGED <<exit, threads, current, joins, hands, stopping, destroyer, destroyed>>

SpuriousWakeup(a) ==
    /\ pc[a] = "asleep"
    /\ pc' = [pc EXCEPT ![a] = "check"]
    /\ UNCHANGED <<exit, queue, threads, task, current, joins, hands, stopping, destroyer, destroyed, fate>>

\* The task returns.  A worker that was detached leaves without touching the pool.
TaskEnds(a) ==
    /\ pc[a] = "run" /\ ~stopping[a]
    /\ fate' = [fate EXCEPT ![task[a]] = "done"]
    /\ task' = [task EXCEPT ![a] = NoTask]
    /\ pc' = [pc EXCEPT ![a] = IF current[a] THEN "check" ELSE Left(a)]
    /\ UNCHANGED <<exit, queue, threads, current, joins, hands, stopping, destroyer, destroyed>>

-----------------------------------------------------------------------------
(* stop, ~thread_pool *)

\* Variant: stop() wakes one worker only.
StopBegins_One(a) ==
    /\ exit' = TRUE
    /\ LET asleep == {w \in Actors : pc[w] = "asleep"}
       IN  \/ asleep = {} /\ UNCHANGED pc
           \/ \E w \in asleep : pc' = [pc EXCEPT ![w] = "check"]
    /\ threads' = {} /\ joins' = [joins EXCEPT ![a] = threads]
    /\ queue' = <<>> /\ hands' = [hands EXCEPT ![a] = queue]
    /\ stopping' = [stopping EXCEPT ![a] = TRUE]
    /\ UNCHANGED <<task, current, destroyed, fate>>

\* The critical section: notify_all, and take the threads and the tasks.
StopBegins(a) ==
    /\ exit' = TRUE
    /\ pc' = [w \in Actors |-> IF pc[w] = "asleep" THEN "check" ELSE pc[w]]
    /\ threads' = {} /\ joins' = [joins EXCEPT ![a] = threads]
    /\ queue' = <<>> /\ hands' = [hands EXCEPT ![a] = queue]
    /\ stopping' = [stopping EXCEPT ![a] = TRUE]
    /\ UNCHANGED <<task, current, destroyed, fate>>

Stop(a) == Calls(a) /\ StopBegins(a) /\ UNCHANGED destroyer

\* Whoever destroys the pool knows that no stop() runs elsewhere and no other thread is
\* a worker.
Destroy(a) ==
    /\ Calls(a) /\ destroyer = {}
    /\ \A b \in Actors : ~stopping[b]
    /\ \A b \in Clients : pc[b] = "free"
    /\ StopBegins(a)
    /\ destroyer' = {a}

\* Variant: stop() in a task detaches the other workers as well.
Join_Detached(a, w) ==
    /\ stopping[a] /\ w \in joins[a]
    /\ \/ w = a /\ current' = [current EXCEPT ![a] = FALSE]
       \/ w # a /\ (pc[w] = "exited" \/ pc[a] = "run") /\ UNCHANGED current
    /\ joins' = [joins EXCEPT ![a] = @ \ {w}]
    /\ UNCHANGED <<exit, queue, threads, pc, task, hands, stopping, destroyer, destroyed, fate>>

\* One round of the loop over the threads: itself is detached, others are joined.
Join(a, w) ==
    /\ stopping[a] /\ w \in joins[a]
    /\ \/ w = a /\ current' = [current EXCEPT ![a] = FALSE]
       \/ w # a /\ pc[w] = "exited" /\ UNCHANGED current
    /\ joins' = [joins EXCEPT ![a] = @ \ {w}]
    /\ UNCHANGED <<exit, queue, threads, pc, task, hands, stopping, destroyer, destroyed, fate>>

\* The tasks are destroyed at the end of stop().
Drop(a) ==
    /\ stopping[a] /\ joins[a] = {} /\ hands[a] # <<>>
    /\ fate' = [fate EXCEPT ![Head(hands[a])] = Dropped(Head(hands[a]))]
    /\ hands' = [hands EXCEPT ![a] = Tail(@)]
    /\ UNCHANGED <<exit, queue, threads, pc, task, current, joins, stopping, destroyer, destroyed>>

StopReturns(a) ==
    /\ stopping[a] /\ joins[a] = {} /\ hands[a] = <<>>
    /\ stopping' = [stopping EXCEPT ![a] = FALSE]
    /\ destroyed' = (destroyed \/ a \in destroyer)
    /\ UNCHANGED <<exit, queue, threads, pc, task, current, joins, hands, destroyer, fate>>

-----------------------------------------------------------------------------
WorkerStep(a) == WorkerExits(a) \/ WorkerSleeps(a) \/ WorkerRuns(a) \/ TaskEnds(a)
StopStep(a) == (\E w \in Workers : Join(a, w)) \/ Drop(a) \/ StopReturns(a)
Call(a) == (\E k \in Tasks : Enqueue(a, k) \/ EnqueueStopped(a, k)) \/ BecomeWorker(a) \/ Stop(a) \/ Destroy(a)

Next == \E a \in Actors : WorkerStep(a) \/ StopStep(a) \/ Call(a) \/ SpuriousWakeup(a)

Spec == Init /\ [][Next]_vars

\* Threads run.  A task calls stop() a finite number of times, so it returns if each of
\* these calls does.  Nobody has to call anything.
FairSpec == Spec /\ \A a \in Actors :
    WF_vars(WorkerStep(a)) /\ WF_vars(StopStep(a)) /\ SF_vars(TaskEnds(a))

-----------------------------------------------------------------------------
(* Properties *)

\* Where a task is: in the queue, with a worker, or in the hands of who stops the pool.
Whereabouts(k) ==
    {<<"queue", i>> : i \in {i \in DOMAIN queue : queue[i] = k}}
    \cup {<<"worker", a>> : a \in {a \in Actors : task[a] = k}}
    \cup UNION {{<<a, i>> : i \in {i \in DOMAIN hands[a] : hands[a][i] = k}} : a \in Actors}

\* A task that was enqueued is in one place; after the end of a stop() that took it out it
\* has an outcome.
EachTaskOnce == \A k \in Tasks :
    /\ fate[k] \in {"queued", "running"} => \E p \in Whereabouts(k) : Whereabouts(k) = {p}
    /\ fate[k] \notin {"queued", "running"} => Whereabouts(k) = {}
    /\ fate[k] = "queued" /\ exit => \E a \in Actors : stopping[a] /\ k \in Range(hands[a])

\* The workers are gone when the pool is: no other worker locks its mutex, and one that
\* destroys it in a task was detached.
GoneWhenDestroyed == destroyed =>
    \A w \in Workers : pc[w] = "exited" \/ (pc[w] = "run" /\ ~current[w])

\* Nothing runs after stop() has returned but the task that called it; a stop() that
\* finds another one at work does not wait.
QuietAfterStop == exit /\ (\A a \in Actors : ~stopping[a]) =>
    \A w \in Workers : pc[w] = "exited" \/ ~current[w]

\* stop() and the destructor leave no worker behind that touches the pool.
WorkersGone == GoneWhenDestroyed /\ QuietAfterStop

\* A task is run, or whoever waits for it is told, as long as the tasks before it end.
TaskSettles == \A k \in Tasks : fate[k] = "queued" ~> fate[k] \in {"done", "canceled", "lost"}

\* stop() returns, from inside of tasks as well.
StopEnds == \A a \in Actors : stopping[a] ~> ~stopping[a]
=============================================================================
