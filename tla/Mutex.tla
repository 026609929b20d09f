------------------------------- MODULE Mutex --------------------------------
(***************************************************************************)
(* cocls::mutex (mutex.h) over the lock-free chain of awaiter.h.           *)
(*                                                                         *)
(* _requests is nullptr when the mutex is free; otherwise it is a stack of *)
(* awaiters, newest first, that ends in the `doorman' (or, for a moment,   *)
(* in the awaiter that has just acquired the mutex).  The owner alone may  *)
(* use _queue, the list of awaiters whose turn comes next: build_queue     *)
(* detaches the stack and reverses it into _queue.                         *)
(*                                                                         *)
(* A client is a coroutine or a blocked thread that locks and unlocks over *)
(* and over; its awaiter lives where the previous one lived, so that it is *)
(* identified with the client.  await_suspend of a coroutine may still be  *)
(* running on one thread when an unlocking thread already resumes the      *)
(* coroutine: `at' and `pc' are those two activities of a client.          *)
(***************************************************************************)
EXTENDS Integers

CONSTANTS
    Coros,              \* clients that co_await lock()
    Syncs,              \* clients that block in lock().wait()
    nullptr, doorman,   \* the null pointer and &awaiter::instance
    NextReload          \* subscribe() reads aw->_next from memory after its
                        \* compare_exchange, rather than the value it compared

Clients == Coros \cup Syncs
Awaiters == Clients \cup {doorman}

ASSUME PointersAssumption ==
    /\ nullptr # doorman
    /\ {nullptr, doorman} \cap Clients = {}
ASSUME ReloadAssumption == NextReload \in BOOLEAN

VARIABLES
    requests,   \* _requests
    queue,      \* _queue
    next,       \* _next of every awaiter, the doorman's included
    pc,         \* what a client is doing
    at,         \* what await_suspend of a client is doing once it is subscribed
    cursor      \* build_queue: `req' of a client

vars == <<requests, queue, next, pc, at, cursor>>

Owning == {"granted", "own", "swap", "build", "pop"}

TypeOK ==
    /\ requests \in Awaiters \cup {nullptr}
    /\ queue    \in Clients \cup {nullptr}
    /\ next     \in [Awaiters -> Awaiters \cup {nullptr}]
    /\ pc       \in [Clients -> {"out", "subscribe", "suspended"} \cup Owning]
    /\ at       \in [Clients -> {"none", "check", "swap", "build"}]
    /\ cursor   \in [Clients -> Awaiters \cup {nullptr}]

Init ==
    /\ requests = nullptr
    /\ queue = nullptr
    /\ next = [a \in Awaiters |-> nullptr]
    /\ pc = [c \in Clients |-> "out"]
    /\ at = [c \in Clients |-> "none"]
    /\ cursor = [c \in Clients |-> nullptr]

-----------------------------------------------------------------------------
(* Locking *)

\* ready(): nullptr is replaced by the doorman in one step.  try_lock() and
\* await_ready() both end here when the mutex is free ...
TryLock(c) ==
    /\ pc[c] = "out"
    /\ requests = nullptr
    /\ requests' = doorman
    /\ pc' = [pc EXCEPT ![c] = "own"]
    /\ UNCHANGED <<queue, next, at, cursor>>

\* ... and otherwise try_lock() gives up while await_suspend subscribes a fresh
\* awaiter.
StartSubscribe(c) ==
    /\ pc[c] = "out" /\ at[c] = "none"
    /\ requests # nullptr
    /\ pc' = [pc EXCEPT ![c] = "subscribe"]
    /\ next' = [next EXCEPT ![c] = nullptr]
    /\ UNCHANGED <<requests, queue, at, cursor>>

\* awaiter::subscribe: a failed compare_exchange leaves the head in _next.
SubscribeRetry(c) ==
    /\ pc[c] = "subscribe"
    /\ requests # next[c]
    /\ next' = [next EXCEPT ![c] = requests]
    /\ UNCHANGED <<requests, queue, pc, at, cursor>>

\* Once it succeeds the awaiter is public, and mutex::subscribe still has to look
\* at _next.  In a build that keeps the value it compared, only an awaiter that
\* replaced nullptr, and so the new owner, does anything after this step.
SubscribeLinked(c) ==
    /\ pc[c] = "subscribe"
    /\ requests = next[c]
    /\ requests' = c
    /\ pc' = [pc EXCEPT ![c] = "suspended"]
    /\ at' = [at EXCEPT ![c] = IF next[c] = nullptr \/ NextReload
                               THEN "check" ELSE "none"]
    /\ UNCHANGED <<queue, next, cursor>>

\* nullptr means that the mutex was free and now is ours.  A build that loads
\* _next again reads whatever is there by now.
CheckNext(c) ==
    /\ at[c] = "check"
    /\ at' = [at EXCEPT ![c] = IF next[c] = nullptr THEN "swap" ELSE "none"]
    /\ UNCHANGED <<requests, queue, next, pc, cursor>>

\* build_queue(aw): replace ourselves by the doorman ...
LockSwap(c) ==
    /\ at[c] = "swap"
    /\ cursor' = [cursor EXCEPT ![c] = requests]
    /\ requests' = doorman
    /\ at' = [at EXCEPT ![c] = "build"]
    /\ UNCHANGED <<queue, next, pc>>

\* One round of the loop of build_queue: move x = req to the front of _queue.
Push(c, x) ==
    /\ x = cursor[c]
    /\ cursor' = [cursor EXCEPT ![c] = next[x]]
    /\ next' = [next EXCEPT ![x] = queue]
    /\ queue' = x

\* ... and queue those who subscribed above us meanwhile.
LockBuild(c) ==
    /\ at[c] = "build"
    /\ cursor[c] \notin {nullptr, c}
    /\ Push(c, cursor[c])
    /\ UNCHANGED <<requests, pc, at>>

\* subscribe() returns false: the client goes on as the owner.
LockBuilt(c) ==
    /\ at[c] = "build"
    /\ cursor[c] \in {nullptr, c}
    /\ at' = [at EXCEPT ![c] = "none"]
    /\ pc' = [pc EXCEPT ![c] = "own"]
    /\ cursor' = [cursor EXCEPT ![c] = nullptr]
    /\ UNCHANGED <<requests, queue, next>>

\* The owner handed the mutex over and the client runs again: resumed from the
\* suspend_point, or woken by the flag when it has reached flag.wait().
Resumed(c) ==
    /\ pc[c] = "granted"
    /\ c \in Syncs => at[c] = "none"
    /\ pc' = [pc EXCEPT ![c] = "own"]
    /\ UNCHANGED <<requests, queue, next, at, cursor>>

-----------------------------------------------------------------------------
(* Unlocking *)

\* Variant: the doorman is removed by a store, whoever subscribed above it.
Unlock_Store(c) ==
    /\ pc[c] = "own" /\ queue = nullptr
    /\ requests' = nullptr
    /\ pc' = [pc EXCEPT ![c] = "out"]
    /\ UNCHANGED <<queue, next, at, cursor>>

\* ownership::release() with _queue empty: replace the doorman by nullptr,
Unlock(c) ==
    /\ pc[c] = "own" /\ queue = nullptr
    /\ requests = doorman
    /\ requests' = nullptr
    /\ pc' = [pc EXCEPT ![c] = "out"]
    /\ UNCHANGED <<queue, next, at, cursor>>

\* Variant: the queue is built again although it is not empty.
UnlockContended_Rebuild(c) ==
    /\ pc[c] = "own"
    /\ requests # doorman
    /\ pc' = [pc EXCEPT ![c] = "swap"]
    /\ UNCHANGED <<requests, queue, next, at, cursor>>

\* or, when somebody subscribed, go and build the queue;
UnlockContended(c) ==
    /\ pc[c] = "own" /\ queue = nullptr
    /\ requests # doorman
    /\ pc' = [pc EXCEPT ![c] = "swap"]
    /\ UNCHANGED <<requests, queue, next, at, cursor>>

\* with _queue not empty the first in it is next.
UnlockQueued(c) ==
    /\ pc[c] = "own" /\ queue # nullptr
    /\ pc' = [pc EXCEPT ![c] = "pop"]
    /\ UNCHANGED <<requests, queue, next, at, cursor>>

\* Variant: the exchange leaves nullptr, as that of resume_chain does.
UnlockSwap_Opens(c) ==
    /\ pc[c] = "swap"
    /\ cursor' = [cursor EXCEPT ![c] = requests]
    /\ requests' = nullptr
    /\ pc' = [pc EXCEPT ![c] = "build"]
    /\ UNCHANGED <<queue, next, at>>

\* build_queue(doorman())
UnlockSwap(c) ==
    /\ pc[c] = "swap"
    /\ cursor' = [cursor EXCEPT ![c] = requests]
    /\ requests' = doorman
    /\ pc' = [pc EXCEPT ![c] = "build"]
    /\ UNCHANGED <<queue, next, at>>

UnlockBuild(c) ==
    /\ pc[c] = "build"
    /\ cursor[c] \notin {nullptr, doorman}
    /\ Push(c, cursor[c])
    /\ UNCHANGED <<requests, pc, at>>

UnlockBuilt(c) ==
    /\ pc[c] = "build"
    /\ cursor[c] \in {nullptr, doorman}
    /\ pc' = [pc EXCEPT ![c] = "pop"]
    /\ cursor' = [cursor EXCEPT ![c] = nullptr]
    /\ UNCHANGED <<requests, queue, next, at>>

\* Variant: the rest of _queue is forgotten.
Grant_Drop(c) ==
    /\ pc[c] = "pop"
    /\ queue \in Clients
    /\ queue' = nullptr
    /\ next' = [next EXCEPT ![queue] = nullptr]
    /\ pc' = [pc EXCEPT ![c] = "out", ![queue] = "granted"]
    /\ UNCHANGED <<requests, at, cursor>>

\* Hand the mutex over to the first of _queue.
Grant(c) ==
    /\ pc[c] = "pop"
    /\ queue \in Clients
    /\ queue' = next[queue]
    /\ next' = [next EXCEPT ![queue] = nullptr]
    /\ pc' = [pc EXCEPT ![c] = "out", ![queue] = "granted"]
    /\ UNCHANGED <<requests, at, cursor>>

-----------------------------------------------------------------------------
Acquire(c) == StartSubscribe(c) \/ TryLock(c)

Release(c) == Unlock(c) \/ UnlockContended(c) \/ UnlockQueued(c)

Step(c) ==
    \/ SubscribeRetry(c) \/ SubscribeLinked(c) \/ CheckNext(c)
    \/ LockSwap(c) \/ LockBuild(c) \/ LockBuilt(c) \/ Resumed(c)
    \/ UnlockSwap(c) \/ UnlockBuild(c) \/ UnlockBuilt(c) \/ Grant(c)

Next == \E c \in Clients : Acquire(c) \/ Release(c) \/ Step(c)

Spec == Init /\ [][Next]_vars

\* A client inside an operation keeps running, and an owner releases the mutex
\* some day; nobody has to lock.
Fairness == \A c \in Clients :
    /\ WF_vars(Step(c))
    /\ WF_vars(Release(c))

FairSpec == Spec /\ Fairness

-----------------------------------------------------------------------------
(* Properties *)

\* The activities that act as the owner: a client that was let in, and an
\* await_suspend that sees _next = nullptr.
Holders ==
    {<<c, "client">> : c \in {c \in Clients : pc[c] \in Owning}}
    \cup {<<c, "await_suspend">> : c \in {c \in Clients :
                \/ at[c] \in {"swap", "build"}
                \/ at[c] = "check" /\ next[c] = nullptr}}

\* At most one activity acts as the owner of the mutex, whoever subscribes and
\* unlocks concurrently: _queue has no other protection.
MutualExclusion == \A h, k \in Holders : h = k

\* The doorman is shared by all mutexes of the program: nothing is linked
\* behind it.
DoormanUntouched == next[doorman] = nullptr

\* The assertions of build_queue ("Can't build queue if there are items in it")
\* and of unlock (_requests is not nullptr), and the unchecked dereference of
\* _queue after build_queue, which must not link anything behind the doorman.
QueueDiscipline ==
    /\ DoormanUntouched
    /\ \A c \in Clients :
        /\ at[c] = "swap" \/ pc[c] = "swap" => queue = nullptr
        /\ pc[c] \in Owning => requests # nullptr
        /\ pc[c] = "pop" => queue \in Clients
=============================================================================
