----------------------------- MODULE Resumption -----------------------------
(***************************************************************************)
(* Which coroutine of a thread runs next: suspend_point (suspend_point.h), *)
(* coro_queue and pause (coro_queue.h), start, await and return of async   *)
(* (async.h), parallel (resume.h) and self (self.h).                       *)
(*                                                                         *)
(* Each thread has a stack.  A frame is a resumed coroutine, or a call of  *)
(* install_queue_and_call, which first resumes the coroutines it was       *)
(* called with and then those in the queue of the thread; under the stack  *)
(* is ordinary code.  The top of the stack acts.                           *)
(***************************************************************************)
EXTENDS Naturals, SequencesExt

CONSTANTS
    Coroutines,
    Points,         \* objects of suspend_point
    Threads,
    MaxDepth,       \* bound: frames on a stack
    SelfLast        \* whether a coroutine awaits a suspend_point whose last handle is its own

NoOne == "none"         \* no coroutine, or no suspend_point
Event == "event"        \* what is awaited is not the result of a coroutine

ASSUME CoroutinesAssumption == IsFiniteSet(Coroutines) /\ Coroutines \cap {NoOne, Event} = {}
ASSUME MaxDepthAssumption == MaxDepth \in Nat
ASSUME SelfLastAssumption == SelfLast \in BOOLEAN

VARIABLES
    st,         \* what each coroutine is doing
    waits,      \* what a waiting coroutine waits for: a coroutine, or Event
    points,     \* the handles in each suspend_point
    queue,      \* per thread: coro_queue::queue_impl::instance
    active,     \* per thread: whether coro_queue::instance is set
    stack       \* per thread

vars == <<st, waits, points, queue, active, stack>>

\* A frame: the coroutine that runs in it, or the handles that the function called by
\* install_queue_and_call has yet to resume, the suspend_point they are in, and prev.
Frame == [runs : Coroutines, rest : {<<>>}, of : {NoOne}, prev : {FALSE}]
         \cup [runs : {NoOne}, rest : Seq(Coroutines), of : Points \cup {NoOne}, prev : BOOLEAN]
CoroFrame(c) == [runs |-> c, rest |-> <<>>, of |-> NoOne, prev |-> FALSE]
InstallFrame(t, handles, p) == [runs |-> NoOne, rest |-> handles, of |-> p, prev |-> active[t]]

\* "ready": its handle is somewhere, to be resumed; "running": it is in a frame.
States == {"fresh", "running", "waiting", "ready", "done"}

TypeOK ==
    /\ st \in [Coroutines -> States]
    /\ waits \in [Coroutines -> Coroutines \cup {Event, NoOne}]
    /\ \A c \in Coroutines : st[c] = "waiting" <=> waits[c] # NoOne
    /\ points \in [Points -> Seq(Coroutines)]
    /\ queue \in [Threads -> Seq(Coroutines)]
    /\ active \in [Threads -> BOOLEAN]
    /\ stack \in [Threads -> Seq(Frame)]

Init ==
    /\ st = [c \in Coroutines |-> "fresh"]
    /\ waits = [c \in Coroutines |-> NoOne]
    /\ points = [p \in Points |-> <<>>]
    /\ queue = [t \in Threads |-> <<>>]
    /\ active = [t \in Threads |-> FALSE]
    /\ stack = [t \in Threads |-> <<>>]

-----------------------------------------------------------------------------
Depth(t) == Len(stack[t])
InCoroutine(t) == stack[t] # <<>> /\ Last(stack[t]).runs # NoOne
Acts(t) == stack[t] = <<>> \/ InCoroutine(t)
me(t) == Last(stack[t]).runs
Installer(t) == Last(stack[t])
InInstaller(t) == stack[t] # <<>> /\ ~InCoroutine(t)

Push(t, frame) == stack' = [stack EXCEPT ![t] = Append(@, frame)]
\* The symmetric transfer, and the return to whoever resumed the coroutine.
Transfer(t, c) == stack' = [stack EXCEPT ![t] = Append(Front(@), CoroFrame(c))]
Return(t) == stack' = [stack EXCEPT ![t] = Front(@)]

\* The frame that suspends, or a new one, becomes a call of install_queue_and_call.
Install(t, below, handles, p) ==
    /\ stack' = [stack EXCEPT ![t] = Append(below, InstallFrame(t, handles, p))]
    /\ active' = [active EXCEPT ![t] = TRUE]

\* The lists of handles, and where in them that of c is.
Lists == {<<p, points[p]>> : p \in Points} \cup {<<t, queue[t]>> : t \in Threads}
         \cup UNION {{<<<<t, d>>, stack[t][d].rest>> : d \in 1 .. Depth(t)} : t \in Threads}
Places(c) == UNION {{<<l[1], i>> : i \in {i \in DOMAIN l[2] : l[2][i] = c}} : l \in Lists}

\* A suspend_point is left alone while its handles are being resumed.
Free(p) == \A t \in Threads : \A i \in 1 .. Depth(t) : stack[t][i].of # p

Become(c, s) == st' = [st EXCEPT ![c] = s]

AllReady(handles) == \A c \in Range(handles) : st[c] = "ready"
Deeper(t) == Depth(t) + 2 <= MaxDepth

\* start_coro() takes the handle out of the async object: it is started once.
start_coro(c) == st[c] = "fresh"

-----------------------------------------------------------------------------
(* suspend_point *)

\* A coroutine that was not started puts its handle into a suspend_point: detach()
\* or start(promise).
Detach(t, c, p) ==
    /\ Acts(t) /\ start_coro(c) /\ Free(p)
    /\ points' = [points EXCEPT ![p] = Append(@, c)]
    /\ Become(c, "ready")
    /\ UNCHANGED <<waits, queue, active, stack>>

\* What c awaits becomes ready: awaiter::resume() yields its handle.
Wake(t, c, p) ==
    /\ Acts(t) /\ st[c] = "waiting" /\ waits[c] = Event /\ Free(p)
    /\ points' = [points EXCEPT ![p] = Append(@, c)]
    /\ Become(c, "ready")
    /\ waits' = [waits EXCEPT ![c] = NoOne]
    /\ UNCHANGED <<queue, active, stack>>

\* co_await self(): a suspend_point with the handle of the running coroutine.
Self(t, p) ==
    /\ InCoroutine(t) /\ Free(p) /\ Places(me(t)) = {}
    /\ points' = [points EXCEPT ![p] = Append(@, me(t))]
    /\ UNCHANGED <<st, waits, queue, active, stack>>

\* operator<<, and the move assignment.
Merge(t, p, r) ==
    /\ Acts(t) /\ p # r /\ Free(p) /\ Free(r)
    /\ points[r] # <<>>
    /\ points' = [points EXCEPT ![p] = @ \o points[r], ![r] = <<>>]
    /\ UNCHANGED <<st, waits, queue, active, stack>>

\* create_suspend_point of a function that discards suspend_point p: what it puts
\* into the queue is taken back, from the end.
CreatePoint(t, p, r) ==
    /\ Acts(t) /\ p # r /\ Free(p) /\ Free(r)
    /\ points[p] # <<>> /\ points[r] = <<>> /\ AllReady(points[p])
    /\ points' = [points EXCEPT ![p] = <<>>, ![r] = Reverse(points[p])]
    /\ UNCHANGED <<st, waits, queue, active, stack>>

\* suspend_now, also by the destructor, for a coroutine that finishes and by a thread
\* of its own (parallel_resume).
Clear(t, p) ==
    /\ Acts(t) /\ Free(p)
    /\ points[p] # <<>> /\ AllReady(points[p])
    /\ points' = [points EXCEPT ![p] = <<>>]
    /\ \/ /\ active[t]
          /\ queue' = [queue EXCEPT ![t] = @ \o points[p]]
          /\ UNCHANGED <<active, stack>>
       \/ /\ ~active[t] /\ Deeper(t)
          /\ Install(t, stack[t], points[p], p)
          /\ UNCHANGED queue
    /\ UNCHANGED <<st, waits>>

\* Variant: it does not look for its own handle.
Await_Twice(t, p) ==
    LET c == me(t)
        out == Last(points[p])
        others == Front(points[p])
        queued == Append(others, c)
    IN  /\ InCoroutine(t) /\ Free(p) /\ points[p] # <<>>
        /\ \A d \in Range(points[p]) : st[d] = "ready" \/ d = c
        /\ Places(c) = {} \/ c \in Range(IF SelfLast THEN points[p] ELSE others)
        /\ points' = [points EXCEPT ![p] = <<>>]
        /\ queue' = [queue EXCEPT ![t] = @ \o queued]
        /\ \/ /\ active[t]
              /\ st' = [st EXCEPT ![c] = "ready", ![out] = "running"]
              /\ Transfer(t, out)
              /\ UNCHANGED active
           \/ /\ ~active[t] /\ Deeper(t)
              /\ Become(c, "ready")
              /\ Install(t, Front(stack[t]), <<out>>, NoOne)
        /\ UNCHANGED waits

\* co_await of a suspend_point: the last handle is resumed, the others are queued and
\* then the coroutine itself, unless its handle is among them.
Await(t, p) ==
    LET c == me(t)
        out == Last(points[p])
        others == Front(points[p])
        queued == IF c \in Range(others) THEN others ELSE Append(others, c)
    IN  /\ InCoroutine(t) /\ Free(p) /\ points[p] # <<>>
        /\ \A d \in Range(points[p]) : st[d] = "ready" \/ d = c
        /\ Places(c) = {} \/ c \in Range(IF SelfLast THEN points[p] ELSE others)
        /\ points' = [points EXCEPT ![p] = <<>>]
        /\ queue' = [queue EXCEPT ![t] = @ \o queued]
        /\ \/ /\ active[t]
              /\ st' = [st EXCEPT ![c] = "ready", ![out] = "running"]
              /\ Transfer(t, out)
              /\ UNCHANGED active
           \/ /\ ~active[t] /\ Deeper(t)
              /\ Become(c, "ready")
              /\ Install(t, Front(stack[t]), <<out>>, NoOne)
        /\ UNCHANGED waits

-----------------------------------------------------------------------------
(* Coroutines *)

\* start() to a future: the coroutine runs at once, on top of who started it.
Start(t, c) ==
    /\ Acts(t) /\ start_coro(c) /\ Deeper(t)
    /\ \/ /\ active[t]
          /\ Become(c, "running")
          /\ Push(t, CoroFrame(c))
          /\ UNCHANGED active
       \/ /\ ~active[t]
          /\ Become(c, "ready")
          /\ Install(t, stack[t], <<c>>, NoOne)
    /\ UNCHANGED <<waits, points, queue>>

\* co_await of a coroutine that was not started.
AwaitCoroutine(t, d) ==
    /\ InCoroutine(t) /\ Places(me(t)) = {} /\ start_coro(d)
    /\ st' = [st EXCEPT ![me(t)] = "waiting", ![d] = "running"]
    /\ waits' = [waits EXCEPT ![me(t)] = d]
    /\ Transfer(t, d)
    /\ UNCHANGED <<points, queue, active>>

\* co_await of something else that suspends: the result of a coroutine that was
\* started, or any event.
AwaitOther(t, d) ==
    /\ InCoroutine(t) /\ Places(me(t)) = {}
    /\ d \in {Event} \cup {x \in Coroutines \ {me(t)} : st[x] \notin {"fresh", "done"}}
    /\ Become(me(t), "waiting")
    /\ waits' = [waits EXCEPT ![me(t)] = d]
    /\ Return(t)
    /\ UNCHANGED <<points, queue, active>>

\* A coroutine whose handle was given away by self() suspends until it is resumed.
Park(t) ==
    /\ InCoroutine(t) /\ Places(me(t)) # {}
    /\ Become(me(t), "ready")
    /\ Return(t)
    /\ UNCHANGED <<waits, points, queue, active>>

\* co_await pause(), in a thread with a queue.
Pause(t) ==
    LET rotated == Append(queue[t], me(t))
    IN  /\ InCoroutine(t) /\ Places(me(t)) = {} /\ active[t]
        /\ queue' = [queue EXCEPT ![t] = Tail(rotated)]
        /\ st' = [st EXCEPT ![me(t)] = "ready", ![Head(rotated)] = "running"]
        /\ Transfer(t, Head(rotated))
        /\ UNCHANGED <<waits, points, active>>

\* The coroutine returns: its future is resolved, the frame destroyed, and one of those
\* who awaited the result runs; the suspend_point with the others is discarded.
Finish(t) ==
    LET c == me(t)
        ws == {w \in Coroutines : waits[w] = c}
    IN  /\ InCoroutine(t) /\ Places(c) = {}
        /\ waits' = [w \in Coroutines |-> IF w \in ws THEN NoOne ELSE waits[w]]
        /\ \/ /\ ws = {}
              /\ Become(c, "done")
              /\ Return(t)
              /\ UNCHANGED <<queue, active>>
           \/ \E out \in ws : \E rest \in SetToSeqs(ws \ {out}) :
                 /\ st' = [w \in Coroutines |-> IF w = c THEN "done" ELSE IF w = out THEN "running"
                                              ELSE IF w \in ws THEN "ready" ELSE st[w]]
                 /\ \/ /\ active[t] \/ rest = <<>>
                       /\ queue' = [queue EXCEPT ![t] = @ \o rest]
                       /\ Transfer(t, out)
                       /\ UNCHANGED active
                    \/ /\ ~active[t] /\ rest # <<>> /\ Deeper(t)
                       /\ Install(t, Append(Front(stack[t]), CoroFrame(out)), rest, NoOne)
                       /\ UNCHANGED queue
        /\ UNCHANGED points

\* parallel(): the awaiting coroutine is resumed by a new thread, without a queue.
Parallel(t, c) ==
    /\ stack[t] = <<>>
    /\ st[c] = "waiting" /\ waits[c] = Event
    /\ Become(c, "running")
    /\ waits' = [waits EXCEPT ![c] = NoOne]
    /\ Push(t, CoroFrame(c))
    /\ UNCHANGED <<points, queue, active>>

-----------------------------------------------------------------------------
(* install_queue_and_call *)

\* By a user, with a function that resumes what is in p, in a thread that may have a
\* queue already; install_queue_and_resume is the case of one handle.
InstallAndResume(t, p) ==
    /\ Acts(t) /\ Free(p) /\ Deeper(t)
    /\ points[p] # <<>> /\ AllReady(points[p])
    /\ points' = [points EXCEPT ![p] = <<>>]
    /\ Install(t, stack[t], points[p], p)
    /\ UNCHANGED <<st, waits, queue>>

ResumeNext(t) ==
    LET f == Installer(t)
    IN  /\ InInstaller(t) /\ f.rest # <<>>
        /\ Become(Head(f.rest), "running")
        /\ stack' = [stack EXCEPT ![t] = Front(@) \o <<[f EXCEPT !.rest = Tail(@)], CoroFrame(Head(f.rest))>>]
        /\ UNCHANGED <<waits, points, queue, active>>

\* Variant: it takes the handle that was queued last.
Flush_Newest(t) ==
    /\ InInstaller(t) /\ Installer(t).rest = <<>> /\ queue[t] # <<>>
    /\ queue' = [queue EXCEPT ![t] = Front(@)]
    /\ Become(Last(queue[t]), "running")
    /\ Push(t, CoroFrame(Last(queue[t])))
    /\ UNCHANGED <<waits, points, active>>

\* One round of flush_queue.
Flush(t) ==
    /\ InInstaller(t) /\ Installer(t).rest = <<>> /\ queue[t] # <<>>
    /\ queue' = [queue EXCEPT ![t] = Tail(@)]
    /\ Become(Head(queue[t]), "running")
    /\ Push(t, CoroFrame(Head(queue[t])))
    /\ UNCHANGED <<waits, points, active>>

\* Variant: the queue is uninstalled whatever is in it.
Uninstall_Unflushed(t) ==
    /\ InInstaller(t) /\ Installer(t).rest = <<>>
    /\ active' = [active EXCEPT ![t] = Installer(t).prev]
    /\ Return(t)
    /\ UNCHANGED <<st, waits, points, queue>>

Uninstall(t) ==
    /\ InInstaller(t) /\ Installer(t).rest = <<>> /\ queue[t] = <<>>
    /\ active' = [active EXCEPT ![t] = Installer(t).prev]
    /\ Return(t)
    /\ UNCHANGED <<st, waits, points, queue>>

-----------------------------------------------------------------------------
InstallerStep(t) == ResumeNext(t) \/ Flush(t) \/ Uninstall(t)

\* A coroutine gives up its thread.
Leave(t) == (\E d \in Coroutines \cup {Event} : AwaitOther(t, d)) \/ Park(t) \/ Finish(t)

Other(t) ==
    \/ \E c \in Coroutines : \/ \E p \in Points : Detach(t, c, p) \/ Wake(t, c, p)
                              \/ Start(t, c) \/ AwaitCoroutine(t, c) \/ Parallel(t, c)
    \/ \E p \in Points : Self(t, p) \/ Clear(t, p) \/ Await(t, p) \/ InstallAndResume(t, p)
    \/ \E p, r \in Points : Merge(t, p, r) \/ CreatePoint(t, p, r)
    \/ Pause(t)

Next == \E t \in Threads : InstallerStep(t) \/ Leave(t) \/ Other(t)

Spec == Init /\ [][Next]_vars

\* install_queue_and_call goes on by itself, and no coroutine keeps its thread for ever.
FairSpec == Spec /\ \A t \in Threads : WF_vars(InstallerStep(t)) /\ WF_vars(Leave(t))

-----------------------------------------------------------------------------
(* Properties *)

Frames(c) == UNION {{<<t, d>> : d \in {d \in 1 .. Depth(t) : stack[t][d].runs = c}} : t \in Threads}

\* Whoever is to be resumed has one handle, in a suspend_point or a queue, and nobody else
\* has one but a running coroutine that gave its handle away itself: no coroutine is
\* resumed twice, while it runs, or after it has returned.
OneHandle == \A c \in Coroutines :
    /\ st[c] = "ready" => Cardinality(Places(c)) = 1
    /\ st[c] = "running" => Cardinality(Places(c)) <= 1
    /\ st[c] \notin {"ready", "running"} => Places(c) = {}
    /\ Cardinality(Frames(c)) = IF st[c] = "running" THEN 1 ELSE 0

\* Coroutines in the queue have an install_queue_and_call under them that flushes it, and
\* coro_queue is active where there is one; the outermost leaves the thread without.
QueueIsServed == \A t \in Threads :
    LET installs == {d \in 1 .. Depth(t) : stack[t][d].runs = NoOne}
    IN  /\ active[t] <=> installs # {}
        /\ queue[t] # <<>> => active[t]
        /\ \A d \in installs : stack[t][d].prev <=> \E e \in installs : e < d

\* Each coroutine in a queue runs.
QueuedRuns == \A c \in Coroutines : (\E t \in Threads : c \in Range(queue[t])) ~> st[c] = "running"
=============================================================================
