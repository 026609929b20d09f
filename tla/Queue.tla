------------------------------- MODULE Queue --------------------------------
(***************************************************************************)
(* queue<T> and limited_queue<T> (queue.h): a queue of items and a queue   *)
(* of the promises of those who wait for one; limited_queue adds a queue   *)
(* of the promises of blocked producers.                                   *)
(*                                                                         *)
(* Every operation is one critical section of _mx.  A promise taken out of *)
(* a queue is resolved only after the lock has been released, which is a   *)
(* step of its own; what resolving does is in module Future.               *)
(***************************************************************************)
EXTENDS Naturals, SequencesExt

CONSTANTS
    Items,      \* each stands for one call of push(); so does the value pushed
    Pops,       \* each stands for one call of pop(); so does the future returned
    Threads,
    Limits,     \* limits to construct limited_queue with
    movedFrom   \* what is left of an argument that was forwarded before

ASSUME ItemsAssumption ==
    /\ movedFrom \notin Items
    /\ (Items \cup {movedFrom}) \cap {"none", "pending", "refused", "exception", "canceled"} = {}
    /\ Items \cap Pops = {} /\ "nobody" \notin Items \cup Pops
ASSUME LimitsAssumption == Limits \subseteq Nat \ {0}

Unlimited == 0

VARIABLES
    limit,      \* _limit, or Unlimited for a queue<T>
    single,     \* _awaiters is a single_item_queue
    items,      \* _queue
    awaiters,   \* _awaiters
    blocked,    \* _blocked: the item that was put aside and whose push it is
    pops,       \* the future returned by each pop()
    pushes,     \* the future (or suspend_point) returned by each push()
    hand,       \* per thread: the promise it took out and what it resolves it with
    destroyed,  \* ~queue() has run
    pushed,     \* history: the items in the order of push()
    asked       \* history: the pops in their order, without the unblocked ones

queueVars == <<limit, single, items, awaiters, blocked, pops, pushes, hand, destroyed, pushed, asked>>

Nothing == [of |-> "nobody", with |-> "none"]
Limited == limit # Unlimited

QueueTypeOK ==
    /\ limit    \in Limits \cup {Unlimited}
    /\ single   \in BOOLEAN
    /\ items    \in Seq(Items \cup {movedFrom})
    /\ awaiters \in Seq(Pops)
    /\ blocked  \in Seq([item : Items \cup {movedFrom}, push : Items])
    /\ pops     \in [Pops -> Items \cup {movedFrom, "none", "pending", "refused", "exception",
                                        "canceled"}]
    /\ pushes   \in [Items -> {"none", "pending", "done", "exception", "canceled"}]
    /\ hand     \in [Threads -> {Nothing}
                       \cup [of : Pops, with : Items \cup {"exception"}]
                       \cup [of : Items, with : {"done", "exception"}]]
    /\ destroyed \in BOOLEAN
    /\ pushed   \in Seq(Items)
    /\ asked    \in Seq(Pops)

QueueInit ==
    /\ limit \in Limits \cup {Unlimited}
    /\ single \in BOOLEAN
    /\ items = <<>> /\ awaiters = <<>> /\ blocked = <<>>
    /\ pops = [k \in Pops |-> "none"]
    /\ pushes = [v \in Items |-> "none"]
    /\ hand = [t \in Threads |-> Nothing]
    /\ destroyed = FALSE
    /\ pushed = <<>> /\ asked = <<>>

Idle(t) == hand[t] = Nothing /\ ~destroyed

TakeOut(t, promise, outcome) == hand' = [hand EXCEPT ![t] = [of |-> promise, with |-> outcome]]

\* Variants: the one who waited last is served, and the promise is taken out but not
\* called.
PushToAwaiter_Lifo(t, v) ==
    /\ Idle(t) /\ pushes[v] = "none"
    /\ awaiters # <<>>
    /\ awaiters' = Front(awaiters)
    /\ TakeOut(t, Last(awaiters), v)
    /\ pushes' = [pushes EXCEPT ![v] = "done"]
    /\ pushed' = Append(pushed, v)
    /\ UNCHANGED <<limit, single, items, blocked, pops, destroyed, asked>>

PushToAwaiter_Uncalled(t, v) ==
    /\ Idle(t) /\ pushes[v] = "none"
    /\ awaiters # <<>>
    /\ awaiters' = Tail(awaiters)
    /\ pushes' = [pushes EXCEPT ![v] = "done"]
    /\ pushed' = Append(pushed, v)
    /\ UNCHANGED <<limit, single, items, blocked, pops, hand, destroyed, asked>>

\* push() while somebody waits: the item goes to the first who does.
PushToAwaiter(t, v) ==
    /\ Idle(t) /\ pushes[v] = "none"
    /\ awaiters # <<>>
    /\ awaiters' = Tail(awaiters)
    /\ TakeOut(t, Head(awaiters), v)
    /\ pushes' = [pushes EXCEPT ![v] = "done"]
    /\ pushed' = Append(pushed, v)
    /\ UNCHANGED <<limit, single, items, blocked, pops, destroyed, asked>>

\* A limited queue that is full after the item was put into it puts the item,
\* or the rest of it, aside as well and blocks the producer.
Full(q) == Limited /\ Len(q) >= limit

\* Variant: the item is queued whether or not somebody waits for it.
Enqueue_Unchecked(v) ==
    /\ pushes[v] = "none"
    /\ items' = Append(items, v)
    /\ pushed' = Append(pushed, v)

Enqueue(v) ==
    /\ pushes[v] = "none"
    /\ awaiters = <<>>
    /\ items' = Append(items, v)
    /\ pushed' = Append(pushed, v)

PushToQueue(t, v) ==
    /\ Idle(t)
    /\ Enqueue(v)
    /\ ~Full(items')
    /\ pushes' = [pushes EXCEPT ![v] = "done"]
    /\ UNCHANGED <<limit, single, awaiters, blocked, pops, hand, destroyed, asked>>

PushBlocked(t, v) == \E rest \in {v, movedFrom} :
    /\ Idle(t)
    /\ Enqueue(v)
    /\ Full(items')
    /\ blocked' = Append(blocked, [item |-> rest, push |-> v])
    /\ pushes' = [pushes EXCEPT ![v] = "pending"]
    /\ UNCHANGED <<limit, single, awaiters, pops, hand, destroyed, asked>>

\* emplace() into a single_item_queue throws when there is an awaiter in it.
FullOfAwaiters == single /\ awaiters # <<>>

\* pop() on an empty queue waits ...
PopWait(t, k) ==
    /\ Idle(t) /\ pops[k] = "none"
    /\ items = <<>> /\ ~FullOfAwaiters
    /\ awaiters' = Append(awaiters, k)
    /\ pops' = [pops EXCEPT ![k] = "pending"]
    /\ asked' = Append(asked, k)
    /\ UNCHANGED <<limit, single, items, blocked, pushes, hand, destroyed, pushed>>

\* ... or throws, and nothing has changed.
PopRefused(t, k) ==
    /\ Idle(t) /\ pops[k] = "none"
    /\ items = <<>> /\ FullOfAwaiters
    /\ pops' = [pops EXCEPT ![k] = "refused"]
    /\ UNCHANGED <<limit, single, items, awaiters, blocked, pushes, hand, destroyed, pushed, asked>>

\* std_queue::pop(), which for <void> only counts, and stays at zero.
Popped(q) == IF q = <<>> THEN q ELSE Tail(q)

\* Otherwise the first item is its result, and the first blocked producer of a
\* limited queue is let go.
PopItem(t, k) ==
    /\ Idle(t) /\ pops[k] = "none"
    /\ items # <<>>
    /\ pops' = [pops EXCEPT ![k] = Head(items)]
    /\ asked' = Append(asked, k)
    /\ IF blocked = <<>>
       THEN /\ items' = Popped(items)
            /\ UNCHANGED <<blocked, hand>>
       ELSE /\ items' = Append(Popped(items), Head(blocked).item)
            /\ blocked' = Tail(blocked)
            /\ TakeOut(t, Head(blocked).push, "done")
    /\ UNCHANGED <<limit, single, awaiters, pushes, destroyed, pushed>>

\* unblock_pop(e), which limited_queue does not export
unblock_pop(t) ==
    /\ Idle(t) /\ ~Limited
    /\ awaiters # <<>>
    /\ awaiters' = Tail(awaiters)
    /\ TakeOut(t, Head(awaiters), "exception")
    /\ asked' = RemoveAt(asked, CHOOSE i \in DOMAIN asked : asked[i] = Head(awaiters))
    /\ UNCHANGED <<limit, single, items, blocked, pops, pushes, destroyed, pushed>>

\* unblock_push(e)
unblock_push(t) ==
    /\ Idle(t)
    /\ blocked # <<>>
    /\ blocked' = Tail(blocked)
    /\ TakeOut(t, Head(blocked).push, "exception")
    /\ UNCHANGED <<limit, single, items, awaiters, pops, pushes, destroyed, pushed, asked>>

\* The promise that was taken is resolved once the lock has been released.
Resolve(t) ==
    /\ hand[t] # Nothing
    /\ hand' = [hand EXCEPT ![t] = Nothing]
    /\ IF hand[t].of \in Pops
       THEN pops' = [pops EXCEPT ![hand[t].of] = hand[t].with] /\ UNCHANGED pushes
       ELSE pushes' = [pushes EXCEPT ![hand[t].of] = hand[t].with] /\ UNCHANGED pops
    /\ UNCHANGED <<limit, single, items, awaiters, blocked, destroyed, pushed, asked>>

\* ~queue(), which must not race with other operations, drops the promises it holds.
Destroy ==
    /\ \A t \in Threads : Idle(t)
    /\ destroyed' = TRUE
    /\ items' = <<>> /\ awaiters' = <<>> /\ blocked' = <<>>
    /\ pops' = [k \in Pops |-> IF k \in Range(awaiters) THEN "canceled" ELSE pops[k]]
    /\ pushes' = [v \in Items |-> IF \E b \in Range(blocked) : b.push = v
                                  THEN "canceled" ELSE pushes[v]]
    /\ UNCHANGED <<limit, single, hand, pushed, asked>>

QueueNext ==
    \/ \E t \in Threads, v \in Items :
           PushToAwaiter(t, v) \/ PushToQueue(t, v) \/ PushBlocked(t, v)
    \/ \E t \in Threads, k \in Pops : PopWait(t, k) \/ PopRefused(t, k) \/ PopItem(t, k)
    \/ \E t \in Threads : unblock_pop(t) \/ unblock_push(t) \/ Resolve(t)
    \/ Destroy

\* A thread that took a promise resolves it; nobody has to push or pop.
QueueFairness == \A t \in Threads : WF_queueVars(Resolve(t))

QueueSpec == QueueInit /\ [][QueueNext]_queueVars /\ QueueFairness

-----------------------------------------------------------------------------
(* Properties *)

\* What pop k was or is about to be given.
AnswerOf(k) ==
    IF \E t \in Threads : hand[t].of = k
    THEN hand[CHOOSE t \in Threads : hand[t].of = k].with
    ELSE pops[k]

\* push() and pop() leave no item behind that somebody waits for, and no
\* producer blocked while there is room.
NobodyWaitsInVain ==
    /\ ~(items # <<>> /\ awaiters # <<>>)
    /\ blocked # <<>> => Full(items)

\* The i-th pop gets the i-th item, whichever of the threads that took promises
\* out resolve them first and whatever pops are unblocked in between.
Fifo == ~Limited =>
    \A i \in DOMAIN asked :
        AnswerOf(asked[i]) = IF i <= Len(pushed) THEN pushed[i]
                           ELSE IF destroyed THEN "canceled" ELSE "pending"

\* What pops got, or are going to get, and after that what is in the queue.
Served == [i \in DOMAIN asked |-> AnswerOf(asked[i])] \o items

\* x is in s, and no y before it.
Before(s, x, y) == \E i \in DOMAIN s : s[i] = x /\ \A j \in 1 .. i : s[j] # y

\* The items whose push was unblocked, or is about to be.
Refused ==
    {v \in Items : \/ pushes[v] = "exception"
                  \/ \E t \in Threads : hand[t] = [of |-> v, with |-> "exception"]}
Kept == {i \in DOMAIN pushed : pushed[i] \notin Refused}

\* No item is lost, invented or overtaken, in a limited queue either: what was popped and
\* what is still queued was pushed, and each item whose push was not unblocked is among it,
\* later than all of those that were pushed before it.  The copies that a limited queue
\* makes come after that.
NothingLost == ~destroyed =>
    /\ IsInjective(pushed)
    /\ Range(Served) \cap Items \subseteq Range(pushed)
    /\ \A i \in Kept : pushed[i] \in Range(Served)
    /\ \A i, j \in Kept : i < j => Before(Served, pushed[i], pushed[j])

\* What is pushed is what is popped, in that order.
InItsOrder == Fifo /\ NothingLost

\* A future that pop() or push() left pending has exactly one promise, either
\* in its queue or in the hand of a thread: it is resolved once.
OnePromise ==
    LET Places(x, queue) ==
            {<<"queue", i>> : i \in {i \in DOMAIN queue : queue[i] = x}}
            \cup {<<"hand", t>> : t \in {t \in Threads : hand[t].of = x}}
        producers == [i \in DOMAIN blocked |-> blocked[i].push]
        Once(x, queue) == \E p \in Places(x, queue) : Places(x, queue) = {p}
    IN  /\ \A k \in Pops :
              IF pops[k] = "pending" THEN Once(k, awaiters) ELSE Places(k, awaiters) = {}
        /\ \A v \in Items :
              IF pushes[v] = "pending" THEN Once(v, producers) ELSE Places(v, producers) = {}

\* What was promised is kept: nobody waits in vain, and each is told once.
PromisesKept == NobodyWaitsInVain /\ OnePromise

\* A pop for which there is an item is answered.
MatchedPopAnswered == \A k \in Pops :
    (\E i \in DOMAIN asked : asked[i] = k /\ i <= Len(pushed)) ~> (pops[k] \in Items \cup {movedFrom})

\* "unblocking push operation also removes the item": once a producer was told that its
\* push failed, nobody is given what it pushed.
UnblockedIsRemoved == [][\A v \in Items, k \in Pops :
    pushes[v] = "exception" /\ pops[k] # v => pops'[k] # v]_queueVars
=============================================================================
