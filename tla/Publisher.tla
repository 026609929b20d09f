----------------------------- MODULE Publisher ------------------------------
(***************************************************************************)
(* publisher<T> and subscriber<T> (publisher.h): the items published last, *)
(* a slot with a position in the stream for each subscriber, and the       *)
(* awaiters of the subscribers that wait for the next item.                *)
(*                                                                         *)
(* Each operation of publisher::queue is one critical section of _mx, and  *)
(* next() of a subscriber takes two or three of them: ready(), subscribe() *)
(* unless there is an item, and check_next().  push, close and kick resume *)
(* the awaiters they collected after they have released the lock.          *)
(***************************************************************************)
EXTENDS Integers, SequencesExt

Modes == {"all_values", "skip_if_behind", "skip_to_recent"}

CONSTANTS
    Subscribers,    \* the places where a subscriber object may live
    Subscriptions,  \* the types of subscription they choose
    Callers,        \* the threads that publish, close and kick
    MaxLens,        \* for _max_queue_len
    MinLens,        \* for _min_queue_len
    MaxItems        \* bound: items published in all

ASSUME LengthsAssumption ==
    /\ MaxLens \subseteq Nat \ {0} /\ MinLens \subseteq Nat \ {0}
    /\ \E hi \in MaxLens, lo \in MinLens : lo <= hi
ASSUME MaxItemsAssumption == MaxItems \in Nat
ASSUME SubscribersAssumption == "nobody" \notin Subscribers /\ Subscriptions \subseteq Modes

NoOne == "nobody"
Empty == 0                  \* an empty std::optional
Garbage == -1               \* what an index outside of the deque yields

VARIABLES
    maxLen, minLen, \* _max_queue_len, _min_queue_len
    pos,            \* _pos: the position of the next item
    q,              \* _q: the last items, newest first; an item is its number
    regs,           \* _regs: the slots
    nextFree,       \* _next_free, counted from 1
    closed,         \* _closed
    wake,           \* per thread: the awaiters it collected and has to resume
    handle,         \* _h of each subscriber
    mode,           \* _t of each subscriber
    use,            \* what each subscriber does
    val,            \* _val of each subscriber
    published,      \* history: how many items were published
    seen,           \* history: the newest item a subscriber has read, or where it began
    ended           \* history: next() has returned false to it, or it began past the
                    \* newest item

queueVars == <<pos, q, regs, nextFree, closed>>
publisherVars == <<maxLen, minLen, pos, q, regs, nextFree, closed, wake, handle, mode, use, val,
          published, seen, ended>>

\* "checked": ready() has returned false; "reading": check_next() comes next; "late": so it
\* does, but nothing has advanced, for the publisher was closed after ready().
Uses == {"none", "idle", "checked", "suspended", "reading", "late"}

\* A subscriber that goes on after the end of the stream advances without reading.
MaxPos == MaxItems + 1

Slots == DOMAIN regs
Alive(s) == use[s] # "none"
reg(s) == regs[handle[s]]

PublisherTypeOK ==
    /\ maxLen \in MaxLens /\ minLen \in MinLens /\ minLen <= maxLen
    /\ pos \in 1 .. MaxItems + 1
    /\ q \in Seq(1 .. MaxItems)
    /\ regs \in Seq([pos : Nat, sub : Subscribers, awt : Subscribers \cup {NoOne},
                     used : BOOLEAN, kicked : BOOLEAN])
    /\ nextFree \in 1 .. Len(regs) + 1
    /\ closed \in BOOLEAN
    /\ wake \in [Callers -> Seq(Subscribers)]
    /\ handle \in [Subscribers -> 0 .. Len(regs)]
    /\ mode \in [Subscribers -> Modes]
    /\ use \in [Subscribers -> Uses]
    /\ val \in [Subscribers -> {Empty, Garbage} \cup 1 .. MaxItems]
    /\ published \in 0 .. MaxItems
    /\ seen \in [Subscribers -> 0 .. MaxPos]
    /\ ended \in [Subscribers -> BOOLEAN]

PublisherInit ==
    /\ maxLen \in MaxLens /\ minLen \in MinLens /\ minLen <= maxLen
    /\ pos = 1 /\ q = <<>> /\ regs = <<>> /\ nextFree = 1 /\ closed = FALSE
    /\ wake = [t \in Callers |-> <<>>]
    /\ handle = [s \in Subscribers |-> 0]
    /\ mode \in [Subscribers -> Subscriptions]
    /\ use = [s \in Subscribers |-> "none"]
    /\ val = [s \in Subscribers |-> Empty]
    /\ published = 0
    /\ seen = [s \in Subscribers |-> 0]
    /\ ended = [s \in Subscribers |-> FALSE]

-----------------------------------------------------------------------------
(* push, close, kick *)

Idle(t) == wake[t] = <<>>

Used == {h \in Slots : regs[h].used}

\* What push_lk keeps: enough for the slowest subscriber.  The difference of the
\* positions wraps around for one that advanced past the end.
Behind(h, newPos) == IF regs[h].pos > newPos THEN maxLen ELSE newPos - regs[h].pos
Needed(newPos) == Max({minLen} \cup {Behind(h, newPos) : h \in Used})

\* _wakeup_buffer after the loop over the slots.
Awaited(h) == regs[h].used /\ regs[h].awt # NoOne
Waiting ==
    LET buffer[h \in 0 .. Len(regs)] ==
            IF h = 0 THEN <<>>
            ELSE IF Awaited(h) THEN Append(buffer[h - 1], regs[h].awt) ELSE buffer[h - 1]
    IN  buffer[Len(regs)]

\* push_lk with the items already at the front of the queue.
push_lk(t, items, count) ==
    /\ pos' = pos + count
    /\ q' = SubSeq(items, 1, Min({Needed(pos + count), maxLen, Len(items)}))
    /\ wake' = [wake EXCEPT ![t] = Waiting]
    /\ regs' = [h \in Slots |-> IF regs[h].used THEN [regs[h] EXCEPT !.awt = NoOne] ELSE regs[h]]

\* publish(): one item, or several from a pair of iterators.
Publish(t, n) ==
    /\ Idle(t) /\ published + n <= MaxItems
    /\ push_lk(t, [i \in 1 .. n |-> published + n + 1 - i] \o q, n)
    /\ published' = published + n
    /\ UNCHANGED <<maxLen, minLen, nextFree, closed, handle, mode, use, val, seen, ended>>

Close(t) ==
    /\ Idle(t) /\ ~closed
    /\ closed' = TRUE
    /\ push_lk(t, q, 0)
    /\ UNCHANGED <<maxLen, minLen, nextFree, handle, mode, use, val, published, seen, ended>>

\* kick() looks the subscriber up by its address.
Kick(t, s) ==
    /\ Idle(t)
    /\ \E h \in Used :
          /\ regs[h].sub = s
          /\ wake' = [wake EXCEPT ![t] = IF regs[h].awt = NoOne THEN <<>> ELSE <<regs[h].awt>>]
          /\ regs' = [regs EXCEPT ![h].awt = NoOne, ![h].kicked = TRUE]
    /\ UNCHANGED <<maxLen, minLen, pos, q, nextFree, closed, handle, mode, use, val,
                   published, seen, ended>>

\* The thread resumes the next of its awaiters, without the lock.
Resume(t) ==
    /\ ~Idle(t)
    /\ wake' = [wake EXCEPT ![t] = Tail(@)]
    /\ use' = [use EXCEPT ![Head(wake[t])] = "reading"]
    /\ UNCHANGED <<queueVars, maxLen, minLen, handle, mode, val, published, seen, ended>>

-----------------------------------------------------------------------------
(* subscriber: registration *)

\* subscribe_lk: a slot from the free list, which is linked through the
\* positions of unused slots, or a new one.
subscribe_lk(s, p) ==
    LET slot == [pos |-> p, sub |-> s, awt |-> NoOne, used |-> TRUE, kicked |-> FALSE]
    IN  /\ handle' = [handle EXCEPT ![s] = nextFree]
        /\ IF nextFree > Len(regs)
           THEN /\ regs' = Append(regs, slot)
                /\ nextFree' = Len(regs) + 2
           ELSE /\ regs' = [regs EXCEPT ![nextFree] = slot]
                /\ nextFree' = regs[nextFree].pos

Register(s, p) ==
    /\ use[s] = "none"
    /\ subscribe_lk(s, p)
    /\ use' = [use EXCEPT ![s] = "idle"]
    /\ seen' = [seen EXCEPT ![s] = p]
    /\ ended' = [ended EXCEPT ![s] = p >= pos]
    /\ UNCHANGED <<maxLen, minLen, pos, q, closed, wake, mode, val, published>>

\* The constructors: at the newest item, at a position, or where another is.
Subscribe(s) == Register(s, pos - 1)
SubscribeAt(s, p) == Register(s, p)
Copy(s, o) == Alive(o) /\ mode[s] = mode[o] /\ Register(s, reg(o).pos)

Gone(s) ==
    /\ use' = [use EXCEPT ![s] = "none"]
    /\ handle' = [handle EXCEPT ![s] = 0]
    /\ val' = [val EXCEPT ![s] = Empty]
    /\ seen' = [seen EXCEPT ![s] = 0]
    /\ ended' = [ended EXCEPT ![s] = FALSE]

\* Variant: the slot is not linked to the rest of the free list.
Leave_Unlinked(s) ==
    /\ use[s] = "idle"
    /\ regs' = [regs EXCEPT ![handle[s]].used = FALSE]
    /\ nextFree' = handle[s]
    /\ Gone(s)
    /\ UNCHANGED <<maxLen, minLen, pos, q, closed, wake, mode, published>>

\* The destructor.  A subscriber is not destroyed while it is in next().
Leave(s) ==
    /\ use[s] = "idle"
    /\ regs' = [regs EXCEPT ![handle[s]].pos = nextFree, ![handle[s]].used = FALSE]
    /\ nextFree' = handle[s]
    /\ Gone(s)
    /\ UNCHANGED <<maxLen, minLen, pos, q, closed, wake, mode, published>>

-----------------------------------------------------------------------------
(* subscriber: next *)

\* Variant: the first case falls through to the second.
Advanced_FallThrough(p, m) ==
    IF m = "skip_to_recent" THEN Max({p + 1, pos - 1}) ELSE Max({p + 1, pos - Len(q)})

\* How far advance_lk goes.
Advanced(p, m) ==
    CASE m = "all_values"     -> p + 1
      [] m = "skip_if_behind" -> Max({p + 1, pos - Len(q)})
      [] m = "skip_to_recent" -> Max({p + 1, pos - 1})

MoveTo(s, p) == regs' = [regs EXCEPT ![handle[s]].pos = p]

\* await_ready; the conversion of next() to bool calls it a second time before it
\* suspends.
Ready(s) ==
    LET hasNext == ~reg(s).kicked /\ (reg(s).pos + 1 # pos \/ closed)
    IN  /\ use[s] \in {"idle", "checked"}
        /\ reg(s).pos < MaxPos
        /\ \/ /\ hasNext
              /\ MoveTo(s, Advanced(reg(s).pos, mode[s]))
              /\ use' = [use EXCEPT ![s] = "reading"]
           \/ /\ ~hasNext
              /\ use' = [use EXCEPT ![s] = "checked"]
              /\ UNCHANGED regs
        /\ UNCHANGED <<maxLen, minLen, pos, q, nextFree, closed, wake, handle, mode, val,
                       published, seen, ended>>

\* next_ready(): it gives up where others suspend.
GiveUp(s) ==
    /\ use[s] = "checked"
    /\ use' = [use EXCEPT ![s] = "idle"]
    /\ UNCHANGED <<queueVars, maxLen, minLen, wake, handle, mode, val, published, seen, ended>>

\* Variant: it does not look whether the publisher was closed since ready().
Suspend_Unclosed(s) ==
    /\ use[s] = "checked"
    /\ IF reg(s).kicked
       THEN /\ use' = [use EXCEPT ![s] = "reading"]
            /\ UNCHANGED regs
       ELSE IF reg(s).pos + 1 = pos
       THEN /\ use' = [use EXCEPT ![s] = "suspended"]
            /\ regs' = [regs EXCEPT ![handle[s]].pos = @ + 1, ![handle[s]].awt = s]
       ELSE /\ use' = [use EXCEPT ![s] = "reading"]
            /\ MoveTo(s, reg(s).pos + 1)
    /\ UNCHANGED <<maxLen, minLen, pos, q, nextFree, closed, wake, handle, mode, val,
                   published, seen, ended>>

\* await_suspend: advance_suspend_lk.
Suspend(s) ==
    /\ use[s] = "checked"
    /\ IF reg(s).kicked \/ closed
       THEN /\ use' = [use EXCEPT ![s] = IF reg(s).kicked THEN "reading" ELSE "late"]
            /\ UNCHANGED regs
       ELSE IF reg(s).pos + 1 = pos
       THEN /\ use' = [use EXCEPT ![s] = "suspended"]
            /\ regs' = [regs EXCEPT ![handle[s]].pos = @ + 1, ![handle[s]].awt = s]
       ELSE /\ use' = [use EXCEPT ![s] = "reading"]
            /\ MoveTo(s, reg(s).pos + 1)
    /\ UNCHANGED <<maxLen, minLen, pos, q, nextFree, closed, wake, handle, mode, val,
                   published, seen, ended>>

\* Variant: the position counts from the next item, not from the newest.
get_value_OffByOne(s) ==
    LET relpos == pos - reg(s).pos
        inRange == relpos \in 0 .. Len(q) - 1
    IN  IF reg(s).kicked \/ reg(s).pos = pos THEN Empty
        ELSE IF mode[s] # "skip_to_recent" /\ inRange THEN q[relpos + 1]
        ELSE IF mode[s] = "all_values" THEN Empty
        ELSE IF q = <<>> THEN Garbage
        ELSE IF mode[s] = "skip_if_behind" THEN Last(q)
        ELSE Head(q)

\* get_value_lk.  relpos is unsigned: it is out of range for one past the end.
get_value(s) ==
    LET relpos == pos - reg(s).pos - 1
        inRange == relpos \in 0 .. Len(q) - 1
    IN  IF reg(s).kicked \/ reg(s).pos = pos THEN Empty
        ELSE IF mode[s] # "skip_to_recent" /\ inRange THEN q[relpos + 1]
        ELSE IF mode[s] = "all_values" THEN Empty
        ELSE IF q = <<>> THEN Garbage
        ELSE IF mode[s] = "skip_if_behind" THEN Last(q)
        ELSE Head(q)

\* await_resume: check_next.
Read(s) ==
    /\ use[s] \in {"reading", "late"}
    /\ val' = [val EXCEPT ![s] = get_value(s)]
    /\ use' = [use EXCEPT ![s] = "idle"]
    /\ seen' = [seen EXCEPT ![s] = IF get_value(s) > 0 THEN get_value(s) ELSE @]
    /\ ended' = [ended EXCEPT ![s] = @ \/ get_value(s) = Empty]
    /\ UNCHANGED <<queueVars, maxLen, minLen, wake, handle, mode, published>>

-----------------------------------------------------------------------------
SourceStep(t) ==
    \/ \E n \in 1 .. 2 : Publish(t, n)
    \/ Close(t)
    \/ \E s \in Subscribers : Kick(t, s)
    \/ Resume(t)

SubscriberStep(s) ==
    \/ Subscribe(s) \/ (\E p \in 0 .. MaxItems : SubscribeAt(s, p))
    \/ \E o \in Subscribers : Copy(s, o)
    \/ Leave(s)
    \/ Ready(s) \/ GiveUp(s) \/ Suspend(s) \/ Read(s)

PublisherNext ==
    \/ \E t \in Callers : SourceStep(t)
    \/ \E s \in Subscribers : SubscriberStep(s)

PublisherSpec == PublisherInit /\ [][PublisherNext]_publisherVars

-----------------------------------------------------------------------------
(* Properties *)

\* The free list: n unused slots, each once, and the first index that is no slot.
FreeList(n, list) ==
    /\ list[1] = nextFree /\ list[n + 1] = Len(regs) + 1
    /\ \A i \in 1 .. n : list[i] \in Slots \ Used /\ regs[list[i]].pos = list[i + 1]
    /\ \A i, j \in 1 .. n : list[i] = list[j] => i = j

\* The handles of those alive are used slots of their own, and the free list has all
\* the others.
SlotsSound ==
    /\ \A s \in Subscribers : Alive(s) => handle[s] \in Used /\ reg(s).sub = s
    /\ \A h \in Used : Alive(regs[h].sub) /\ handle[regs[h].sub] = h
    /\ \E n \in 0 .. Len(regs) : \E list \in [1 .. n + 1 -> 1 .. Len(regs) + 1] :
          FreeList(n, list) /\ \A h \in Slots \ Used : \E i \in 1 .. n : list[i] = h

\* The queue keeps the newest items, at least the minimum and at most the maximum,
\* wherever the subscribers are that it keeps them for.
KeepsNewest ==
    /\ q = [i \in 1 .. Len(q) |-> published + 1 - i]
    /\ Len(q) >= Min({minLen, published}) /\ Len(q) <= maxLen

\* The lists of the publisher are in order.
ListsSound == SlotsSound /\ KeepsNewest

\* Who is suspended waits for the item at its position, which has not been
\* published, and can still be closed or kicked; otherwise a thread is about to
\* resume it, once.
NobodySleepsThrough == \A s \in Subscribers :
    LET woken == UNION {{<<t, i>> : i \in {i \in DOMAIN wake[t] : wake[t][i] = s}} : t \in Callers}
        waits == /\ reg(s).awt = s /\ reg(s).pos = pos
                 /\ ~reg(s).kicked /\ ~closed
    IN  IF use[s] = "suspended"
        THEN (waits /\ woken = {}) \/ (reg(s).awt = NoOne /\ \E w \in woken : woken = {w})
        ELSE woken = {} /\ \A h \in Used : regs[h].awt # s

Reads(s) == use[s] \in {"reading", "late"} /\ use'[s] = "idle" /\ ~ended[s]

\* What the type of a subscription promises of the next item: all of them get one that is
\* in the queue; who wants all values gets the one after that read last; who skips if
\* behind skips only what the queue has lost; who skips to the recent gets the newest.
\* The last two do not go back; they may get the item read last again, when others were
\* published between ready() and check_next() and it is still what they are entitled to.
NextItem(s, v) ==
    /\ v \in Range(q) /\ v >= seen[s]
    /\ mode[s] = "all_values" => v = seen[s] + 1
    /\ mode[s] = "skip_if_behind" => \A i \in Range(q) : i > seen[s] => i >= v
    /\ mode[s] = "skip_to_recent" => v = published

\* The reasons for the end: kicked, nothing left of a closed publisher, or left behind by
\* the queue.
NoNext(s) ==
    \/ reg(s).kicked
    \/ closed /\ seen[s] >= published
    \/ mode[s] = "all_values" /\ seen[s] + 1 <= published - Len(q)

\* Until the end of the stream, and unless the publisher is closed between ready() and
\* subscribe(), next() finds the item that the type of the subscription promises.
InOrder == [][\A s \in Subscribers :
    Reads(s) /\ use[s] = "reading" /\ val'[s] # Empty => NextItem(s, val'[s])]_publisherVars

\* And it says that the stream has ended only with a reason.
EndIsJustified == [][\A s \in Subscribers :
    Reads(s) /\ use[s] = "reading" /\ val'[s] = Empty => NoNext(s)]_publisherVars

\* Whenever the publisher is closed, next() finds another item, or says that there are no
\* more: "when the subscriber processes all values, EOF is returned".
NextKeepsItsWord == [][\A s \in Subscribers :
    Reads(s) => IF val'[s] = Empty THEN NoNext(s)
                ELSE val'[s] \in Range(q) \ {val[s]}]_publisherVars
==============================================================================
