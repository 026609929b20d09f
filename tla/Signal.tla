------------------------------- MODULE Signal -------------------------------
(***************************************************************************)
(* signal (signal.h): collectors emit values, emitters that are awaited    *)
(* and callbacks that are connected receive them.  The shared state lives  *)
(* as long as anybody has a strong reference to it; the emitters have weak *)
(* ones.  Its destructor wakes whoever is linked.                          *)
(*                                                                         *)
(* Emitted values are numbered; 0 is the null pointer.  Only one collector *)
(* is called at a time, as the code asks for.                              *)
(***************************************************************************)
EXTENDS Naturals, SequencesExt

CONSTANTS
    Emitters,       \* each awaited by a coroutine, again and again
    Callbacks,      \* of connect()
    Strong,         \* signals and collectors: strong references
    MaxEmits,       \* bound: values emitted
    QueuedResume    \* whether a collector is called by a coroutine that discards the result

ASSUME MaxEmitsAssumption == MaxEmits \in Nat
ASSUME QueuedResumeAssumption == QueuedResume \in BOOLEAN

VARIABLES
    holders,    \* the strong references there are
    life,       \* of the shared state
    chain,      \* _chain: a stack
    curVal,     \* _cur_val
    valAlive,   \* what it points to exists
    link,       \* what each awaiter is doing
    walk,       \* the awaiters detached from the chain and yet to be resumed
    wokenBy,    \* the value each emitter was woken by
    emitting    \* a call of a collector is in progress, and how it got its value

signalVars == <<holders, life, chain, curVal, valAlive, link, walk, wokenBy, emitting>>

Awaiters == Emitters \cup Callbacks
Woken == {e \in Emitters : link[e] = "woken"}

\* "locking": between wk_state.lock() and the subscription; "woken": its handle is in a
\* suspend_point or in the queue of a thread.
SignalTypeOK ==
    /\ holders \subseteq Strong
    /\ life \in {"unborn", "alive", "dead"}
    /\ chain \in Seq(Awaiters) /\ walk \in Seq(Awaiters)
    /\ curVal \in 0 .. MaxEmits /\ valAlive \in BOOLEAN
    /\ link \in [Awaiters -> {"off", "locking", "linked", "woken", "ended"}]
    /\ wokenBy \in [Emitters -> 0 .. MaxEmits]
    /\ emitting \in {"no", "stored", "borrowed"}

SignalInit ==
    /\ \/ holders = {} /\ life = "unborn"
       \/ life = "alive" /\ \E s \in Strong : holders = {s}
    /\ chain = <<>> /\ walk = <<>>
    /\ curVal = 0 /\ valAlive = FALSE
    /\ link = [a \in Awaiters |-> "off"]
    /\ wokenBy = [e \in Emitters |-> 0]
    /\ emitting = "no"

-----------------------------------------------------------------------------
Linked(a, as) == link' = [link EXCEPT ![a] = as]
Locking == {e \in Emitters : link[e] = "locking"}

\* Variant: the destructor wakes nobody.
Released_Silent(strong, locks, linked) ==
    IF strong = {} /\ locks = {}
    THEN /\ life' = "dead"
         /\ curVal' = 0
         /\ chain' = <<>>
         /\ UNCHANGED walk
    ELSE chain' = linked /\ UNCHANGED <<life, curVal, walk>>

\* The last strong reference goes: ~state() clears _cur_val and wakes whoever is linked,
\* ahead of those that a call in progress has yet to resume.
Released(strong, locks, linked) ==
    IF strong = {} /\ locks = {}
    THEN /\ life' = "dead"
         /\ curVal' = 0
         /\ chain' = <<>>
         /\ walk' = linked \o walk
    ELSE chain' = linked /\ UNCHANGED <<life, curVal, walk>>

\* get_emitter, get_collector, copies.
ShareSignal(s) ==
    /\ holders # {} /\ s \notin holders
    /\ holders' = holders \cup {s}
    /\ UNCHANGED <<life, chain, curVal, valAlive, link, walk, wokenBy, emitting>>

DropSignal(s) ==
    /\ s \in holders
    /\ holders' = holders \ {s}
    /\ Released(holders', Locking, chain)
    /\ UNCHANGED <<valAlive, link, wokenBy, emitting>>

\* emitter::await_suspend: the weak reference is locked, or the wait ends at once.
Await(e) ==
    /\ link[e] = "off"
    /\ \/ life = "alive" /\ Linked(e, "locking")
       \/ life = "dead" /\ Linked(e, "ended")
    /\ UNCHANGED <<holders, life, chain, curVal, valAlive, walk, wokenBy, emitting>>

\* Subscribed; then the locked reference goes, and may be the last one.
Subscribe(e) ==
    /\ link[e] = "locking"
    /\ Linked(e, "linked")
    /\ Released(holders, Locking \ {e}, <<e>> \o chain)
    /\ UNCHANGED <<holders, valAlive, wokenBy, emitting>>

\* hook_up_emitter: the first await makes the state, subscribes, and only then hands the
\* collector out, to someone who keeps it or does not.
HookUp(e) ==
    /\ life = "unborn" /\ link[e] = "off"
    /\ \E strong \in SUBSET Strong :
        /\ holders' = strong
        /\ IF strong = {} THEN life' = "dead" /\ chain' = <<>> /\ walk' = <<e>>
                          ELSE life' = "alive" /\ chain' = <<e>> /\ UNCHANGED walk
    /\ Linked(e, "linked")
    /\ UNCHANGED <<curVal, valAlive, wokenBy, emitting>>

\* connect()
connect(c) ==
    /\ holders # {} /\ link[c] = "off"
    /\ Linked(c, "linked")
    /\ chain' = <<c>> \o chain
    /\ UNCHANGED <<holders, life, curVal, valAlive, walk, wokenBy, emitting>>

\* Variant: the value is set after the awaiters were detached and woken.
Emit_WakesFirst(how) ==
    /\ holders # {} /\ emitting = "no"
    /\ curVal < MaxEmits /\ walk = <<>>
    /\ emitting' = how
    /\ walk' = SelectSeq(chain, LAMBDA a : a \in Callbacks)
    /\ link' = [a \in Awaiters |-> IF a \in Emitters /\ Contains(chain, a) THEN "woken" ELSE link[a]]
    /\ wokenBy' = [e \in Emitters |-> IF Contains(chain, e) THEN curVal ELSE wokenBy[e]]
    /\ curVal' = curVal + 1 /\ valAlive' = TRUE
    /\ chain' = <<>>
    /\ UNCHANGED <<holders, life>>

\* collector::operator(): the value is stored in the state, or a reference to it, and the
\* chain is detached.
Emit(how) ==
    /\ holders # {} /\ emitting = "no"
    /\ curVal < MaxEmits /\ walk = <<>>
    /\ emitting' = how
    /\ curVal' = curVal + 1 /\ valAlive' = TRUE
    /\ walk' = chain
    /\ chain' = <<>>
    /\ UNCHANGED <<holders, life, link, wokenBy>>

\* resume_chain_lk: the handle of an emitter is collected; a callback is called at once,
\* and links itself again or is deleted, which it is when the state is gone.
Walk ==
    /\ walk # <<>>
    /\ walk' = Tail(walk)
    /\ LET a == Head(walk) IN
        \/ /\ a \in Emitters
           /\ Linked(a, "woken")
           /\ wokenBy' = [wokenBy EXCEPT ![a] = curVal]
           /\ UNCHANGED chain
        \/ /\ a \in Callbacks /\ life = "alive"
           /\ chain' = <<a>> \o chain
           /\ UNCHANGED <<link, wokenBy>>
        \/ /\ a \in Callbacks
           /\ Linked(a, "ended")
           /\ UNCHANGED <<chain, wokenBy>>
    /\ UNCHANGED <<holders, life, curVal, valAlive, emitting>>

\* The coroutine is resumed and reads the value, or learns that there is none.
ResumeEmitter(e) ==
    /\ link[e] = "woken"
    /\ Linked(e, IF life = "alive" /\ curVal # 0 THEN "off" ELSE "ended")
    /\ wokenBy' = [wokenBy EXCEPT ![e] = 0]
    /\ UNCHANGED <<holders, life, chain, curVal, valAlive, walk, emitting>>

\* The call ends when those it woke have run, unless it only put them into the queue of
\* its thread.  A borrowed value may be gone then.
EmitReturns ==
    /\ emitting # "no" /\ walk = <<>>
    /\ Woken = {} \/ QueuedResume
    /\ valAlive' = (valAlive /\ emitting = "stored")
    /\ emitting' = "no"
    /\ UNCHANGED <<holders, life, chain, curVal, link, walk, wokenBy>>

SignalNext ==
    \/ \E s \in Strong : ShareSignal(s) \/ DropSignal(s)
    \/ \E e \in Emitters : Await(e) \/ Subscribe(e) \/ HookUp(e) \/ ResumeEmitter(e)
    \/ \E c \in Callbacks : connect(c)
    \/ \E how \in {"stored", "borrowed"} : Emit(how)
    \/ Walk
    \/ EmitReturns

\* The threads that are in the middle of something go on.
SignalFairness ==
    /\ WF_signalVars(Walk)
    /\ \A e \in Emitters : WF_signalVars(Subscribe(e)) /\ WF_signalVars(ResumeEmitter(e))

SignalSpec == SignalInit /\ [][SignalNext]_signalVars /\ SignalFairness

-----------------------------------------------------------------------------
(* Properties *)

\* An emitter that was woken and did not run yet will read the value it was woken by, and
\* that value still exists, unless the whole signal is gone ("Ensure that value remains
\* valid until the all emitters are notified. This can be achieved by discarding the return
\* value or using co_await on it.").
ReadsItsValue ==
    \A e \in Woken : life = "alive" => wokenBy[e] = curVal /\ curVal # 0 /\ valAlive

\* Whoever is linked is exactly once in the chain or in what is being walked, through any
\* interleaving of subscriptions, emissions, callbacks that link themselves again in the
\* middle of a walk and the end of the state.
LinkedOnce ==
    LET all == chain \o walk IN
    /\ IsInjective(all)
    /\ \A a \in Awaiters : link[a] = "linked" <=> Contains(all, a)

\* When the last reference is gone, nobody waits any longer.
NobodyWaitsForTheDead ==
    \A a \in Awaiters : (life = "dead" /\ link[a] = "linked") ~> link[a] = "ended"
=============================================================================
