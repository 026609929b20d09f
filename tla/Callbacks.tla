------------------------------ MODULE Callbacks -------------------------------
(***************************************************************************)
(* Awaiters that call a function (future.h): that of discard(), which      *)
(* deletes itself, and call_fn_future_awaiter, which is used again and     *)
(* again, by its callback too.  The future each awaits is that of the      *)
(* module Future, whose chain runs a subscriber once.                      *)
(***************************************************************************)
EXTENDS Naturals

CONSTANTS
    Discarded,      \* calls of discard()
    MaxStarts       \* bound on the uses of the call_fn_future_awaiter

ASSUME MaxStartsAssumption == MaxStarts \in Nat

VARIABLES
    dfut,       \* the future in each object that discard() made
    dpc,        \* where the call of discard() is
    dsub,       \* the object is subscribed
    deletes,    \* how often it was deleted
    cfut,       \* call_fn_future_awaiter::_fut
    cpc, csub,  \* as above, for operator<<
    starts, called  \* how often it was started, and called its function

callbackVars == <<dfut, dpc, dsub, deletes, cfut, cpc, csub, starts, called>>
discards == <<dfut, dpc, dsub, deletes>>
awaiterVars == <<cfut, cpc, csub, starts, called>>

\* "linked" and "refused": what subscribe() returned, w in discard().
CallbacksTypeOK ==
    /\ dfut \in [Discarded -> {"none", "pending", "ready"}]
    /\ dpc \in [Discarded -> {"none", "constructing", "linked", "refused", "returned"}]
    /\ dsub \in [Discarded -> BOOLEAN]
    /\ deletes \in [Discarded -> 0 .. 2]
    /\ cfut \in {"none", "pending", "ready"}
    /\ cpc \in {"out", "subscribing", "refused"} /\ csub \in BOOLEAN
    /\ starts \in 0 .. MaxStarts /\ called \in 0 .. MaxStarts + 1

CallbacksInit ==
    /\ dfut = [d \in Discarded |-> "none"]
    /\ dpc = [d \in Discarded |-> "none"]
    /\ dsub = [d \in Discarded |-> FALSE]
    /\ deletes = [d \in Discarded |-> 0]
    /\ cfut = "none" /\ cpc = "out" /\ csub = FALSE
    /\ starts = 0 /\ called = 0

-----------------------------------------------------------------------------
(* discard() *)

\* The function is called by the constructor of the object.
Discard(d) ==
    /\ dpc[d] = "none"
    /\ \E st \in {"pending", "ready"} : dfut' = [dfut EXCEPT ![d] = st]
    /\ dpc' = [dpc EXCEPT ![d] = "constructing"]
    /\ UNCHANGED <<dsub, deletes, awaiterVars>>

\* It subscribes itself, and keeps the answer outside of itself: it may be gone at once.
DiscardSubscribes(d) ==
    /\ dpc[d] = "constructing"
    /\ dsub' = [dsub EXCEPT ![d] = dfut[d] = "pending"]
    /\ dpc' = [dpc EXCEPT ![d] = IF dfut[d] = "pending" THEN "linked" ELSE "refused"]
    /\ UNCHANGED <<dfut, deletes, awaiterVars>>

\* The future is resolved, and fin() called if the object is subscribed.
DiscardResolved(d) ==
    /\ dfut[d] = "pending"
    /\ dfut' = [dfut EXCEPT ![d] = "ready"]
    /\ dsub' = [dsub EXCEPT ![d] = FALSE]
    /\ deletes' = [deletes EXCEPT ![d] = IF dsub[d] THEN @ + 1 ELSE @]
    /\ UNCHANGED <<dpc, awaiterVars>>

\* Variant: the future is asked again whether it is ready.
DiscardReturns_Rereads(d) ==
    /\ dpc[d] \in {"linked", "refused"}
    /\ deletes' = [deletes EXCEPT ![d] = IF dfut[d] = "ready" THEN @ + 1 ELSE @]
    /\ dpc' = [dpc EXCEPT ![d] = "returned"]
    /\ UNCHANGED <<dfut, dsub, awaiterVars>>

\* If it could not subscribe, it is resumed by its maker.
DiscardReturns(d) ==
    /\ dpc[d] \in {"linked", "refused"}
    /\ deletes' = [deletes EXCEPT ![d] = IF dpc[d] = "refused" THEN @ + 1 ELSE @]
    /\ dpc' = [dpc EXCEPT ![d] = "returned"]
    /\ UNCHANGED <<dfut, dsub, awaiterVars>>

-----------------------------------------------------------------------------
(* call_fn_future_awaiter *)

\* operator<<, by anybody who knows that the function was called, itself included.
StartAwaiter ==
    /\ cpc = "out" /\ called = starts /\ starts < MaxStarts
    /\ \E st \in {"pending", "ready"} : cfut' = st
    /\ cpc' = "subscribing"
    /\ starts' = starts + 1
    /\ UNCHANGED <<csub, called, discards>>

AwaiterSubscribes ==
    /\ cpc = "subscribing"
    /\ \/ cfut = "pending" /\ csub' = TRUE /\ cpc' = "out"
       \/ cfut = "ready" /\ cpc' = "refused" /\ UNCHANGED csub
    /\ UNCHANGED <<cfut, starts, called, discards>>

\* resume() in operator<<; the function may start it again before it returns.
AwaiterResumes ==
    /\ cpc = "refused"
    /\ cpc' = "out"
    /\ called' = called + 1
    /\ UNCHANGED <<cfut, csub, starts, discards>>

AwaiterResolved ==
    /\ cfut = "pending"
    /\ cfut' = "ready"
    /\ csub' = FALSE
    /\ called' = IF csub THEN called + 1 ELSE called
    /\ UNCHANGED <<cpc, starts, discards>>

-----------------------------------------------------------------------------
CallbacksNext ==
    \/ \E d \in Discarded :
        Discard(d) \/ DiscardSubscribes(d) \/ DiscardResolved(d) \/ DiscardReturns(d)
    \/ StartAwaiter \/ AwaiterSubscribes \/ AwaiterResumes \/ AwaiterResolved

CallbacksSpec == CallbacksInit /\ [][CallbacksNext]_callbackVars

-----------------------------------------------------------------------------
(* Properties *)

\* Whoever resolves the future and whoever subscribes, in whatever order: the object of
\* discard() is deleted once, not before it subscribed, and is not left behind; a function
\* is called once for each start.
CallbackOnce ==
    /\ \A d \in Discarded :
        /\ deletes[d] <= 1
        /\ dpc[d] = "returned" /\ dfut[d] = "ready" => deletes[d] = 1
        /\ dpc[d] = "constructing" => deletes[d] = 0
    /\ called <= starts
    /\ cpc = "out" /\ cfut = "ready" => called = starts
==============================================================================
