----------------------------- MODULE Conversion -----------------------------
(***************************************************************************)
(* future_conv (future_conv.h): an object that awaits a future of one type *)
(* and resolves a promise of another, again and again; and callback_await  *)
(* (callback_awaiter.h), a coroutine that awaits something and calls back. *)
(*                                                                         *)
(* The futures themselves are those of the module Future: a promise that   *)
(* is dropped, by its destructor or an assignment, resolves its future     *)
(* without a value.                                                        *)
(***************************************************************************)
EXTENDS Naturals

CONSTANTS
    Conversions,    \* uses of the object: each has a promise to resolve
    Waits,          \* calls of callback_await
    SourceIsVoid    \* the future awaited is a future<void>

ASSUME ConversionAssumption == SourceIsVoid \in BOOLEAN

VARIABLES
    prom,       \* _prom: the conversion it is for
    from,       \* _fut
    attached,   \* the object is subscribed to it
    running,    \* the conversion whose promise resume() moved out of _prom
    answered,   \* what each promise was resolved with
    kept,       \* promises that the function keeps, to resolve them later
    using,      \* where the user of the object is
    call        \* per wait: where the coroutine is

conversionVars == <<prom, from, attached, running, answered, kept, using, call>>

Nobody == "nobody"
Results == {"value", "exception"}

ConversionTypeOK ==
    /\ prom \in Conversions \cup {Nobody} /\ running \in Conversions \cup {Nobody}
    /\ from \in {"none", "pending"} \cup Results /\ attached \in BOOLEAN
    /\ answered \in [Conversions -> {"no", "dropped"} \cup Results]
    /\ kept \subseteq Conversions
    /\ using \in {"out", "subscribing"}
    /\ call \in [Waits -> {"none", "awaiting", "caught", "done"} \cup Results]

ConversionInit ==
    /\ prom = Nobody /\ running = Nobody
    /\ from = "none" /\ attached = FALSE
    /\ answered = [c \in Conversions |-> "no"]
    /\ kept = {}
    /\ using = "out"
    /\ call = [w \in Waits |-> "none"]

-----------------------------------------------------------------------------
(* future_conv *)

Resolves(c, how) == answered' = [answered EXCEPT ![c] = how]
NobodyKnows == UNCHANGED call

\* operator<< and operator(): the promise is stored, and the function called that returns
\* the other future.
StartConversion(c) ==
    /\ using = "out" /\ prom = Nobody /\ running = Nobody
    /\ answered[c] = "no" /\ c \notin kept
    /\ prom' = c
    /\ \E st \in {"pending"} \cup Results : from' = st
    /\ using' = "subscribing"
    /\ UNCHANGED <<attached, running, answered, kept>> /\ NobodyKnows

\* Variant: it is not looked whether the future was resolved already.
Subscribes_Unchecked ==
    /\ using = "subscribing"
    /\ using' = "out"
    /\ IF from = "pending" THEN attached' = TRUE /\ UNCHANGED <<prom, running>>
                           ELSE UNCHANGED <<attached, prom, running>>
    /\ UNCHANGED <<from, answered, kept>> /\ NobodyKnows

\* It subscribes, or is resumed at once: resume() takes the promise.
Subscribes ==
    /\ using = "subscribing"
    /\ using' = "out"
    /\ IF from = "pending" THEN attached' = TRUE /\ UNCHANGED <<prom, running>>
                           ELSE running' = prom /\ prom' = Nobody /\ UNCHANGED attached
    /\ UNCHANGED <<from, answered, kept>> /\ NobodyKnows

\* The other future is resolved; if the object is subscribed, it is resumed.
FromResolved(how) ==
    /\ from = "pending"
    /\ from' = how
    /\ IF attached THEN attached' = FALSE /\ running' = prom /\ prom' = Nobody
                   ELSE UNCHANGED <<attached, running, prom>>
    /\ UNCHANGED <<answered, kept, using>> /\ NobodyKnows

\* The function is called with the value, if there is one; the value of a future<void> is
\* not read, and the function called though there is an exception in it.
HasSource == from = "value" \/ SourceIsVoid

\* The function converts the value, or throws, as reading the future does if there is an
\* exception; or it takes the promise, to resolve it now or later or to drop it.
Converts ==
    /\ running # Nobody
    /\ \/ HasSource /\ \E how \in {"value", "dropped"} : Resolves(running, how) /\ UNCHANGED kept
       \/ HasSource /\ kept' = kept \cup {running} /\ UNCHANGED answered
       \/ Resolves(running, "exception") /\ UNCHANGED kept
    /\ running' = Nobody
    /\ UNCHANGED <<prom, from, attached, using>> /\ NobodyKnows

\* Whoever took the promise uses it, or drops it.
AnswersLater(c) ==
    /\ c \in kept
    /\ kept' = kept \ {c}
    /\ \E how \in Results \cup {"dropped"} : Resolves(c, how)
    /\ UNCHANGED <<prom, from, attached, running, using>> /\ NobodyKnows

-----------------------------------------------------------------------------
(* callback_await *)

NobodyConverts == UNCHANGED <<prom, from, attached, running, answered, kept, using>>

CallbackAwait(w) ==
    /\ call[w] = "none"
    /\ call' = [call EXCEPT ![w] = "awaiting"]
    /\ NobodyConverts

AwaitEnds(w, how) ==
    /\ call[w] = "awaiting"
    /\ call' = [call EXCEPT ![w] = how]
    /\ NobodyConverts

\* The callback is called with the value, or from the handler without one; one that
\* throws when it has the value is caught by that handler, and called again.
CallsBack(w) ==
    /\ call[w] \in Results \cup {"caught"}
    /\ \/ call' = [call EXCEPT ![w] = "done"]
       \/ call[w] = "value" /\ call' = [call EXCEPT ![w] = "caught"]
    /\ NobodyConverts

-----------------------------------------------------------------------------
ConversionNext ==
    \/ \E c \in Conversions : StartConversion(c) \/ AnswersLater(c)
    \/ Subscribes \/ Converts
    \/ \E how \in Results : FromResolved(how)
    \/ \E w \in Waits : CallbackAwait(w) \/ CallsBack(w)
    \/ \E w \in Waits, how \in Results : AwaitEnds(w, how)

\* Threads go on; what is awaited, and who took a promise, answers at last.
ConversionFairness ==
    /\ WF_conversionVars(Subscribes) /\ WF_conversionVars(Converts)
    /\ WF_conversionVars(\E how \in Results : FromResolved(how))
    /\ \A c \in Conversions : WF_conversionVars(AnswersLater(c))
    /\ \A w \in Waits : WF_conversionVars(CallsBack(w) \/ \E how \in Results : AwaitEnds(w, how))

ConversionSpec == ConversionInit /\ [][ConversionNext]_conversionVars /\ ConversionFairness

-----------------------------------------------------------------------------
(* Properties *)

\* The promise of every conversion that was begun is resolved, also when the future was
\* before the object subscribed, and when the function throws.
ConversionAnswers == \A c \in Conversions : prom = c ~> answered[c] # "no"
=============================================================================
