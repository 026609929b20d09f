------------------------------ MODULE Generator ------------------------------
(***************************************************************************)
(* generator (generator.h, iterator.h): a coroutine that is asked for one  *)
(* item at a time, by a thread that blocks, through a future or with       *)
(* co_await, and may itself await and go on in another thread.             *)
(*                                                                         *)
(* One consumer asks, in any of the three ways, as the code requires.      *)
(* Items are numbered in the order they are produced.                      *)
(***************************************************************************)
EXTENDS Naturals, SequencesExt

CONSTANTS
    MaxItems,       \* bound: items produced
    MaxAwaits,      \* bound: times the body awaits
    LeavesAtOnce    \* whether the owner destroys the generator before _block is notified

ASSUME MaxItemsAssumption == MaxItems \in Nat
ASSUME MaxAwaitsAssumption == MaxAwaits \in Nat
ASSUME LeavesAtOnceAssumption == LeavesAtOnce \in BOOLEAN

VARIABLES
    body,       \* the coroutine
    inUser,     \* it runs in the consumer's thread, inside resume() or by transfer
    awaits,     \* how often it awaited
    made,       \* what it produced: items, and its end
    caller,     \* _caller: what to resume when there is an item
    handing,    \* the exchanged _caller, while it is being resumed
    notifying,  \* a thread is about to notify _block
    ret,        \* _ret: the item pointed to, or 0
    exp,        \* _exp is set
    done,       \* _done
    block,      \* _block
    user,       \* the consumer
    got,        \* what it was told
    abuse       \* an assertion failed, or something gone was used

generatorVars == <<body, inUser, awaits, made, caller, handing, notifying, ret, exp, done,
                   block, user, got, abuse>>
promise_type == <<ret, exp, done>>
coroutine == <<body, inUser, awaits, made>>

Callers == {"none", "sync", "future", "coro"}
End == MaxItems + 1         \* what the consumer is told besides items
Exception == MaxItems + 2
NoValue == 0                \* value_not_ready_exception

\* user: "resuming" is inside resume(), called by next_sync; "suspended" awaits the
\* generator or a future of it.
GeneratorTypeOK ==
    /\ body \in {"initial", "running", "awaiting", "yielded", "final", "gone"}
    /\ inUser \in BOOLEAN /\ awaits \in 0 .. MaxAwaits
    /\ made \in Seq(1 .. Exception) /\ got \in Seq(NoValue .. Exception)
    /\ caller \in Callers /\ handing \in Callers /\ notifying \in BOOLEAN
    /\ ret \in 0 .. MaxItems /\ exp \in BOOLEAN /\ done \in BOOLEAN /\ block \in BOOLEAN
    /\ user \in {"idle", "resuming", "blocked", "suspended", "left"}
    /\ abuse \in {"no", "busy", "used"}

GeneratorInit ==
    /\ body = "initial" /\ inUser = FALSE /\ awaits = 0
    /\ made = <<>> /\ got = <<>>
    /\ caller = "none" /\ handing = "none" /\ notifying = FALSE
    /\ ret = 0 /\ exp = FALSE /\ done = FALSE /\ block = FALSE
    /\ user = "idle"
    /\ abuse = "no"

-----------------------------------------------------------------------------
(* The consumer asks.  A generator that is done says so at once. *)

\* assert("Generator is busy" && _caller == nullptr)
NotBusy == abuse' = IF caller = "none" THEN abuse ELSE "busy"

\* The body goes on, in the thread that asked.
ResumeBody ==
    /\ body' = "running"
    /\ inUser' = TRUE
    /\ UNCHANGED <<awaits, made>>

next_sync ==
    /\ user = "idle" /\ ~done
    /\ NotBusy
    /\ \/ /\ body = "final"         \* throws no_more_values_exception
          /\ UNCHANGED <<coroutine, caller, block, user>>
       \/ /\ body # "final"
          /\ block' = FALSE
          /\ caller' = "sync"
          /\ ResumeBody
          /\ user' = "resuming"
    /\ UNCHANGED <<handing, notifying, promise_type, got>>

\* operator(): it does not look whether the generator is done.
next_future ==
    /\ user = "idle"
    /\ NotBusy
    /\ \/ /\ body = "final"
          /\ UNCHANGED <<coroutine, caller, user>>
       \/ /\ body # "final"
          /\ caller' = "future"
          /\ ResumeBody
          /\ user' = "suspended"
    /\ UNCHANGED <<handing, notifying, promise_type, block, got>>

\* next_awt::await_suspend and subscribe: the caller is stored before the exception.
next_async ==
    /\ user = "idle" /\ ~done
    /\ NotBusy
    /\ caller' = "coro"
    /\ \/ /\ body = "final"
          /\ UNCHANGED <<coroutine, user>>
       \/ /\ body # "final"
          /\ ResumeBody
          /\ user' = "suspended"
    /\ UNCHANGED <<handing, notifying, promise_type, block, got>>

\* Variant: the flag is reset when resume() returned.
Returned_Resets ==
    /\ user = "resuming" /\ ~inUser
    /\ user' = "blocked"
    /\ block' = FALSE
    /\ UNCHANGED <<coroutine, caller, handing, notifying, promise_type, got, abuse>>

\* resume() returned: the body awaits, or was suspended at a yield.
Returned ==
    /\ user = "resuming" /\ ~inUser
    /\ user' = "blocked"
    /\ UNCHANGED <<coroutine, caller, handing, notifying, promise_type, block, got, abuse>>

\* value(): the exception is thrown; without an item, that there is none.
value == IF exp THEN Exception ELSE ret

\* What the consumer learns.
Told == got' = Append(got, IF done THEN End ELSE value)

\* _block.wait(false) returns, and await_resume tells.
Unblocked ==
    /\ user = "blocked" /\ block
    /\ user' = "idle"
    /\ Told
    /\ UNCHANGED <<coroutine, caller, handing, notifying, promise_type, block, abuse>>

\* The owner may destroy it when nothing was asked.
DestroyGenerator ==
    /\ user = "idle"
    /\ notifying => LeavesAtOnce
    /\ user' = "left" /\ body' = "gone"
    /\ UNCHANGED <<inUser, awaits, made, caller, handing, notifying, promise_type, block, got, abuse>>

-----------------------------------------------------------------------------
(* The body *)

\* co_yield and the end: the coroutine is suspended and _caller exchanged; then the caller
\* is resumed, in the same thread.
Suspends(place, what) ==
    /\ body = "running"
    /\ body' = place
    /\ made' = Append(made, what)
    /\ handing' = caller /\ caller' = "none"
    /\ UNCHANGED <<inUser, awaits, notifying, block, user, got, abuse>>

yield_value ==
    LET item == Len(made) + 1 IN
    /\ item <= MaxItems
    /\ ret' = item
    /\ Suspends("yielded", item)
    /\ UNCHANGED <<exp, done>>

\* Variant: the end is not noted.
return_void_NotDone ==
    /\ ret' = 0
    /\ Suspends("final", End)
    /\ UNCHANGED <<exp, done>>

return_void ==
    /\ done' = TRUE /\ ret' = 0
    /\ Suspends("final", End)
    /\ UNCHANGED exp

unhandled_exception ==
    /\ exp' = TRUE /\ ret' = 0
    /\ Suspends("final", Exception)
    /\ UNCHANGED done

\* The body awaits something else: the thread that ran it leaves it ...
BodyAwaits ==
    /\ body = "running" /\ awaits < MaxAwaits
    /\ body' = "awaiting" /\ inUser' = FALSE
    /\ awaits' = awaits + 1
    /\ UNCHANGED <<made, caller, handing, notifying, promise_type, block, user,
                   got, abuse>>

\* ... and another one goes on with it.
BodyContinues ==
    /\ body = "awaiting"
    /\ body' = "running"
    /\ UNCHANGED <<inUser, awaits, made, caller, handing, notifying, promise_type, block, user,
                   got, abuse>>

unblock_sync ==
    /\ handing = "sync"
    /\ block' = TRUE
    /\ handing' = "none" /\ inUser' = FALSE
    /\ notifying' = (notifying \/ ~inUser)
    /\ UNCHANGED <<body, awaits, made, caller, promise_type, user, got, abuse>>

\* _block.notify_all() by the thread of the generator, which the consumer may overtake.
NotifyBlock ==
    /\ notifying
    /\ notifying' = FALSE
    /\ abuse' = IF body = "gone" THEN "used" ELSE abuse
    /\ UNCHANGED <<coroutine, caller, handing, promise_type, block, user, got>>

\* The promise is resolved from what there is; the consumer gets the future when resume()
\* returned.
unblock_future ==
    /\ handing = "future"
    /\ handing' = "none" /\ inUser' = FALSE
    /\ Told
    /\ user' = "idle"
    /\ UNCHANGED <<body, awaits, made, caller, notifying, promise_type, block, abuse>>

\* The consumer is resumed in the thread of the generator.
ResumeConsumer ==
    /\ handing = "coro"
    /\ handing' = "none" /\ inUser' = FALSE
    /\ Told
    /\ user' = "idle"
    /\ UNCHANGED <<body, awaits, made, caller, notifying, promise_type, block, abuse>>

BodyRuns == yield_value \/ return_void \/ unhandled_exception \/ BodyAwaits \/ BodyContinues
HandOver == unblock_sync \/ NotifyBlock \/ unblock_future \/ ResumeConsumer

GeneratorNext ==
    \/ next_sync \/ next_future \/ next_async
    \/ Returned \/ Unblocked
    \/ DestroyGenerator
    \/ BodyRuns \/ HandOver

\* A thread that runs goes on, and what the body awaits resumes it.
GeneratorFairness ==
    /\ WF_generatorVars(BodyRuns) /\ WF_generatorVars(HandOver)
    /\ WF_generatorVars(Returned) /\ WF_generatorVars(Unblocked)

GeneratorSpec == GeneratorInit /\ [][GeneratorNext]_generatorVars /\ GeneratorFairness

-----------------------------------------------------------------------------
(* Properties *)

\* Whatever the way of asking, and whichever thread the body goes on in, the consumer is
\* told every item once and in order, and then of the end or the exception, once.
EveryItemOnce ==
    /\ IsPrefix(got, made)
    /\ user \in {"idle", "left"} => got = made

\* Who asked is told: a blocked thread is not left behind by a body that yielded before it
\* began to wait.
AskEnds == user \in {"resuming", "blocked", "suspended"} ~> user \in {"idle", "left"}

\* The assertion "Generator is busy" fails only for one who awaits a generator again that
\* ended by an exception, and nothing of it is used after it is gone.
NotAbused == abuse # "no" => abuse = "busy" /\ exp
==============================================================================
