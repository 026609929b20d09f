----------------------------- MODULE FutureSpec -----------------------------
(***************************************************************************)
(* What a future promises to those who await it: it is settled at most     *)
(* once, everybody who awaits it observes that one outcome and nobody      *)
(* observes anything before; once it is settled everybody is served.       *)
(***************************************************************************)
CONSTANTS
    Futures, Waiters, Outcomes,
    none,       \* no outcome
    nowhere     \* no future

VARIABLES
    outcome,    \* what each future was settled with, or none
    on,         \* the future each waiter awaits, or nowhere
    seen        \* what each waiter observed, or none

vars == <<outcome, on, seen>>

Init ==
    /\ outcome = [f \in Futures |-> none]
    /\ on = [w \in Waiters |-> nowhere]
    /\ seen = [w \in Waiters |-> none]

Settle(f, o) ==
    /\ outcome[f] = none
    /\ outcome' = [outcome EXCEPT ![f] = o]
    /\ UNCHANGED <<on, seen>>

Await(w, f) ==
    /\ on[w] = nowhere
    /\ on' = [on EXCEPT ![w] = f]
    /\ UNCHANGED <<outcome, seen>>

Observe(w) ==
    /\ on[w] # nowhere /\ seen[w] = none
    /\ outcome[on[w]] # none
    /\ seen' = [seen EXCEPT ![w] = outcome[on[w]]]
    /\ UNCHANGED <<outcome, on>>

Next ==
    \/ \E f \in Futures, o \in Outcomes : Settle(f, o)
    \/ \E w \in Waiters, f \in Futures : Await(w, f)
    \/ \E w \in Waiters : Observe(w)

Safe == Init /\ [][Next]_vars
Spec == Safe /\ \A w \in Waiters : WF_vars(Observe(w))
=============================================================================
