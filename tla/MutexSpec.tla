----------------------------- MODULE MutexSpec ------------------------------
(***************************************************************************)
(* What cocls::mutex promises: one owner at a time, and those who could    *)
(* not have the mutex at once own it in the order in which they asked,     *)
(* each of them some day if every owner releases it.                       *)
(***************************************************************************)
EXTENDS Sequences

CONSTANTS Clients, none

VARIABLES owner, waiting

vars == <<owner, waiting>>

Init == owner = none /\ waiting = <<>>

Asks(c) == c # owner /\ \A i \in DOMAIN waiting : waiting[i] # c

Lock(c) ==
    /\ owner = none
    /\ owner' = c
    /\ UNCHANGED waiting

Enqueue(c) ==
    /\ owner # none /\ Asks(c)
    /\ waiting' = Append(waiting, c)
    /\ UNCHANGED owner

Unlock ==
    /\ owner # none /\ waiting = <<>>
    /\ owner' = none
    /\ UNCHANGED waiting

HandOver ==
    /\ owner # none /\ waiting # <<>>
    /\ owner' = Head(waiting)
    /\ waiting' = Tail(waiting)

Release == Unlock \/ HandOver

Next == Release \/ \E c \in Clients : Lock(c) \/ Enqueue(c)

Safe == Init /\ [][Next]_vars
Spec == Safe /\ WF_vars(Release)
=============================================================================
