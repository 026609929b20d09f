-------------------------- MODULE MutexRefinement ---------------------------
(***************************************************************************)
(* The pointers of cocls::mutex implement a first-come first-served lock.  *)
(* Whoever subscribes takes its place in the line by the compare_exchange  *)
(* on _requests; an owner gives the mutex up by the exchange that puts     *)
(* nullptr back or by taking the first awaiter off _queue.                 *)
(***************************************************************************)
EXTENDS Mutex, SequencesExt

\* There are ever only finitely many awaiters.
ASSUME ClientsAssumption == IsFiniteSet(Clients)

Owners == {h[1] : h \in Holders}
TheOwner == CHOOSE c \in Owners : TRUE

\* Those who may wait.  A new owner is linked until it has replaced itself by the
\* doorman.
InLine == Clients \ Owners

\* s follows the pointers `link' from a on, as long as they lead to `members'.
IsChain(s, a, link, members) ==
    LET After(i) == IF i = 0 THEN a ELSE link[s[i]]
    IN  /\ \A i \in 1 .. Len(s) : s[i] = After(i - 1) /\ s[i] \in members
        /\ After(Len(s)) \notin members

\* The clients that are linked from an awaiter on.
Chain(a) ==
    CHOOSE s \in BoundedSeq(Clients, Cardinality(Clients)) : IsChain(s, a, next, InLine)

\* The line, oldest first: what build_queue has not reversed yet is older than
\* what it has already put into _queue, and that is older than new requests.
Line ==
    IF Owners = {} THEN <<>>
    ELSE Reverse(Chain(cursor[TheOwner])) \o Chain(queue) \o Reverse(Chain(requests))

FairLock == INSTANCE MutexSpec WITH
    none    <- nullptr,
    owner   <- IF Owners = {} THEN nullptr ELSE TheOwner,
    waiting <- Line

\* Nobody barges in, is forgotten by a concurrent build_queue or waits for ever:
\* every waiter owns the mutex in the order of its compare_exchange.
FirstComeFirstServed == FairLock!Spec

\* A client that was told to suspend is resumed as the owner.
WaiterRuns == \A c \in Clients : pc[c] = "suspended" ~> pc[c] = "own"
=============================================================================
