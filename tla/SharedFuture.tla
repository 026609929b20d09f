---------------------------- MODULE SharedFuture ----------------------------
(***************************************************************************)
(* shared_future (shared_future.h): handles that share a future on the     *)
(* heap.  While it is pending the future keeps itself alive by a reference *)
(* that its own awaiter holds, the tracer, which is resumed when the       *)
(* future is resolved.                                                     *)
(*                                                                         *)
(* That a future resumes whoever is subscribed, once, is taken from the    *)
(* module Future.                                                          *)
(***************************************************************************)
EXTENDS Naturals

CONSTANTS
    Handles,        \* instances of shared_future, each used by one thread at a time
    Shared,         \* future_internal, on the heap
    none            \* no shared future

ASSUME SharedAssumption == none \notin Shared

VARIABLES
    at,         \* _ptr of each handle
    charging,   \* the handle whose constructor, or get_promise(), goes on
    state,      \* of each future
    keeps,      \* resolve_tracer._ptr is set
    tracer,     \* where the tracer is: subscribed, or about to be resumed
    promised,   \* the futures whose promise somebody has
    restarted   \* those that were used again by operator<<

sharedVars == <<at, charging, state, keeps, tracer, promised, restarted>>

SharedTypeOK ==
    /\ at \in [Handles -> Shared \cup {none}]
    /\ charging \in [Handles -> {"no", "charge", "subscribe"}]
    /\ state \in [Shared -> {"unborn", "pending", "ready", "dead"}]
    /\ keeps \in [Shared -> BOOLEAN]
    /\ tracer \in [Shared -> {"off", "subscribed", "detached"}]
    /\ promised \subseteq Shared /\ restarted \subseteq Shared

SharedInit ==
    /\ at = [h \in Handles |-> none]
    /\ charging = [h \in Handles |-> "no"]
    /\ state = [o \in Shared |-> "unborn"]
    /\ keeps = [o \in Shared |-> FALSE]
    /\ tracer = [o \in Shared |-> "off"]
    /\ promised = {} /\ restarted = {}

-----------------------------------------------------------------------------
Users(o) == {h \in Handles : at[h] = o}

\* A reference to o is dropped, by h or by the tracer: the last one destroys it.
Destroyed(o, kept, users) ==
    state' = IF ~kept /\ users = {} THEN [state EXCEPT ![o] = "dead"] ELSE state

\* From a function that takes the promise, or returns a future.  The latter is charged
\* if it is pending only; set_value and set_exception make one that is not.
Construct(h, o, st) ==
    /\ at[h] = none /\ state[o] = "unborn"
    /\ at' = [at EXCEPT ![h] = o]
    /\ state' = [state EXCEPT ![o] = st]
    /\ promised' = IF st = "pending" THEN promised \cup {o} ELSE promised
    /\ \/ charging' = [charging EXCEPT ![h] = "charge"]
       \/ st = "ready" /\ UNCHANGED charging
    /\ UNCHANGED <<keeps, tracer, restarted>>

\* On a handle that has a future, which init_if_needed() replaces: the test is inverted,
\* and without one there is nothing to take a promise from.
get_promise(h, o) ==
    /\ at[h] # none /\ charging[h] = "no" /\ state[o] = "unborn"
    /\ at' = [at EXCEPT ![h] = o]
    /\ state' = [state EXCEPT
                    ![o] = "pending",
                    ![at[h]] = IF Users(at[h]) = {h} /\ ~keeps[at[h]] THEN "dead" ELSE @]
    /\ charging' = [charging EXCEPT ![h] = "charge"]
    /\ promised' = promised \cup {o}
    /\ UNCHANGED <<keeps, tracer, restarted>>

\* Variant: the future takes no reference.
Charge_Nothing(h) ==
    /\ charging[h] = "charge"
    /\ charging' = [charging EXCEPT ![h] = "subscribe"]
    /\ UNCHANGED <<at, state, keeps, tracer, promised, restarted>>

\* charge(): the future gets a reference to itself ...
Charge(h) ==
    /\ charging[h] = "charge"
    /\ charging' = [charging EXCEPT ![h] = "subscribe"]
    /\ keeps' = [keeps EXCEPT ![at[h]] = TRUE]
    /\ UNCHANGED <<at, state, tracer, promised, restarted>>

\* if (_ptr->pending()), after the function returned a future.
NotCharged(h) ==
    /\ charging[h] = "charge" /\ state[at[h]] = "ready"
    /\ charging' = [charging EXCEPT ![h] = "no"]
    /\ UNCHANGED <<at, state, keeps, tracer, promised, restarted>>

\* ... that is given up when it is resolved, or was before the tracer is subscribed.
SubscribeTracer(h) ==
    /\ charging[h] = "subscribe"
    /\ charging' = [charging EXCEPT ![h] = "no"]
    /\ IF state[at[h]] = "pending"
       THEN tracer' = [tracer EXCEPT ![at[h]] = "subscribed"] /\ UNCHANGED keeps
       ELSE keeps' = [keeps EXCEPT ![at[h]] = FALSE] /\ UNCHANGED tracer
    /\ UNCHANGED <<at, state, promised, restarted>>

Copy(h, g) ==
    /\ at[h] # none /\ at[g] = none
    /\ at' = [at EXCEPT ![g] = at[h]]
    /\ UNCHANGED <<charging, state, keeps, tracer, promised, restarted>>

Reset(h) ==
    /\ at[h] # none /\ charging[h] = "no"
    /\ at' = [at EXCEPT ![h] = none]
    /\ Destroyed(at[h], keeps[at[h]], Users(at[h]) \ {h})
    /\ UNCHANGED <<charging, keeps, tracer, promised, restarted>>

\* operator<<: the future starts again, and is not charged.
Restart(h) ==
    /\ at[h] # none /\ charging[h] = "no"
    /\ state[at[h]] = "ready"
    /\ state' = [state EXCEPT ![at[h]] = "pending"]
    /\ promised' = promised \cup {at[h]}
    /\ restarted' = restarted \cup {at[h]}
    /\ UNCHANGED <<at, charging, keeps, tracer>>

\* The promise is used: the future is ready and its awaiters detached.
ResolveShared(o) ==
    /\ o \in promised /\ state[o] = "pending"
    /\ promised' = promised \ {o}
    /\ state' = [state EXCEPT ![o] = "ready"]
    /\ tracer' = [tracer EXCEPT ![o] = IF @ = "subscribed" THEN "detached" ELSE @]
    /\ UNCHANGED <<at, charging, keeps, restarted>>

\* The tracer is resumed and drops the reference: the future may go with it.
ResumeTracer(o) ==
    /\ tracer[o] = "detached"
    /\ tracer' = [tracer EXCEPT ![o] = "off"]
    /\ keeps' = [keeps EXCEPT ![o] = FALSE]
    /\ Destroyed(o, FALSE, Users(o))
    /\ UNCHANGED <<at, charging, promised, restarted>>

SharedNext ==
    \/ \E h \in Handles, o \in Shared :
        \/ \E st \in {"pending", "ready"} : Construct(h, o, st)
        \/ get_promise(h, o)
    \/ \E h \in Handles :
        \/ Charge(h) \/ NotCharged(h) \/ SubscribeTracer(h)
        \/ Reset(h) \/ Restart(h)
    \/ \E h, g \in Handles : Copy(h, g)
    \/ \E o \in Shared : ResolveShared(o) \/ ResumeTracer(o)

\* A constructor goes on, and so does a thread that resolves a promise.
SharedFairness ==
    /\ \A h \in Handles : WF_sharedVars(Charge(h) \/ SubscribeTracer(h))
    /\ \A o \in Shared : WF_sharedVars(ResumeTracer(o))

SharedSpec == SharedInit /\ [][SharedNext]_sharedVars /\ SharedFairness

-----------------------------------------------------------------------------
(* Properties *)

\* A future that somebody has the promise of is there, and keeps itself once it is charged
\* ("While the future is pending, an extra reference is counted."), unless it was started
\* again by operator<<, which does not charge it.
PendingKept ==
    \A o \in promised \ restarted :
        /\ state[o] = "pending"
        /\ keeps[o] \/ \E h \in Users(o) : charging[h] = "charge"
==============================================================================
