---------------------------- MODULE MutexProofs -----------------------------
(***************************************************************************)
(* Mutual exclusion of cocls::mutex, and the order in which it is owned,   *)
(* for any number of clients, provided that mutex::subscribe decides on    *)
(* the value that its compare_exchange compared (NextReload = FALSE;       *)
(* otherwise they do not hold).                                            *)
(*                                                                         *)
(* The invariant names the three lists that a waiting client can be on:    *)
(* the stack under _requests, the detached stack that a build_queue is     *)
(* reversing and _queue.  Each is closed under _next up to what ends it,   *)
(* and linked injectively, so that what is taken off one of them is no     *)
(* longer linked from anywhere.  That each of them comes to its end makes  *)
(* them sequences, and these the line of the lock that MutexSpec states.   *)
(***************************************************************************)
EXTENDS MutexRefinement, SequenceTheorems, FiniteSetTheorems, WellFoundedInduction, TLAPS

\* The activities that act as the owner belong to one client.
Holding(c) == pc[c] \in Owning \/ at[c] # "none"
Waiting(c) == pc[c] = "suspended" /\ at[c] = "none"
Building(c) == pc[c] = "build" \/ at[c] = "build"
\* It has acquired the mutex and is still linked itself.
Linked(c) == at[c] \in {"check", "swap"}

Holder ==
    /\ \A c \in Clients :
        /\ at[c] = "check" => next[c] = nullptr
        /\ at[c] # "none" => pc[c] = "suspended"
        /\ Holding(c) => requests # nullptr
        /\ \A d \in Clients : Holding(c) /\ Holding(d) => c = d
        /\ ~Building(c) => cursor[c] = nullptr
    /\ queue # nullptr =>
        \E c \in Clients : Holding(c) /\ pc[c] # "swap" /\ ~Linked(c)
    /\ next[doorman] = nullptr

\* Where a waiting client may be linked: on the stack under _requests, on the
\* detached stack that a build_queue reverses, or in _queue.
Places == {"none", "stack", "detached", "queue"}

Stack(loc) ==
    LET Swapped == \A c \in Clients : ~Linked(c)
        On(a) == a \in Clients /\ loc[a] = "stack"
        \* The stack ends in the doorman, or in the new owner that has not yet
        \* replaced itself.
        Bottom(a) == \/ a = doorman /\ Swapped
                     \/ a \in Clients /\ Linked(a)
    IN  /\ requests = nullptr \/ On(requests) \/ Bottom(requests)
        /\ \A x \in Clients : loc[x] = "stack" =>
            /\ On(next[x]) \/ Bottom(next[x])
            /\ On(next[x]) => next[x] # requests
        /\ \A c \in Clients : pc[c] = "swap" => On(requests)

Detached(loc) ==
    LET On(a) == a \in Clients /\ loc[a] = "detached"
        Stop(c) == IF at[c] = "build" THEN c ELSE doorman
    IN  /\ \A c \in Clients : Building(c) =>
            /\ On(cursor[c]) \/ cursor[c] = Stop(c)
            /\ \A x \in Clients : loc[x] = "detached" =>
                /\ On(next[x]) \/ next[x] = Stop(c)
                /\ On(next[x]) => next[x] # cursor[c]
        /\ \A x \in Clients : loc[x] = "detached" => \E c \in Clients : Building(c)
        /\ \A c \in Clients : pc[c] = "build" => On(cursor[c]) \/ queue # nullptr

Queued(loc) ==
    LET On(a) == a \in Clients /\ loc[a] = "queue"
    IN  /\ On(queue) \/ queue = nullptr
        /\ \A x \in Clients : loc[x] = "queue" =>
            /\ On(next[x]) \/ next[x] = nullptr
            /\ On(next[x]) => next[x] # queue
        /\ \A c \in Clients : pc[c] = "pop" => queue # nullptr

Lists(loc) ==
    /\ \A c \in Clients : loc[c] # "none" => Waiting(c)
    /\ Stack(loc) /\ Detached(loc) /\ Queued(loc)
    /\ \A x, y \in Clients :
          /\ loc[x] # "none" /\ loc[y] # "none"
          /\ next[x] = next[y]
          /\ next[x] \in Clients /\ loc[next[x]] # "none"
          => x = y

IInv ==
    /\ TypeOK /\ Holder
    /\ \E loc \in [Clients -> Places] : Lists(loc)

\* At first nobody is in a list and nobody owns the mutex.
LEMMA InitInv == Init => IInv
<1> SUFFICES ASSUME Init PROVE IInv
  OBVIOUS
<1> DEFINE none == [c \in Clients |-> "none"]
<1>1. none \in [Clients -> Places] /\ Lists(none)
  BY DEF Init, Places, Lists, Waiting, Building, Linked, Stack, Detached, Queued
<1>2. TypeOK /\ Holder
  BY PointersAssumption DEF Init, TypeOK, Holder, Holding, Owning, Awaiters, Building, Linked
<1> QED
  BY <1>1, <1>2 DEF IInv

\* Every step keeps the types.
LEMMA TypeStep ==
    ASSUME TypeOK, NEW loc, Lists(loc), [Next]_vars
    PROVE  TypeOK'
<1> USE PointersAssumption DEF TypeOK, Owning, Awaiters, vars
<1>1. ASSUME NEW c \in Clients, TryLock(c) PROVE TypeOK'
  BY <1>1 DEF TryLock
<1>2. ASSUME NEW c \in Clients, StartSubscribe(c) PROVE TypeOK'
  BY <1>2 DEF StartSubscribe
<1>3. ASSUME NEW c \in Clients, SubscribeRetry(c) PROVE TypeOK'
  BY <1>3 DEF SubscribeRetry
<1>4. ASSUME NEW c \in Clients, SubscribeLinked(c) PROVE TypeOK'
  BY <1>4 DEF SubscribeLinked
<1>5. ASSUME NEW c \in Clients, CheckNext(c) PROVE TypeOK'
  BY <1>5 DEF CheckNext
<1>6. ASSUME NEW c \in Clients, LockSwap(c) PROVE TypeOK'
  BY <1>6 DEF LockSwap
<1>7. ASSUME NEW c \in Clients, LockBuild(c) PROVE TypeOK'
  <2>1. cursor[c] \in Clients
    BY <1>7 DEF LockBuild, Lists, Detached, Building
  <2> QED
    BY <1>7, <2>1 DEF LockBuild, Push
<1>8. ASSUME NEW c \in Clients, LockBuilt(c) PROVE TypeOK'
  BY <1>8 DEF LockBuilt
<1>9. ASSUME NEW c \in Clients, Resumed(c) PROVE TypeOK'
  BY <1>9 DEF Resumed
<1>10. ASSUME NEW c \in Clients, Unlock(c) PROVE TypeOK'
  BY <1>10 DEF Unlock
<1>11. ASSUME NEW c \in Clients, UnlockContended(c) PROVE TypeOK'
  BY <1>11 DEF UnlockContended
<1>12. ASSUME NEW c \in Clients, UnlockQueued(c) PROVE TypeOK'
  BY <1>12 DEF UnlockQueued
<1>13. ASSUME NEW c \in Clients, UnlockSwap(c) PROVE TypeOK'
  BY <1>13 DEF UnlockSwap
<1>14. ASSUME NEW c \in Clients, UnlockBuild(c) PROVE TypeOK'
  BY <1>14 DEF UnlockBuild, Push
<1>15. ASSUME NEW c \in Clients, UnlockBuilt(c) PROVE TypeOK'
  BY <1>15 DEF UnlockBuilt
<1>16. ASSUME NEW c \in Clients, Grant(c) PROVE TypeOK'
  <2>1. next[queue] \in Clients \cup {nullptr}
    BY <1>16 DEF Grant, Lists, Queued
  <2> QED
    BY <1>16, <2>1 DEF Grant
<1>17. CASE UNCHANGED vars
  BY <1>17
<1> QED
  BY <1>1, <1>2, <1>3, <1>4, <1>5, <1>6, <1>7, <1>8, <1>9, <1>10, <1>11, <1>12, <1>13, <1>14,
     <1>15, <1>16, <1>17 DEF Next, Acquire, Release, Step

\* Every step keeps the owner unique.
LEMMA HolderStep ==
    ASSUME TypeOK, Holder, NEW loc, Lists(loc), ~NextReload, [Next]_vars
    PROVE  Holder'
<1> USE PointersAssumption DEF TypeOK, Owning, Awaiters, vars, Holder, Holding, Building, Waiting,
        Linked
<1>1. ASSUME NEW c \in Clients, TryLock(c) PROVE Holder'
  BY <1>1 DEF TryLock
<1>2. ASSUME NEW c \in Clients, StartSubscribe(c) PROVE Holder'
  BY <1>2 DEF StartSubscribe
<1>3. ASSUME NEW c \in Clients, SubscribeRetry(c) PROVE Holder'
  BY <1>3 DEF SubscribeRetry
<1>4. ASSUME NEW c \in Clients, SubscribeLinked(c) PROVE Holder'
  BY <1>4 DEF SubscribeLinked
<1>5. ASSUME NEW c \in Clients, CheckNext(c) PROVE Holder'
  BY <1>5 DEF CheckNext
<1>6. ASSUME NEW c \in Clients, LockSwap(c) PROVE Holder'
  <2>1. queue = nullptr /\ \A d \in Clients : Holding(d) => d = c
    BY <1>6 DEF LockSwap
  <2>2. \A d \in Clients : Holding(d)' => d = c
    BY <1>6, <2>1 DEF LockSwap
  <2> QED
    BY <1>6, <2>1, <2>2 DEF LockSwap
<1>7. ASSUME NEW c \in Clients, LockBuild(c) PROVE Holder'
  <2>1. cursor[c] \in Clients
    BY <1>7 DEF LockBuild, Lists, Detached
  <2>2. \A d \in Clients : Holding(d)' <=> Holding(d)
    BY <1>7 DEF LockBuild
  <2> QED
    BY <1>7, <2>1, <2>2 DEF LockBuild, Push
<1>8. ASSUME NEW c \in Clients, LockBuilt(c) PROVE Holder'
  BY <1>8 DEF LockBuilt
<1>9. ASSUME NEW c \in Clients, Resumed(c) PROVE Holder'
  BY <1>9 DEF Resumed
<1>10. ASSUME NEW c \in Clients, Unlock(c) PROVE Holder'
  BY <1>10 DEF Unlock
<1>11. ASSUME NEW c \in Clients, UnlockContended(c) PROVE Holder'
  BY <1>11 DEF UnlockContended
<1>12. ASSUME NEW c \in Clients, UnlockQueued(c) PROVE Holder'
  BY <1>12 DEF UnlockQueued
<1>13. ASSUME NEW c \in Clients, UnlockSwap(c) PROVE Holder'
  BY <1>13 DEF UnlockSwap
<1>14. ASSUME NEW c \in Clients, UnlockBuild(c) PROVE Holder'
  BY <1>14 DEF UnlockBuild, Push
<1>15. ASSUME NEW c \in Clients, UnlockBuilt(c) PROVE Holder'
  BY <1>15 DEF UnlockBuilt
<1>16. ASSUME NEW c \in Clients, Grant(c) PROVE Holder'
  BY <1>16 DEF Grant
<1>17. CASE UNCHANGED vars
  BY <1>17
<1> QED
  BY <1>1, <1>2, <1>3, <1>4, <1>5, <1>6, <1>7, <1>8, <1>9, <1>10, <1>11, <1>12, <1>13, <1>14,
     <1>15, <1>16, <1>17 DEF Next, Acquire, Release, Step

\* Every step moves clients between the lists.
LEMMA ListsStep ==
    ASSUME TypeOK, Holder, NEW loc \in [Clients -> Places], Lists(loc), ~NextReload, [Next]_vars
    PROVE  \E l \in [Clients -> Places] : Lists(l)'
<1> USE PointersAssumption DEF TypeOK, Owning, Awaiters, vars, Holder, Holding, Building,
        Lists, Waiting, Linked, Stack, Detached, Queued, Places
<1>1. ASSUME NEW c \in Clients, TryLock(c)
      PROVE  \E l \in [Clients -> Places] : Lists(l)'
  <2>1. Lists(loc)'
    BY <1>1 DEF TryLock
  <2> QED
    BY <2>1
<1>2. ASSUME NEW c \in Clients, StartSubscribe(c)
      PROVE  \E l \in [Clients -> Places] : Lists(l)'
  <2>1. Lists(loc)'
    BY <1>2 DEF StartSubscribe
  <2> QED
    BY <2>1
<1>3. ASSUME NEW c \in Clients, SubscribeRetry(c)
      PROVE  \E l \in [Clients -> Places] : Lists(l)'
  <2>1. Lists(loc)'
    BY <1>3 DEF SubscribeRetry
  <2> QED
    BY <2>1
<1>4. ASSUME NEW c \in Clients, SubscribeLinked(c)
      PROVE  \E l \in [Clients -> Places] : Lists(l)'
  <2>1. CASE next[c] = nullptr
    <3> DEFINE l == [x \in Clients |-> IF loc[x] = "stack" THEN "none" ELSE loc[x]]
    <3>1. l \in [Clients -> Places]
      OBVIOUS
    <3>2. Lists(l)'
      BY <1>4, <2>1 DEF SubscribeLinked
    <3> HIDE DEF l
    <3> QED
      BY <3>1, <3>2
  <2>2. CASE next[c] # nullptr
    <3> DEFINE l == [loc EXCEPT ![c] = "stack"]
    <3>1. l \in [Clients -> Places]
      OBVIOUS
    <3>2. Lists(l)'
      BY <1>4, <2>2 DEF SubscribeLinked
    <3> HIDE DEF l
    <3> QED
      BY <3>1, <3>2
  <2> QED
    BY <2>1, <2>2
<1>5. ASSUME NEW c \in Clients, CheckNext(c)
      PROVE  \E l \in [Clients -> Places] : Lists(l)'
  BY <1>5 DEF CheckNext
<1>6. ASSUME NEW c \in Clients, LockSwap(c)
      PROVE  \E l \in [Clients -> Places] : Lists(l)'
  <2> DEFINE l == [x \in Clients |-> IF loc[x] = "stack" THEN "detached" ELSE loc[x]]
  <2>1. l \in [Clients -> Places]
    OBVIOUS
  <2>2. Lists(l)'
    BY <1>6 DEF LockSwap
  <2> HIDE DEF l
  <2> QED
    BY <2>1, <2>2
<1>7. ASSUME NEW c \in Clients, LockBuild(c)
      PROVE  \E l \in [Clients -> Places] : Lists(l)'
  <2>1. PICK x \in Clients : x = cursor[c] /\ loc[x] = "detached"
    BY <1>7 DEF LockBuild, Push
  <2> DEFINE l == [loc EXCEPT ![x] = "queue"]
  <2>2. l \in [Clients -> Places] /\ \A y \in Clients : l[y] = IF y = x THEN "queue" ELSE loc[y]
    OBVIOUS
  <2> HIDE DEF l
  <2>3. Stack(l)'
    BY <1>7, <2>1, <2>2 DEF LockBuild, Push
  <2>4. Detached(l)'
    BY <1>7, <2>1, <2>2 DEF LockBuild, Push
  <2>5. Queued(l)'
    BY <1>7, <2>1, <2>2 DEF LockBuild, Push
  <2>6. \A y \in Clients : l[y] # "none" => Waiting(y)'
    BY <1>7, <2>1, <2>2 DEF LockBuild, Push
  <2>7. ASSUME NEW y \in Clients, NEW z \in Clients, l[y] # "none", l[z] # "none",
               next'[y] = next'[z], next'[y] \in Clients, l[next'[y]] # "none"
        PROVE  y = z
    BY <1>7, <2>1, <2>2, <2>7 DEF LockBuild, Push
  <2>8. Lists(l)'
    <3> HIDE DEF Stack, Detached, Queued
    <3> QED
      BY <2>3, <2>4, <2>5, <2>6, <2>7 DEF l
  <2> QED
    BY <2>2, <2>8
<1>8. ASSUME NEW c \in Clients, LockBuilt(c)
      PROVE  \E l \in [Clients -> Places] : Lists(l)'
  <2> DEFINE l == [x \in Clients |-> IF loc[x] = "detached" THEN "none" ELSE loc[x]]
  <2>1. l \in [Clients -> Places]
    OBVIOUS
  <2>2. Lists(l)'
    BY <1>8 DEF LockBuilt
  <2> HIDE DEF l
  <2> QED
    BY <2>1, <2>2
<1>9. ASSUME NEW c \in Clients, Resumed(c)
      PROVE  \E l \in [Clients -> Places] : Lists(l)'
  <2>1. Lists(loc)'
    BY <1>9 DEF Resumed
  <2> QED
    BY <2>1
<1>10. ASSUME NEW c \in Clients, Unlock(c)
      PROVE  \E l \in [Clients -> Places] : Lists(l)'
  <2>1. Lists(loc)'
    BY <1>10 DEF Unlock
  <2> QED
    BY <2>1
<1>11. ASSUME NEW c \in Clients, UnlockContended(c)
      PROVE  \E l \in [Clients -> Places] : Lists(l)'
  <2>1. Lists(loc)'
    BY <1>11 DEF UnlockContended
  <2> QED
    BY <2>1
<1>12. ASSUME NEW c \in Clients, UnlockQueued(c)
      PROVE  \E l \in [Clients -> Places] : Lists(l)'
  <2>1. Lists(loc)'
    BY <1>12 DEF UnlockQueued
  <2> QED
    BY <2>1
<1>13. ASSUME NEW c \in Clients, UnlockSwap(c)
      PROVE  \E l \in [Clients -> Places] : Lists(l)'
  <2> DEFINE l == [x \in Clients |-> IF loc[x] = "stack" THEN "detached" ELSE loc[x]]
  <2>1. l \in [Clients -> Places]
    OBVIOUS
  <2>2. Lists(l)'
    BY <1>13 DEF UnlockSwap
  <2> HIDE DEF l
  <2> QED
    BY <2>1, <2>2
<1>14. ASSUME NEW c \in Clients, UnlockBuild(c)
      PROVE  \E l \in [Clients -> Places] : Lists(l)'
  <2>1. PICK x \in Clients : x = cursor[c] /\ loc[x] = "detached"
    BY <1>14 DEF UnlockBuild, Push
  <2> DEFINE l == [loc EXCEPT ![x] = "queue"]
  <2>2. l \in [Clients -> Places] /\ \A y \in Clients : l[y] = IF y = x THEN "queue" ELSE loc[y]
    OBVIOUS
  <2> HIDE DEF l
  <2>3. Stack(l)'
    BY <1>14, <2>1, <2>2 DEF UnlockBuild, Push
  <2>4. Detached(l)'
    BY <1>14, <2>1, <2>2 DEF UnlockBuild, Push
  <2>5. Queued(l)'
    BY <1>14, <2>1, <2>2 DEF UnlockBuild, Push
  <2>6. \A y \in Clients : l[y] # "none" => Waiting(y)'
    BY <1>14, <2>1, <2>2 DEF UnlockBuild, Push
  <2>7. ASSUME NEW y \in Clients, NEW z \in Clients, l[y] # "none", l[z] # "none",
               next'[y] = next'[z], next'[y] \in Clients, l[next'[y]] # "none"
        PROVE  y = z
    BY <1>14, <2>1, <2>2, <2>7 DEF UnlockBuild, Push
  <2>8. Lists(l)'
    <3> HIDE DEF Stack, Detached, Queued
    <3> QED
      BY <2>3, <2>4, <2>5, <2>6, <2>7 DEF l
  <2> QED
    BY <2>2, <2>8
<1>15. ASSUME NEW c \in Clients, UnlockBuilt(c)
      PROVE  \E l \in [Clients -> Places] : Lists(l)'
  <2> DEFINE l == [x \in Clients |-> IF loc[x] = "detached" THEN "none" ELSE loc[x]]
  <2>1. l \in [Clients -> Places]
    OBVIOUS
  <2>2. Lists(l)'
    BY <1>15 DEF UnlockBuilt
  <2> HIDE DEF l
  <2> QED
    BY <2>1, <2>2
<1>16. ASSUME NEW c \in Clients, Grant(c)
      PROVE  \E l \in [Clients -> Places] : Lists(l)'
  <2>1. PICK x \in Clients : x = queue /\ loc[x] = "queue"
    BY <1>16 DEF Grant
  <2> DEFINE l == [loc EXCEPT ![x] = "none"]
  <2>2. l \in [Clients -> Places] /\ \A y \in Clients : l[y] = IF y = x THEN "none" ELSE loc[y]
    OBVIOUS
  <2> HIDE DEF l
  <2>3. Stack(l)'
    BY <1>16, <2>1, <2>2 DEF Grant
  <2>4. Detached(l)'
    BY <1>16, <2>1, <2>2 DEF Grant
  <2>5. Queued(l)'
    BY <1>16, <2>1, <2>2 DEF Grant
  <2>6. \A y \in Clients : l[y] # "none" => Waiting(y)'
    BY <1>16, <2>1, <2>2 DEF Grant
  <2>7. ASSUME NEW y \in Clients, NEW z \in Clients, l[y] # "none", l[z] # "none",
               next'[y] = next'[z], next'[y] \in Clients, l[next'[y]] # "none"
        PROVE  y = z
    BY <1>16, <2>1, <2>2, <2>7 DEF Grant
  <2>8. Lists(l)'
    <3> HIDE DEF Stack, Detached, Queued
    <3> QED
      BY <2>3, <2>4, <2>5, <2>6, <2>7 DEF l
  <2> QED
    BY <2>2, <2>8
<1>17. CASE UNCHANGED vars
  <2>1. Lists(loc)'
    BY <1>17
  <2> QED
    BY <2>1
<1> HIDE DEF Lists
<1> QED
  BY <1>1, <1>2, <1>3, <1>4, <1>5, <1>6, <1>7, <1>8, <1>9, <1>10, <1>11, <1>12, <1>13, <1>14,
     <1>15, <1>16, <1>17 DEF Next, Acquire, Release, Step

\* The inductive invariant.
THEOREM Inductive == ~NextReload => (Spec => []IInv)
<1> SUFFICES ASSUME ~NextReload PROVE Spec => []IInv
  OBVIOUS
<1>1. IInv /\ [Next]_vars => IInv'
  <2> SUFFICES ASSUME IInv, [Next]_vars PROVE IInv'
    OBVIOUS
  <2>1. PICK loc \in [Clients -> Places] : Lists(loc)
    BY DEF IInv
  <2>2. TypeOK' /\ Holder'
    BY <2>1, TypeStep, HolderStep DEF IInv
  <2>3. \E l \in [Clients -> Places] : Lists(l)'
    BY <2>1, ListsStep DEF IInv
  <2> QED
    BY <2>2, <2>3 DEF IInv
<1> QED
  BY InitInv, <1>1, PTL DEF Spec

\* The variables keep their types; in particular build_queue never puts the
\* doorman into _queue.
THEOREM TypeCorrect == ~NextReload => (Spec => []TypeOK)
<1>1. IInv => TypeOK
  BY DEF IInv
<1> QED
  BY Inductive, <1>1, PTL

\* At most one activity acts as the owner of the mutex.
THEOREM Exclusive == ~NextReload => (Spec => []MutualExclusion)
<1>1. IInv => MutualExclusion
  BY DEF IInv, TypeOK, Holder, Holding, MutualExclusion, Holders, Owning
<1> QED
  BY Inductive, <1>1, PTL

\* The assertions of build_queue and unlock hold, unlock never takes an awaiter
\* off an empty _queue, and the doorman is never linked like a waiting client.
THEOREM QueueSafe == ~NextReload => (Spec => []QueueDiscipline)
<1>1. IInv => QueueDiscipline
  BY PointersAssumption
  DEF IInv, TypeOK, Holder, Holding, QueueDiscipline, DoormanUntouched, Owning, Lists, Queued,
      Linked
<1> QED
  BY Inductive, <1>1, PTL

-----------------------------------------------------------------------------
(* Chains.  Which clients wait, and in which order, is read off the pointers; *)
(* the lemmas hold for any pointers `link' and any set of members.            *)

\* A set of numbers has a smallest one.
LEMMA Smallest ==
    ASSUME NEW S \in SUBSET Nat, S # {}
    PROVE  \E x \in S : \A y \in S : x <= y
<1> DEFINE Upto == {1 .. n : n \in S}
<1>1. Upto \subseteq FiniteSubsetsOf(Nat) /\ Upto # {}
  <2>1. \A n \in S : IsFiniteSet(1 .. n) /\ 1 .. n \in SUBSET Nat
    BY FS_Interval
  <2> QED
    BY <2>1 DEF FiniteSubsetsOf
<1>2. \E b \in Upto : \A d \in Upto : <<d, b>> \notin StrictSubsetOrdering(Nat)
  <2> HIDE DEF Upto
  <2> QED
    BY <1>1, FS_StrictSubsetOrderingWellFounded, WFMin
<1>3. PICK x \in S : \A y \in S : <<1 .. y, 1 .. x>> \notin StrictSubsetOrdering(Nat)
  BY <1>2
<1>4. ASSUME NEW y \in S, y < x
      PROVE  FALSE
  <2>1. 1 .. y \subseteq 1 .. x /\ x \in 1 .. x /\ x \notin 1 .. y
    BY <1>4
  <2> HIDE <1>3
  <2>2. <<1 .. y, 1 .. x>> \in StrictSubsetOrdering(Nat)
    BY <2>1 DEF StrictSubsetOrdering
  <2> QED
    BY <1>3, <2>2
<1> QED
  BY <1>4

\* Two chains from the same place are the same.
LEMMA OneChain ==
    ASSUME NEW link, NEW M, NEW a, NEW s \in Seq(M), NEW t \in Seq(M),
           IsChain(s, a, link, M), IsChain(t, a, link, M)
    PROVE  s = t
<1>1. /\ Len(s) \in Nat /\ Len(t) \in Nat
      /\ \A i \in 1 .. Len(s) : s[i] \in M
      /\ \A i \in 1 .. Len(t) : t[i] \in M
  BY LenProperties, ElementOfSeq
<1> DEFINE Differ == {i \in Nat : i \in 1 .. Len(s) /\ i \in 1 .. Len(t) /\ s[i] # t[i]}
<1>2. Differ = {}
  <2> SUFFICES ASSUME Differ # {} PROVE FALSE
    OBVIOUS
  <2>1. PICK i \in Differ : \A j \in Differ : i <= j
    <3> HIDE DEF Differ
    <3>1. Differ \in SUBSET Nat
      BY DEF Differ
    <3> QED
      BY <3>1, Smallest
  <2>2. i \in 1 .. Len(s) /\ i \in 1 .. Len(t) /\ s[i] # t[i]
    BY <2>1
  <2>3. CASE i = 1
    BY <2>2, <2>3 DEF IsChain
  <2>4. CASE i # 1
    <3>1. i - 1 \in 1 .. Len(s) /\ i - 1 \in 1 .. Len(t) /\ i - 1 \in Nat /\ ~(i <= i - 1)
      BY <1>1, <2>2, <2>4
    <3>2. s[i - 1] = t[i - 1]
      BY <2>1, <3>1
    <3>3. s[i] = link[s[i - 1]] /\ t[i] = link[t[i - 1]]
      BY <2>2, <3>1 DEF IsChain
    <3> QED
      BY <2>2, <3>2, <3>3
  <2> QED
    BY <2>3, <2>4
<1>3. \A i \in 1 .. Len(s) : i <= Len(t) => s[i] = t[i]
  BY <1>1, <1>2
<1>4. \A i \in 1 .. Len(t) : i <= Len(s) => s[i] = t[i]
  BY <1>1, <1>2
<1>5. ~(Len(s) < Len(t))
  <2> SUFFICES ASSUME Len(s) < Len(t) PROVE FALSE
    OBVIOUS
  <2>1. Len(s) + 1 \in 1 .. Len(t) /\ (Len(s) + 1) - 1 = Len(s)
    BY <1>1
  <2>2. t[Len(s) + 1] = (IF Len(s) = 0 THEN a ELSE link[t[Len(s)]]) /\ t[Len(s) + 1] \in M
    BY <2>1 DEF IsChain
  <2>3. Len(s) # 0 => s[Len(s)] = t[Len(s)]
    BY <1>1, <1>3
  <2>4. (IF Len(s) = 0 THEN a ELSE link[s[Len(s)]]) \notin M
    BY DEF IsChain
  <2> QED
    BY <2>2, <2>3, <2>4
<1>6. ~(Len(t) < Len(s))
  <2> SUFFICES ASSUME Len(t) < Len(s) PROVE FALSE
    OBVIOUS
  <2>1. Len(t) + 1 \in 1 .. Len(s) /\ (Len(t) + 1) - 1 = Len(t)
    BY <1>1
  <2>2. s[Len(t) + 1] = (IF Len(t) = 0 THEN a ELSE link[s[Len(t)]]) /\ s[Len(t) + 1] \in M
    BY <2>1 DEF IsChain
  <2>3. Len(t) # 0 => s[Len(t)] = t[Len(t)]
    BY <1>1, <1>4
  <2>4. (IF Len(t) = 0 THEN a ELSE link[t[Len(t)]]) \notin M
    BY DEF IsChain
  <2> QED
    BY <2>2, <2>3, <2>4
<1> QED
  BY <1>1, <1>3, <1>5, <1>6, SeqEqual

\* A chain comes to its end, so that it meets nobody twice,
LEMMA NobodyTwice ==
    ASSUME NEW link, NEW M, NEW a, NEW s \in Seq(M), IsChain(s, a, link, M),
           NEW i \in 1 .. Len(s), NEW j \in 1 .. Len(s), s[i] = s[j], i < j
    PROVE  FALSE
<1>1. Len(s) \in Nat /\ i \in Nat /\ j \in Nat
  BY LenProperties
<1> DEFINE n == Len(s)
           After(k) == IF k = 0 THEN a ELSE link[s[k]]
           Part == {k \in Nat : j + k <= n /\ After(i + k) # After(j + k)}
<1>2. \A k \in 1 .. n : s[k] = After(k - 1) /\ s[k] \in M
  BY DEF IsChain
<1>3. After(n) \notin M
  BY DEF IsChain
<1> HIDE DEF After
<1>4. n - j \in Part
  <2>1. i + (n - j) \in 0 .. n - 1 /\ j + (n - j) = n /\ n - j \in Nat
    BY <1>1
  <2>2. (i + (n - j)) + 1 \in 1 .. n /\ ((i + (n - j)) + 1) - 1 = i + (n - j)
    BY <1>1, <2>1
  <2>3. After(i + (n - j)) \in M
    BY <1>2, <2>2
  <2> QED
    BY <1>3, <2>1, <2>3
<1>5. PICK k \in Part : \A m \in Part : k <= m
  <2>1. Part \in SUBSET Nat /\ Part # {}
    BY <1>4
  <2> HIDE DEF Part
  <2> QED
    BY <2>1, Smallest
<1>6. k \in Nat /\ j + k <= n /\ After(i + k) # After(j + k)
  BY <1>5
<1>7. CASE k = 0
  BY <1>1, <1>6, <1>7 DEF After
<1>8. CASE k # 0
  <2>1. k - 1 \in Nat /\ j + (k - 1) <= n /\ ~(k <= k - 1)
    BY <1>1, <1>6, <1>8
  <2>2. After(i + (k - 1)) = After(j + (k - 1))
    BY <1>5, <2>1
  <2>3. /\ i + k \in 1 .. n /\ (i + k) - 1 = i + (k - 1)
        /\ j + k \in 1 .. n /\ (j + k) - 1 = j + (k - 1)
    BY <1>1, <1>6, <1>8
  <2>4. s[i + k] = s[j + k]
    BY <1>2, <2>2, <2>3
  <2> QED
    BY <1>1, <1>6, <2>3, <2>4 DEF After
<1> QED
  BY <1>7, <1>8

\* and is no longer than there are clients: Chain finds it.
LEMMA ChainFound ==
    ASSUME NEW link, NEW M \in SUBSET Clients, NEW a, NEW s \in Seq(M), IsChain(s, a, link, M)
    PROVE  (CHOOSE t \in BoundedSeq(Clients, Cardinality(Clients)) : IsChain(t, a, link, M)) = s
<1> DEFINE Lines == BoundedSeq(Clients, Cardinality(Clients))
<1>1. Len(s) \in Nat /\ s \in [1 .. Len(s) -> Clients] /\ DOMAIN s = 1 .. Len(s)
  BY LenProperties
<1>2. IsInjective(s)
  <2> SUFFICES ASSUME NEW i \in 1 .. Len(s), NEW j \in 1 .. Len(s), s[i] = s[j] PROVE i = j
    BY <1>1 DEF IsInjective
  <2>1. ~(i < j) /\ ~(j < i)
    BY NobodyTwice
  <2> QED
    BY <1>1, <2>1
<1>3. Len(s) <= Cardinality(Clients) /\ Cardinality(Clients) \in Nat
  <2>1. s \in Injection(1 .. Len(s), Clients)
    BY <1>1, <1>2 DEF Injection
  <2>2. Cardinality(1 .. Len(s)) = Len(s)
    <3>1. 1 \in Int /\ Len(s) \in Int
      BY <1>1
    <3>2. Cardinality(1 .. Len(s)) = IF 1 > Len(s) THEN 0 ELSE Len(s) - 1 + 1
      BY <3>1, FS_Interval
    <3> QED
      BY <1>1, <3>2
  <2>3. Cardinality(1 .. Len(s)) <= Cardinality(Clients)
    BY <2>1, ClientsAssumption, FS_Injection
  <2>4. Cardinality(Clients) \in Nat
    BY ClientsAssumption, FS_CardinalityType
  <2> QED
    BY <2>2, <2>3, <2>4
<1>4. s \in Lines
  <2>1. Len(s) \in 0 .. Cardinality(Clients)
    BY <1>1, <1>3
  <2> QED
    BY <1>1, <2>1 DEF BoundedSeq, SeqOf
<1>5. ASSUME NEW t \in Lines, IsChain(t, a, link, M)
      PROVE  t = s
  <2>1. PICK m \in 0 .. Cardinality(Clients) : t \in [1 .. m -> Clients]
    BY DEF BoundedSeq, SeqOf
  <2>2. t \in Seq(Clients) /\ m \in Nat
    BY <1>3, <2>1, SeqDef
  <2>3. \A i \in 1 .. Len(t) : t[i] \in M
    BY <1>5 DEF IsChain
  <2>4. t \in Seq(M)
    <3>1. Len(t) \in Nat /\ t \in [1 .. Len(t) -> Clients]
      BY <2>2, LenProperties
    <3>2. t \in [1 .. Len(t) -> M]
      BY <2>3, <3>1
    <3> QED
      BY <3>1, <3>2, SeqDef
  <2> QED
    BY <1>5, <2>4, OneChain
<1> HIDE DEF Lines
<1> QED
  BY <1>4, <1>5 DEF Lines

\* Nothing hangs on a place outside the members,
LEMMA NoChain ==
    ASSUME NEW link, NEW M, NEW a, a \notin M
    PROVE  /\ IsChain(<<>>, a, link, M) /\ <<>> \in Seq(M)
           /\ \A s \in Seq(M) : IsChain(s, a, link, M) => s = <<>>
<1>1. IsChain(<<>>, a, link, M) /\ <<>> \in Seq(M)
  BY EmptySeq DEF IsChain
<1>2. ASSUME NEW s \in Seq(M), IsChain(s, a, link, M), s # <<>>
      PROVE  FALSE
  <2>1. 1 \in 1 .. Len(s)
    BY <1>2, EmptySeq
  <2>2. s[1] = a /\ s[1] \in M
    BY <1>2, <2>1 DEF IsChain
  <2> QED
    BY <2>2
<1> QED
  BY <1>1, <1>2

\* and a member has the chain of its successor behind it.
LEMMA ChainOfMember ==
    ASSUME NEW link, NEW M, NEW x \in M, NEW s \in Seq(M), IsChain(s, x, link, M)
    PROVE  /\ s # <<>> /\ Head(s) = x /\ Tail(s) \in Seq(M) /\ s = <<x>> \o Tail(s)
           /\ IsChain(Tail(s), link[x], link, M)
<1>1. s # <<>>
  BY EmptySeq DEF IsChain
<1>2. 1 \in 1 .. Len(s) /\ Len(s) \in Nat \ {0}
  BY <1>1, EmptySeq
<1>3. s[1] = x
  BY <1>2 DEF IsChain
<1>4. /\ Head(s) = x /\ Tail(s) \in Seq(M) /\ Len(Tail(s)) = Len(s) - 1
      /\ \A i \in 1 .. Len(Tail(s)) : Tail(s)[i] = s[i + 1]
  BY <1>1, <1>3, HeadTailProperties
<1> DEFINE t == Tail(s)
           n == Len(t)
<1>5. \A i \in 1 .. n : t[i] = (IF i - 1 = 0 THEN link[x] ELSE link[t[i - 1]]) /\ t[i] \in M
  <2> TAKE i \in 1 .. n
  <2>1. i + 1 \in 1 .. Len(s) /\ (i + 1) - 1 = i /\ i # 0
    BY <1>2, <1>4
  <2>2. s[i + 1] = link[s[i]] /\ s[i + 1] \in M
    BY <2>1 DEF IsChain
  <2>3. CASE i = 1
    BY <1>3, <1>4, <2>2, <2>3
  <2>4. CASE i # 1
    <3>1. i - 1 \in 1 .. n /\ (i - 1) + 1 = i
      BY <1>2, <1>4, <2>4
    <3>2. t[i - 1] = s[i]
      BY <1>4, <3>1
    <3> QED
      BY <1>4, <2>2, <2>4, <3>2
  <2> QED
    BY <2>3, <2>4
<1>6. (IF n = 0 THEN link[x] ELSE link[t[n]]) \notin M
  <2>1. link[s[Len(s)]] \notin M
    BY <1>2 DEF IsChain
  <2>2. CASE n = 0
    <3>1. n = Len(s) - 1
      BY <1>4
    <3>2. Len(s) = 1
      <4> HIDE DEF n
      <4> QED
        BY <1>2, <2>2, <3>1
    <3> QED
      BY <1>3, <2>1, <2>2, <3>2
  <2>3. CASE n # 0
    <3>1. n \in 1 .. n /\ n + 1 = Len(s)
      BY <1>2, <1>4, <2>3
    <3>2. t[n] = s[Len(s)]
      BY <1>4, <3>1
    <3> QED
      BY <2>1, <2>3, <3>2
  <2> QED
    BY <2>2, <2>3
<1>7. IsChain(t, link[x], link, M)
  BY <1>5, <1>6 DEF IsChain
<1>8. s = <<x>> \o t
  <2>1. <<x>> \in Seq(M) /\ Len(<<x>>) = 1 /\ <<x>>[1] = x
    OBVIOUS
  <2>2. /\ <<x>> \o t \in Seq(M) /\ Len(<<x>> \o t) = 1 + n
        /\ \A i \in 1 .. 1 + n : (<<x>> \o t)[i] = IF i <= 1 THEN x ELSE t[i - 1]
    BY <1>4, <2>1, ConcatProperties
  <2>3. \A i \in 1 .. Len(s) : s[i] = (<<x>> \o t)[i]
    <3> TAKE i \in 1 .. Len(s)
    <3>1. CASE i = 1
      BY <1>2, <1>3, <1>4, <2>2, <3>1
    <3>2. CASE i # 1
      <4>1. i - 1 \in 1 .. n /\ (i - 1) + 1 = i /\ ~(i <= 1) /\ i \in 1 .. 1 + n
        BY <1>2, <1>4, <3>2
      <4> QED
        BY <1>4, <2>2, <4>1
    <3> QED
      BY <3>1, <3>2
  <2> QED
    BY <1>2, <1>4, <2>2, <2>3, SeqEqual
<1> QED
  BY <1>1, <1>4, <1>7, <1>8

\* A new head.
LEMMA LongerChain ==
    ASSUME NEW link, NEW M, NEW x \in M, NEW s \in Seq(M), IsChain(s, link[x], link, M)
    PROVE  <<x>> \o s \in Seq(M) /\ IsChain(<<x>> \o s, x, link, M)
<1> DEFINE t == <<x>> \o s
<1>1. <<x>> \in Seq(M) /\ Len(<<x>>) = 1 /\ <<x>>[1] = x
  OBVIOUS
<1>2. /\ t \in Seq(M) /\ Len(t) = 1 + Len(s) /\ Len(s) \in Nat
      /\ \A i \in 1 .. 1 + Len(s) : t[i] = IF i <= 1 THEN x ELSE s[i - 1]
  BY <1>1, ConcatProperties, LenProperties
<1> HIDE DEF t
<1>3. t[1] = x
  BY <1>2
<1>4. \A i \in 1 .. Len(s) : t[i + 1] = s[i]
  BY <1>2
<1>5. \A i \in 1 .. Len(t) : t[i] = (IF i - 1 = 0 THEN x ELSE link[t[i - 1]]) /\ t[i] \in M
  <2> TAKE i \in 1 .. Len(t)
  <2>1. CASE i = 1
    BY <1>3, <2>1
  <2>2. CASE i # 1
    <3>1. i - 1 \in 1 .. Len(s) /\ (i - 1) + 1 = i /\ i - 1 # 0
      BY <1>2, <2>2
    <3>2. t[i] = s[i - 1] /\ s[i - 1] \in M
      BY <1>4, <3>1 DEF IsChain
    <3>3. s[i - 1] = IF (i - 1) - 1 = 0 THEN link[x] ELSE link[s[(i - 1) - 1]]
      BY <3>1 DEF IsChain
    <3>4. CASE i = 2
      BY <1>3, <3>2, <3>3, <3>4
    <3>5. CASE i # 2
      <4>1. (i - 1) - 1 \in 1 .. Len(s) /\ ((i - 1) - 1) + 1 = i - 1
        BY <1>2, <2>2, <3>5
      <4>2. t[i - 1] = s[(i - 1) - 1]
        BY <1>4, <4>1
      <4> QED
        BY <3>1, <3>2, <3>3, <4>1, <4>2
    <3> QED
      BY <3>4, <3>5
  <2> QED
    BY <2>1, <2>2
<1>6. link[t[Len(t)]] \notin M
  <2>1. (IF Len(s) = 0 THEN link[x] ELSE link[s[Len(s)]]) \notin M
    BY DEF IsChain
  <2>2. Len(s) = 0 => t[Len(t)] = x
    BY <1>2, <1>3
  <2>3. Len(s) # 0 => t[Len(t)] = s[Len(s)]
    <3>1. Len(s) # 0 => Len(s) \in 1 .. Len(s) /\ Len(s) + 1 = Len(t)
      BY <1>2
    <3> QED
      BY <1>4, <3>1
  <2> QED
    BY <2>1, <2>2, <2>3
<1>7. Len(t) # 0
  BY <1>2
<1>8. IsChain(t, x, link, M)
  BY <1>5, <1>6, <1>7 DEF IsChain
<1> QED
  BY <1>2, <1>8 DEF t

\* A chain stays within a set that is closed under the pointers.
LEMMA ChainWithin ==
    ASSUME NEW link, NEW M, NEW a, NEW s \in Seq(M), IsChain(s, a, link, M),
           NEW P, a \in M => a \in P, \A x \in P : link[x] \in M => link[x] \in P
    PROVE  \A i \in 1 .. Len(s) : s[i] \in P
<1> DEFINE Out == {i \in Nat : i \in 1 .. Len(s) /\ s[i] \notin P}
<1>1. Out = {}
  <2> SUFFICES ASSUME Out # {} PROVE FALSE
    OBVIOUS
  <2>1. PICK i \in Out : \A j \in Out : i <= j
    <3>1. Out \in SUBSET Nat
      OBVIOUS
    <3> HIDE DEF Out
    <3> QED
      BY <3>1, Smallest
  <2>2. i \in 1 .. Len(s) /\ s[i] \notin P /\ s[i] \in M /\ Len(s) \in Nat
    BY <2>1, LenProperties DEF IsChain
  <2>3. CASE i = 1
    BY <2>2, <2>3 DEF IsChain
  <2>4. CASE i # 1
    <3>1. i - 1 \in 1 .. Len(s) /\ i - 1 \in Nat /\ ~(i <= i - 1) /\ i - 1 # 0
      BY <2>2, <2>4
    <3>2. s[i - 1] \in P
      BY <2>1, <3>1
    <3>3. s[i] = link[s[i - 1]]
      BY <2>2, <3>1 DEF IsChain
    <3> QED
      BY <2>2, <3>2, <3>3
  <2> QED
    BY <2>3, <2>4
<1> QED
  BY <1>1, LenProperties

\* A chain remains when its members remain and keep their pointers.
LEMMA ChainKept ==
    ASSUME NEW link, NEW M, NEW a, NEW s \in Seq(M), IsChain(s, a, link, M),
           NEW link2, NEW M2, NEW P, \A i \in 1 .. Len(s) : s[i] \in P,
           \A x \in P : link2[x] = link[x] /\ x \in M2,
           a \notin M => a \notin M2,
           \A x \in P : link[x] \notin M => link[x] \notin M2
    PROVE  s \in Seq(M2) /\ IsChain(s, a, link2, M2)
<1>1. Len(s) \in Nat /\ s \in [1 .. Len(s) -> M]
  BY LenProperties
<1>2. s \in Seq(M2)
  <2>1. s \in [1 .. Len(s) -> M2]
    BY <1>1
  <2> QED
    BY <1>1, <2>1, SeqDef
<1>3. \A i \in 1 .. Len(s) : s[i] = (IF i - 1 = 0 THEN a ELSE link2[s[i - 1]]) /\ s[i] \in M2
  <2> TAKE i \in 1 .. Len(s)
  <2>1. i - 1 # 0 => i - 1 \in 1 .. Len(s)
    BY <1>1
  <2> QED
    BY <2>1 DEF IsChain
<1>4. (IF Len(s) = 0 THEN a ELSE link2[s[Len(s)]]) \notin M2
  <2>1. Len(s) # 0 => Len(s) \in 1 .. Len(s)
    BY <1>1
  <2> QED
    BY <2>1 DEF IsChain
<1> QED
  BY <1>2, <1>3, <1>4 DEF IsChain

\* A sequence from its end.
LEMMA Backwards ==
    ASSUME NEW C, NEW t \in Seq(C)
    PROVE  /\ Reverse(t) \in Seq(C) /\ Len(Reverse(t)) = Len(t) /\ Len(t) \in Nat
           /\ \A i \in 1 .. Len(t) : Reverse(t)[i] = t[(Len(t) - i) + 1]
           /\ Reverse(<<>>) = <<>>
<1>1. Len(t) \in Nat /\ \A i \in 1 .. Len(t) : t[i] \in C
  BY LenProperties, ElementOfSeq
<1>2. \A i \in 1 .. Len(t) : (Len(t) - i) + 1 \in 1 .. Len(t)
  BY <1>1
<1>3. Reverse(t) \in [1 .. Len(t) -> C]
  BY <1>1, <1>2 DEF Reverse
<1>4. Reverse(t) \in Seq(C)
  BY <1>1, <1>3, SeqDef
<1>5. Len(Reverse(t)) \in Nat /\ 1 .. Len(Reverse(t)) = 1 .. Len(t)
  BY <1>3, <1>4, LenProperties
<1>6. Len(Reverse(t)) = Len(t)
  BY <1>1, <1>5
<1>7. Reverse(<<>>) = <<>>
  <2>1. Len(<<>>) = 0 /\ \A i \in 1 .. 0 : FALSE
    BY EmptySeq
  <2>2. Reverse(<<>>) \in [1 .. 0 -> C]
    BY <2>1 DEF Reverse
  <2>3. Reverse(<<>>) \in Seq(C)
    BY <2>2, SeqDef
  <2>4. Len(Reverse(<<>>)) \in Nat /\ 1 .. Len(Reverse(<<>>)) = 1 .. 0
    BY <2>2, <2>3, LenProperties
  <2>5. Len(Reverse(<<>>)) = 0
    <3>1. 1 \notin 1 .. Len(Reverse(<<>>))
      BY <2>4
    <3> QED
      BY <2>4, <3>1
  <2> QED
    BY <2>3, <2>5, EmptySeq
<1> QED
  BY <1>1, <1>4, <1>6, <1>7 DEF Reverse

\* Reversing moves the first element to the end.
LEMMA Turned ==
    ASSUME NEW C, NEW s \in Seq(C), NEW x \in C
    PROVE  <<x>> \o s \in Seq(C) /\ Reverse(<<x>> \o s) = Append(Reverse(s), x)
<1>1. \A t \in Seq(C) : /\ Reverse(t) \in Seq(C) /\ Len(Reverse(t)) = Len(t) /\ Len(t) \in Nat
                        /\ \A i \in 1 .. Len(t) : Reverse(t)[i] = t[(Len(t) - i) + 1]
  BY Backwards
<1> DEFINE t == <<x>> \o s
<1>3. <<x>> \in Seq(C) /\ Len(<<x>>) = 1 /\ <<x>>[1] = x
  OBVIOUS
<1>4. /\ t \in Seq(C) /\ Len(t) = 1 + Len(s) /\ Len(s) \in Nat
      /\ \A i \in 1 .. 1 + Len(s) : t[i] = IF i <= 1 THEN x ELSE s[i - 1]
  BY <1>3, ConcatProperties, LenProperties
<1> HIDE DEF t
<1>5. /\ Append(Reverse(s), x) \in Seq(C) /\ Len(Append(Reverse(s), x)) = Len(s) + 1
      /\ \A i \in 1 .. Len(s) : Append(Reverse(s), x)[i] = Reverse(s)[i]
      /\ Append(Reverse(s), x)[Len(s) + 1] = x
  BY <1>1, AppendProperties
<1>6. \A i \in 1 .. Len(t) : Reverse(t)[i] = Append(Reverse(s), x)[i]
  <2> TAKE i \in 1 .. Len(t)
  <2>1. Reverse(t)[i] = t[(Len(t) - i) + 1]
    BY <1>1, <1>4
  <2>2. CASE i = Len(s) + 1
    BY <1>4, <1>5, <2>1, <2>2
  <2>3. CASE i # Len(s) + 1
    <3>1. /\ i \in 1 .. Len(s) /\ (Len(t) - i) + 1 \in 1 .. 1 + Len(s)
          /\ ((Len(t) - i) + 1) - 1 = (Len(s) - i) + 1 /\ ~((Len(t) - i) + 1 <= 1)
      BY <1>4, <2>3
    <3>2. t[(Len(t) - i) + 1] = s[(Len(s) - i) + 1]
      BY <1>4, <3>1
    <3> QED
      BY <1>1, <1>5, <2>1, <3>1, <3>2
  <2> QED
    BY <2>2, <2>3
<1>7. Reverse(t) = Append(Reverse(s), x)
  <2>1. Reverse(t) \in Seq(C) /\ Len(Reverse(t)) = Len(t)
    BY <1>1, <1>4
  <2>2. Len(Reverse(t)) = Len(Append(Reverse(s), x))
    BY <1>4, <1>5, <2>1
  <2> QED
    BY <1>5, <1>6, <2>1, <2>2, SeqEqual
<1> QED
  BY <1>4, <1>7 DEF t

-----------------------------------------------------------------------------
(* First come, first served *)

\* Every list comes to its end, and the mutex is only locked while somebody holds it.
Ends(a) == \E s \in Seq(InLine) : IsChain(s, a, next, InLine)

Chained ==
    /\ requests # nullptr => \E c \in Clients : Holding(c)
    /\ Ends(requests) /\ Ends(queue)
    /\ \A c \in Clients : Ends(cursor[c])

\* Those who may not wait are those who act as the owner.
LEMMA OwnersHold == TypeOK /\ Holder => Owners = {c \in Clients : Holding(c)}
<1> SUFFICES ASSUME TypeOK, Holder PROVE Owners = {c \in Clients : Holding(c)}
  OBVIOUS
<1>1. ASSUME NEW c \in Owners PROVE c \in Clients /\ Holding(c)
  BY DEF Owners, Holders, Holding
<1>2. ASSUME NEW c \in Clients, Holding(c) PROVE c \in Owners
  <2>1. CASE pc[c] \in Owning
    <3>1. <<c, "client">> \in Holders
      BY <2>1 DEF Holders
    <3> QED
      BY <3>1 DEF Owners
  <2>2. CASE at[c] # "none"
    <3>1. at[c] \in {"swap", "build"} \/ (at[c] = "check" /\ next[c] = nullptr)
      BY <2>2 DEF TypeOK, Holder
    <3>2. <<c, "await_suspend">> \in Holders
      BY <3>1 DEF Holders
    <3> QED
      BY <3>2 DEF Owners
  <2> QED
    BY <1>2, <2>1, <2>2 DEF Holding
<1> QED
  BY <1>1, <1>2

\* Nobody waits for a mutex that nobody holds.
LEMMA Unowned ==
    TypeOK /\ Holder /\ requests = nullptr => Chained /\ Owners = {} /\ Line = <<>>
<1> SUFFICES ASSUME TypeOK, Holder, requests = nullptr PROVE Chained /\ Owners = {} /\ Line = <<>>
  OBVIOUS
<1>1. \A c \in Clients : ~Holding(c)
  BY DEF Holder
<1>2. Owners = {}
  BY <1>1, OwnersHold
<1>3. queue = nullptr /\ \A c \in Clients : cursor[c] = nullptr
  BY <1>1 DEF Holder, Building, Holding, Owning
<1>4. Ends(nullptr)
  BY PointersAssumption, NoChain DEF Ends, InLine
<1> QED
  BY <1>1, <1>2, <1>3, <1>4 DEF Chained, Line

\* The line of an owned mutex: the chains of its three lists, older ones first.
Parts(c, D, Q, S) ==
    /\ Holding(c)
    /\ D \in Seq(InLine) /\ IsChain(D, cursor[c], next, InLine)
    /\ Q \in Seq(InLine) /\ IsChain(Q, queue, next, InLine)
    /\ S \in Seq(InLine) /\ IsChain(S, requests, next, InLine)

LEMMA Owned ==
    TypeOK /\ Holder => \A c \in Clients : \A D, Q, S : Parts(c, D, Q, S) =>
        /\ Chained /\ Owners = {c} /\ TheOwner = c
        /\ Line = Reverse(D) \o Q \o Reverse(S)
<1> SUFFICES ASSUME TypeOK, Holder, NEW c \in Clients, NEW D, NEW Q, NEW S, Parts(c, D, Q, S)
             PROVE  /\ Chained /\ Owners = {c} /\ TheOwner = c
                    /\ Line = Reverse(D) \o Q \o Reverse(S)
  OBVIOUS
<1> USE DEF Parts
<1>1. Owners = {c}
  BY OwnersHold DEF Holder
<1>2. TheOwner = c
  BY <1>1 DEF TheOwner
<1>3. Ends(nullptr)
  BY PointersAssumption, NoChain DEF Ends, InLine
<1>4. \A d \in Clients : d # c => cursor[d] = nullptr
  BY DEF Holder, Building, Holding, Owning
<1>5. Chained
  BY <1>3, <1>4 DEF Chained, Ends
<1>6. Chain(requests) = S /\ Chain(queue) = Q /\ Chain(cursor[c]) = D
  <2>1. InLine \in SUBSET Clients
    BY DEF InLine
  <2> QED
    BY <2>1, ChainFound DEF Chain
<1> QED
  BY <1>1, <1>2, <1>5, <1>6 DEF Line

\* Who may be in a chain, by the places of the clients.
LEMMA ChainsPlaced ==
    ASSUME TypeOK, Holder, NEW loc, Lists(loc), NEW s \in Seq(InLine)
    PROVE  /\ InLine = {c \in Clients : ~Holding(c)}
           /\ IsChain(s, requests, next, InLine) => \A i \in 1 .. Len(s) : loc[s[i]] = "stack"
           /\ IsChain(s, queue, next, InLine) => \A i \in 1 .. Len(s) : loc[s[i]] = "queue"
           /\ \A c \in Clients : IsChain(s, cursor[c], next, InLine) =>
                 \A i \in 1 .. Len(s) : loc[s[i]] = "detached"
<1>1. InLine = {c \in Clients : ~Holding(c)}
  BY OwnersHold DEF InLine
<1>2. /\ doorman \notin InLine /\ nullptr \notin InLine
      /\ \A c \in Clients : Holding(c) => c \notin InLine
  BY <1>1, PointersAssumption
<1>3. ASSUME IsChain(s, requests, next, InLine)
      PROVE  \A i \in 1 .. Len(s) : loc[s[i]] = "stack"
  <2> DEFINE P == {x \in Clients : loc[x] = "stack"}
  <2>1. requests \in InLine => requests \in P
    BY <1>2 DEF Lists, Stack, Linked, Holding
  <2>2. \A x \in P : next[x] \in InLine => next[x] \in P
    BY <1>2 DEF Lists, Stack, Linked, Holding
  <2>3. \A i \in 1 .. Len(s) : s[i] \in P
    <3> HIDE DEF P
    <3> QED
      BY <1>3, <2>1, <2>2, ChainWithin
  <2> QED
    BY <2>3
<1>4. ASSUME IsChain(s, queue, next, InLine)
      PROVE  \A i \in 1 .. Len(s) : loc[s[i]] = "queue"
  <2> DEFINE P == {x \in Clients : loc[x] = "queue"}
  <2>1. queue \in InLine => queue \in P
    BY <1>2 DEF Lists, Queued
  <2>2. \A x \in P : next[x] \in InLine => next[x] \in P
    BY <1>2 DEF Lists, Queued
  <2>3. \A i \in 1 .. Len(s) : s[i] \in P
    <3> HIDE DEF P
    <3> QED
      BY <1>4, <2>1, <2>2, ChainWithin
  <2> QED
    BY <2>3
<1>5. ASSUME NEW c \in Clients, IsChain(s, cursor[c], next, InLine)
      PROVE  \A i \in 1 .. Len(s) : loc[s[i]] = "detached"
  <2> DEFINE P == {x \in Clients : loc[x] = "detached"}
  <2>1. cursor[c] \in InLine => cursor[c] \in P
    BY <1>2 DEF Lists, Detached, Building, Holding, Holder
  <2>2. \A x \in P : next[x] \in InLine => next[x] \in P
    BY <1>2 DEF Lists, Detached, Building, Holding
  <2>3. \A i \in 1 .. Len(s) : s[i] \in P
    <3> HIDE DEF P
    <3> QED
      BY <1>5, <2>1, <2>2, ChainWithin
  <2> QED
    BY <2>3
<1> QED
  BY <1>1, <1>3, <1>4, <1>5

\* Whoever is in a part of the line waits in its place.
Placed(loc, D, Q, S) ==
    /\ \A i \in 1 .. Len(D) : D[i] \in Clients /\ loc[D[i]] = "detached"
    /\ \A i \in 1 .. Len(Q) : Q[i] \in Clients /\ loc[Q[i]] = "queue"
    /\ \A i \in 1 .. Len(S) : S[i] \in Clients /\ loc[S[i]] = "stack"

\* The line of an owned mutex has its parts.
LEMMA HasParts ==
    ASSUME TypeOK, Holder, NEW loc, Lists(loc), Chained, NEW c \in Clients, Holding(c)
    PROVE  \E D, Q, S : Parts(c, D, Q, S) /\ Placed(loc, D, Q, S)
<1>1. PICK D \in Seq(InLine) : IsChain(D, cursor[c], next, InLine)
  BY DEF Chained, Ends
<1>2. PICK Q \in Seq(InLine) : IsChain(Q, queue, next, InLine)
  BY DEF Chained, Ends
<1>3. PICK S \in Seq(InLine) : IsChain(S, requests, next, InLine)
  BY DEF Chained, Ends
<1>4. Parts(c, D, Q, S)
  BY <1>1, <1>2, <1>3 DEF Parts
<1>5. \A s \in Seq(InLine) : \A i \in 1 .. Len(s) : s[i] \in Clients
  BY ElementOfSeq DEF InLine
<1>6. Placed(loc, D, Q, S)
  BY <1>1, <1>2, <1>3, <1>5, ChainsPlaced DEF Placed
<1> QED
  BY <1>4, <1>6

\* The same of the state after a step.
LEMMA NextParts ==
    ASSUME TypeOK', Holder'
    PROVE  /\ InLine' = {c \in Clients : ~Holding(c)'}
           /\ requests' = nullptr => Chained' /\ Owners' = {} /\ Line' = <<>>
           /\ \A c \in Clients : \A D, Q, S : Parts(c, D, Q, S)' =>
                 /\ Chained' /\ Owners' = {c} /\ TheOwner' = c
                 /\ Line' = Reverse(D) \o Q \o Reverse(S)
<1>1. (TypeOK /\ Holder /\ requests = nullptr => Chained /\ Owners = {} /\ Line = <<>>)'
  BY Unowned, PTL
<1>2. (TypeOK /\ Holder => \A c \in Clients : \A D, Q, S : Parts(c, D, Q, S) =>
           /\ Chained /\ Owners = {c} /\ TheOwner = c
           /\ Line = Reverse(D) \o Q \o Reverse(S))'
  BY Owned, PTL
<1>3. (TypeOK /\ Holder => Owners = {c \in Clients : Holding(c)})'
  BY OwnersHold, PTL
<1> QED
  BY <1>1, <1>2, <1>3 DEF InLine

\* The steps that leave the lists as they are, but for the end of a build_queue.
LEMMA LineKept ==
    ASSUME TypeOK, Holder, TypeOK', Holder', NEW loc, Lists(loc), Chained,
           requests' = requests, queue' = queue,
           \A c \in Clients : Holding(c)' <=> Holding(c),
           \A c \in Clients : \/ cursor'[c] = cursor[c]
                              \/ cursor[c] \notin InLine /\ cursor'[c] = nullptr,
           \A x \in Clients : Waiting(x) => next'[x] = next[x]
    PROVE  Chained' /\ UNCHANGED FairLock!vars
<1>1. InLine = {c \in Clients : ~Holding(c)} /\ InLine' = InLine
  BY NextParts, OwnersHold DEF InLine
<1>2. CASE requests = nullptr
  BY <1>2, Unowned, NextParts DEF FairLock!vars
<1>3. CASE requests # nullptr
  <2>1. PICK c \in Clients : Holding(c)
    BY <1>3 DEF Chained
  <2>2. PICK D, Q, S : Parts(c, D, Q, S) /\ Placed(loc, D, Q, S)
    BY <2>1, HasParts
  <2> DEFINE P == {x \in Clients : Waiting(x)}
  <2>3. \A x \in P : next'[x] = next[x] /\ x \in InLine
    BY <1>1 DEF Waiting, Holding, Owning
  <2>4. /\ \A i \in 1 .. Len(D) : D[i] \in P
        /\ \A i \in 1 .. Len(Q) : Q[i] \in P
        /\ \A i \in 1 .. Len(S) : S[i] \in P
    BY <2>2 DEF Lists, Placed
  <2> HIDE DEF P
  <2>5. \A s \in Seq(InLine) : \A a :
           IsChain(s, a, next, InLine) /\ (\A i \in 1 .. Len(s) : s[i] \in P)
           => IsChain(s, a, next', InLine)
    BY <2>3, ChainKept
  <2>6. IsChain(Q, queue, next', InLine) /\ IsChain(S, requests, next', InLine)
    BY <2>2, <2>4, <2>5 DEF Parts
  <2>7. IsChain(D, cursor'[c], next', InLine)
    <3>1. CASE cursor'[c] = cursor[c]
      BY <2>2, <2>4, <2>5, <3>1 DEF Parts
    <3>2. CASE cursor[c] \notin InLine /\ cursor'[c] = nullptr
      <4>1. D = <<>>
        BY <2>2, <3>2, NoChain DEF Parts
      <4>2. nullptr \notin InLine
        BY <1>1, PointersAssumption
      <4> QED
        BY <3>2, <4>1, <4>2, NoChain
    <3> QED
      BY <3>1, <3>2
  <2>8. Parts(c, D, Q, S)'
    BY <1>1, <2>1, <2>2, <2>6, <2>7 DEF Parts
  <2>9. Chained' /\ Owners' = {c} /\ TheOwner' = c /\ Line' = Reverse(D) \o Q \o Reverse(S)
    BY <2>8, NextParts
  <2>10. Owners = {c} /\ TheOwner = c /\ Line = Reverse(D) \o Q \o Reverse(S)
    BY <2>2, Owned
  <2> QED
    BY <2>9, <2>10 DEF FairLock!vars
<1> QED
  BY <1>2, <1>3

\* build_queue detaches the stack: it was the whole line and still is.
LEMMA Swapped ==
    ASSUME TypeOK, Holder, TypeOK', Holder', NEW loc, Lists(loc), Chained,
           NEW c \in Clients, LockSwap(c) \/ UnlockSwap(c)
    PROVE  Chained' /\ UNCHANGED FairLock!vars
<1> USE DEF LockSwap, UnlockSwap
<1>1. /\ Holding(c) /\ queue = nullptr /\ cursor[c] = nullptr
      /\ \A d \in Clients : Holding(d)' <=> Holding(d)
  BY DEF Holding, Holder, Building, Linked, Owning, TypeOK
<1>2. InLine = {d \in Clients : ~Holding(d)} /\ InLine' = InLine
  BY <1>1, NextParts, OwnersHold DEF InLine
<1>3. nullptr \notin InLine /\ doorman \notin InLine
  BY <1>2, PointersAssumption
<1>4. PICK D, Q, S : Parts(c, D, Q, S)
  BY <1>1, HasParts
<1>5. D = <<>> /\ Q = <<>>
  BY <1>1, <1>3, <1>4, NoChain DEF Parts
<1>6. Parts(c, S, <<>>, <<>>)'
  <2>1. cursor'[c] = requests /\ requests' = doorman /\ queue' = nullptr /\ next' = next
    BY <1>1 DEF TypeOK
  <2> QED
    BY <1>1, <1>2, <1>3, <1>4, <2>1, NoChain DEF Parts
<1>7. Chained' /\ Owners' = {c} /\ TheOwner' = c /\ Line' = Reverse(S) \o <<>> \o Reverse(<<>>)
  BY <1>6, NextParts
<1>8. Owners = {c} /\ TheOwner = c /\ Line = Reverse(D) \o Q \o Reverse(S)
  BY <1>4, Owned
<1>9. Reverse(S) \in Seq(InLine) /\ <<>> \in Seq(InLine) /\ Reverse(<<>>) = <<>>
  BY <1>4, Backwards, EmptySeq DEF Parts
<1>10. Line' = Reverse(S) /\ Line = Reverse(S)
  BY <1>5, <1>7, <1>8, <1>9, ConcatEmptySeq
<1> QED
  BY <1>7, <1>8, <1>10 DEF FairLock!vars

\* One round of build_queue takes the newest of the detached ones, who is the last of
\* them in the line, and puts it before those already in _queue.
LEMMA Pushed ==
    ASSUME TypeOK, Holder, TypeOK', Holder', NEW loc, Lists(loc), Chained,
           NEW c \in Clients, LockBuild(c) \/ UnlockBuild(c)
    PROVE  Chained' /\ UNCHANGED FairLock!vars
<1> USE DEF LockBuild, UnlockBuild
<1>1. Holding(c) /\ \A d \in Clients : Holding(d)' <=> Holding(d)
  BY DEF Holding, Owning
<1>2. InLine = {d \in Clients : ~Holding(d)} /\ InLine' = InLine
  BY <1>1, NextParts, OwnersHold DEF InLine
<1>3. PICK x \in Clients : x = cursor[c] /\ loc[x] = "detached" /\ Waiting(x)
  BY DEF Lists, Detached, Building, Holder
<1>4. /\ cursor' = [cursor EXCEPT ![c] = next[x]] /\ next' = [next EXCEPT ![x] = queue]
      /\ queue' = x /\ requests' = requests
  BY <1>3 DEF Push
<1>5. x \in InLine
  BY <1>2, <1>3 DEF Waiting, Holding, Owning
<1>6. PICK D, Q, S : Parts(c, D, Q, S) /\ Placed(loc, D, Q, S)
  BY <1>1, HasParts
<1> DEFINE E == Tail(D)
<1>7. /\ D # <<>> /\ Head(D) = x /\ E \in Seq(InLine) /\ D = <<x>> \o E
      /\ IsChain(E, next[x], next, InLine)
  <2>1. D \in Seq(InLine) /\ IsChain(D, x, next, InLine)
    BY <1>3, <1>6 DEF Parts
  <2> QED
    BY <1>5, <2>1, ChainOfMember
<1>8. \A i \in 1 .. Len(E) : E[i] \in Clients /\ loc[E[i]] = "detached" /\ E[i] # x
  <2> TAKE i \in 1 .. Len(E)
  <2>1. /\ D \in Seq(InLine) /\ Len(D) \in Nat \ {0} /\ Len(E) = Len(D) - 1
        /\ E[i] = D[i + 1]
    BY <1>6, <1>7, HeadTailProperties, EmptySeq DEF Parts
  <2>2. 1 \in 1 .. Len(D) /\ i + 1 \in 1 .. Len(D) /\ 1 < i + 1
    BY <2>1
  <2>3. D[1] = x
    BY <1>3, <1>6, <2>2 DEF Parts, IsChain
  <2>4. D[i + 1] # D[1]
    BY <1>6, <2>1, <2>2, NobodyTwice DEF Parts
  <2> QED
    BY <1>6, <2>1, <2>2, <2>3, <2>4 DEF Placed
<1> HIDE DEF E
<1> DEFINE P == {y \in Clients : Waiting(y) /\ y # x}
<1>9. /\ \A i \in 1 .. Len(E) : E[i] \in P
      /\ \A i \in 1 .. Len(Q) : Q[i] \in P
      /\ \A i \in 1 .. Len(S) : S[i] \in P
  BY <1>3, <1>6, <1>8 DEF Lists, Placed
<1>10. \A y \in P : next'[y] = next[y] /\ y \in InLine
  BY <1>2, <1>4 DEF Waiting, Holding, Owning, TypeOK, Awaiters
<1> HIDE DEF P
<1>11. \A s \in Seq(InLine) : \A a :
          IsChain(s, a, next, InLine) /\ (\A i \in 1 .. Len(s) : s[i] \in P)
          => IsChain(s, a, next', InLine)
  BY <1>10, ChainKept
<1>12. /\ IsChain(E, next[x], next', InLine)
       /\ IsChain(Q, queue, next', InLine)
       /\ IsChain(S, requests, next', InLine)
  BY <1>6, <1>7, <1>9, <1>11 DEF Parts
<1>13. next'[x] = queue /\ cursor'[c] = next[x]
  BY <1>3, <1>4 DEF TypeOK, Awaiters
<1>14. <<x>> \o Q \in Seq(InLine) /\ IsChain(<<x>> \o Q, x, next', InLine)
  BY <1>5, <1>6, <1>12, <1>13, LongerChain DEF Parts
<1>15. Parts(c, E, <<x>> \o Q, S)'
  BY <1>1, <1>2, <1>4, <1>6, <1>7, <1>12, <1>13, <1>14 DEF Parts
<1>16. /\ Chained' /\ Owners' = {c} /\ TheOwner' = c
       /\ Line' = Reverse(E) \o (<<x>> \o Q) \o Reverse(S)
  BY <1>15, NextParts
<1>17. Owners = {c} /\ TheOwner = c /\ Line = Reverse(D) \o Q \o Reverse(S)
  BY <1>6, Owned
<1>18. Reverse(E) \o (<<x>> \o Q) = Reverse(D) \o Q
  <2>1. Reverse(D) = Append(Reverse(E), x) /\ Reverse(E) \in Seq(InLine)
    BY <1>5, <1>7, Turned, Backwards
  <2>2. Append(Reverse(E), x) = Reverse(E) \o <<x>> /\ <<x>> \in Seq(InLine)
    BY <1>5, <2>1, AppendIsConcat
  <2> QED
    BY <1>6, <2>1, <2>2, ConcatAssociative DEF Parts
<1> QED
  BY <1>16, <1>17, <1>18 DEF FairLock!vars

\* The compare_exchange of a client that has to wait puts it at the end of the line.
LEMMA Enqueued ==
    ASSUME TypeOK, Holder, TypeOK', Holder', NEW loc, Lists(loc), Chained, ~NextReload,
           NEW c \in Clients, SubscribeLinked(c), next[c] # nullptr
    PROVE  Chained' /\ FairLock!Enqueue(c)
<1> USE DEF SubscribeLinked
<1>1. /\ requests = next[c] /\ requests' = c /\ next' = next /\ queue' = queue /\ cursor' = cursor
      /\ ~Holding(c) /\ ~Waiting(c)
      /\ \A d \in Clients : Holding(d)' <=> Holding(d)
  BY DEF Holding, Holder, Waiting, Owning, TypeOK
<1>2. InLine = {d \in Clients : ~Holding(d)} /\ InLine' = InLine
  BY <1>1, NextParts, OwnersHold DEF InLine
<1>3. PICK o \in Clients : Holding(o)
  BY <1>1 DEF Chained
<1>4. PICK D, Q, S : Parts(o, D, Q, S) /\ Placed(loc, D, Q, S)
  BY <1>3, HasParts
<1>5. <<c>> \o S \in Seq(InLine) /\ IsChain(<<c>> \o S, c, next, InLine)
  BY <1>1, <1>2, <1>4, LongerChain DEF Parts
<1>6. Parts(o, D, Q, <<c>> \o S)'
  BY <1>1, <1>2, <1>3, <1>4, <1>5 DEF Parts
<1>7. /\ Chained' /\ Owners' = {o} /\ TheOwner' = o
      /\ Line' = Reverse(D) \o Q \o Reverse(<<c>> \o S)
  BY <1>6, NextParts
<1>8. Owners = {o} /\ TheOwner = o /\ Line = Reverse(D) \o Q \o Reverse(S)
  BY <1>4, Owned
<1> DEFINE P == {y \in Clients : Waiting(y)}
<1>9. /\ Reverse(D) \in Seq(P) /\ Q \in Seq(P) /\ Reverse(S) \in Seq(P)
  <2>1. /\ \A i \in 1 .. Len(D) : D[i] \in P
        /\ \A i \in 1 .. Len(Q) : Q[i] \in P
        /\ \A i \in 1 .. Len(S) : S[i] \in P
    BY <1>4 DEF Placed, Lists
  <2> HIDE DEF P
  <2>2. \A s \in Seq(InLine) : (\A i \in 1 .. Len(s) : s[i] \in P) => s \in Seq(P)
    <3> TAKE s \in Seq(InLine)
    <3> HAVE \A i \in 1 .. Len(s) : s[i] \in P
    <3>1. Len(s) \in Nat /\ s \in [1 .. Len(s) -> InLine]
      BY LenProperties
    <3>2. s \in [1 .. Len(s) -> P]
      BY <3>1
    <3> QED
      BY <3>1, <3>2, SeqDef
  <2>3. D \in Seq(P) /\ Q \in Seq(P) /\ S \in Seq(P)
    BY <1>4, <2>1, <2>2 DEF Parts
  <2> QED
    BY <2>3, Backwards
<1>10. Line \in Seq(P)
  BY <1>8, <1>9, ConcatProperties
<1>11. \A i \in DOMAIN Line : Line[i] # c
  <2>1. \A i \in DOMAIN Line : Line[i] \in P
    <3> HIDE DEF P
    <3> QED
      BY <1>10, LenProperties, ElementOfSeq
  <2> QED
    BY <1>1, <2>1
<1>12. Line' = Append(Line, c)
  <2>1. Reverse(<<c>> \o S) = Append(Reverse(S), c) /\ c \in InLine
    BY <1>1, <1>2, <1>4, Turned DEF Parts
  <2> DEFINE R == Reverse(D) \o Q
             T == Reverse(S)
  <2>2. R \in Seq(Clients) /\ T \in Seq(Clients) /\ <<c>> \in Seq(Clients)
    <3>1. Reverse(D) \in Seq(Clients) /\ Q \in Seq(Clients) /\ T \in Seq(Clients)
      <4>1. P \subseteq Clients
        OBVIOUS
      <4> HIDE DEF P
      <4> QED
        BY <1>9, <4>1, SeqMonotonic
    <3> QED
      BY <3>1, ConcatProperties
  <2>3. Append(T, c) = T \o <<c>> /\ Append(R \o T, c) = (R \o T) \o <<c>>
    BY <2>2, AppendIsConcat, ConcatProperties
  <2>4. (R \o T) \o <<c>> = R \o (T \o <<c>>)
    BY <2>2, ConcatAssociative
  <2> QED
    BY <1>7, <1>8, <2>1, <2>3, <2>4
<1> QED
  BY <1>1, <1>3, <1>7, <1>8, <1>11, <1>12, PointersAssumption
  DEF FairLock!Enqueue, FairLock!Asks

\* A free mutex is taken by the exchange of nullptr, whether ready() or subscribe() did it.
LEMMA Acquired ==
    ASSUME TypeOK, Holder, TypeOK', Holder', NEW c \in Clients,
           TryLock(c) \/ (SubscribeLinked(c) /\ next[c] = nullptr)
    PROVE  Chained' /\ FairLock!Lock(c)
<1> USE DEF TryLock, SubscribeLinked
<1>1. requests = nullptr /\ requests' \in {doorman, c} /\ queue' = queue /\ cursor' = cursor
  OBVIOUS
<1>2. \A d \in Clients : ~Holding(d)
  BY <1>1 DEF Holder
<1>3. queue = nullptr /\ \A d \in Clients : cursor[d] = nullptr
  BY <1>2 DEF Holder, Building, Holding, Owning
<1>4. Holding(c)'
  BY DEF Holding, Owning, TypeOK
<1>5. InLine' = {d \in Clients : ~Holding(d)'}
  BY NextParts
<1>6. nullptr \notin InLine' /\ doorman \notin InLine' /\ c \notin InLine'
  BY <1>4, <1>5, PointersAssumption
<1>7. Parts(c, <<>>, <<>>, <<>>)'
  BY <1>1, <1>3, <1>4, <1>6, NoChain DEF Parts
<1>8. /\ Chained' /\ Owners' = {c} /\ TheOwner' = c
      /\ Line' = Reverse(<<>>) \o <<>> \o Reverse(<<>>)
  BY <1>7, NextParts
<1>9. Line' = <<>>
  <2>1. <<>> \in Seq(Clients) /\ Reverse(<<>>) = <<>>
    BY EmptySeq, Backwards
  <2> QED
    BY <1>8, <2>1, ConcatEmptySeq
<1>10. Owners = {} /\ Line = <<>>
  BY <1>1, Unowned
<1> QED
  BY <1>8, <1>9, <1>10 DEF FairLock!Lock

\* The exchange that puts nullptr back finds nobody in the line.
LEMMA Released ==
    ASSUME TypeOK, Holder, TypeOK', Holder', NEW c \in Clients, Unlock(c)
    PROVE  Chained' /\ FairLock!Unlock
<1> USE DEF Unlock
<1>1. Holding(c) /\ requests = doorman /\ queue = nullptr /\ cursor[c] = nullptr
  BY DEF Holding, Holder, Building, Owning
<1>2. InLine = {d \in Clients : ~Holding(d)}
  BY OwnersHold DEF InLine
<1>3. nullptr \notin InLine /\ doorman \notin InLine
  BY <1>2, PointersAssumption
<1>4. PICK D, Q, S : Parts(c, D, Q, S) /\ D = <<>> /\ Q = <<>> /\ S = <<>>
  BY <1>1, <1>3, NoChain DEF Parts
<1>5. Owners = {c} /\ TheOwner = c /\ Line = Reverse(D) \o Q \o Reverse(S)
  BY <1>4, Owned
<1>6. Line = <<>>
  <2>1. <<>> \in Seq(Clients) /\ Reverse(<<>>) = <<>>
    BY EmptySeq, Backwards
  <2> QED
    BY <1>4, <1>5, <2>1, ConcatEmptySeq
<1>7. Chained' /\ Owners' = {} /\ Line' = <<>>
  BY NextParts
<1> QED
  BY <1>5, <1>6, <1>7, PointersAssumption DEF FairLock!Unlock

\* What is behind a first element.
LEMMA BehindFirst ==
    ASSUME NEW C, NEW x \in C, NEW s \in Seq(C)
    PROVE  <<x>> \o s # <<>> /\ Head(<<x>> \o s) = x /\ Tail(<<x>> \o s) = s
<1> DEFINE t == <<x>> \o s
<1>1. <<x>> \in Seq(C) /\ Len(<<x>>) = 1 /\ <<x>>[1] = x
  OBVIOUS
<1>2. /\ t \in Seq(C) /\ Len(t) = 1 + Len(s) /\ Len(s) \in Nat
      /\ \A i \in 1 .. 1 + Len(s) : t[i] = IF i <= 1 THEN x ELSE s[i - 1]
  BY <1>1, ConcatProperties, LenProperties
<1> HIDE DEF t
<1>3. t # <<>>
  BY <1>2, EmptySeq
<1>4. Head(t) = t[1] /\ t[1] = x
  BY <1>2, <1>3
<1>5. /\ Tail(t) \in Seq(C) /\ Len(Tail(t)) = Len(t) - 1
      /\ \A i \in 1 .. Len(Tail(t)) : Tail(t)[i] = t[i + 1]
  BY <1>2, <1>3, HeadTailProperties
<1>6. Len(Tail(t)) = Len(s)
  BY <1>2, <1>5
<1>7. \A i \in 1 .. Len(s) : Tail(t)[i] = s[i]
  <2> TAKE i \in 1 .. Len(s)
  <2>1. i + 1 \in 1 .. 1 + Len(s) /\ ~(i + 1 <= 1) /\ (i + 1) - 1 = i
    BY <1>2
  <2> QED
    BY <1>2, <1>5, <1>6, <2>1
<1>8. Tail(t) = s
  BY <1>5, <1>6, <1>7, SeqEqual
<1> QED
  BY <1>3, <1>4, <1>8 DEF t

\* The first of _queue is the first of the line, and owns the mutex next.
LEMMA Granted ==
    ASSUME TypeOK, Holder, TypeOK', Holder', NEW loc, Lists(loc), Chained,
           NEW c \in Clients, Grant(c)
    PROVE  Chained' /\ FairLock!HandOver
<1> USE DEF Grant
<1>1. PICK x \in Clients : x = queue /\ loc[x] = "queue" /\ Waiting(x)
  BY PointersAssumption DEF Lists, Queued
<1>2. /\ Holding(c) /\ at[c] = "none" /\ c # x
      /\ \A d \in Clients : cursor[d] = nullptr
      /\ \A d \in Clients : Holding(d)' <=> d = x
      /\ \A d \in Clients : Holding(d) => d = c
  BY <1>1 DEF Holding, Holder, Building, Waiting, Owning, TypeOK
<1>3. InLine = {d \in Clients : ~Holding(d)} /\ InLine' = {d \in Clients : d # x}
  BY <1>2, NextParts, OwnersHold DEF InLine
<1>4. x \in InLine /\ nullptr \notin InLine /\ nullptr \notin InLine'
  BY <1>1, <1>2, <1>3, PointersAssumption
<1>5. PICK D, Q, S : Parts(c, D, Q, S) /\ Placed(loc, D, Q, S)
  BY <1>2, HasParts
<1>6. D = <<>>
  BY <1>2, <1>4, <1>5, NoChain DEF Parts
<1> DEFINE R == Tail(Q)
<1>7. /\ Q # <<>> /\ Head(Q) = x /\ R \in Seq(InLine) /\ Q = <<x>> \o R
      /\ IsChain(R, next[x], next, InLine)
  <2>1. Q \in Seq(InLine) /\ IsChain(Q, x, next, InLine)
    BY <1>1, <1>5 DEF Parts
  <2> QED
    BY <1>4, <2>1, ChainOfMember
<1>8. \A i \in 1 .. Len(R) : R[i] \in Clients /\ loc[R[i]] = "queue" /\ R[i] # x
  <2> TAKE i \in 1 .. Len(R)
  <2>1. /\ Q \in Seq(InLine) /\ Len(Q) \in Nat \ {0} /\ Len(R) = Len(Q) - 1
        /\ R[i] = Q[i + 1]
    BY <1>5, <1>7, HeadTailProperties, EmptySeq DEF Parts
  <2>2. 1 \in 1 .. Len(Q) /\ i + 1 \in 1 .. Len(Q) /\ 1 < i + 1
    BY <2>1
  <2>3. Q[1] = x
    BY <1>1, <1>5, <2>2 DEF Parts, IsChain
  <2>4. Q[i + 1] # Q[1]
    BY <1>5, <2>1, <2>2, NobodyTwice DEF Parts
  <2> QED
    BY <1>5, <2>1, <2>2, <2>3, <2>4 DEF Placed
<1> HIDE DEF R
<1> DEFINE P == {y \in Clients : loc[y] \in {"queue", "stack"} /\ y # x}
<1>9. /\ \A i \in 1 .. Len(R) : R[i] \in P
      /\ \A i \in 1 .. Len(S) : S[i] \in P
  BY <1>1, <1>5, <1>8 DEF Placed
<1>10. ~Linked(c)
  BY <1>2 DEF Linked
<1>11. \A y \in P : next'[y] = next[y] /\ y \in InLine'
  BY <1>1, <1>3 DEF TypeOK, Awaiters
<1>12. \A y \in P : next[y] \notin InLine => next[y] \notin InLine'
  <2> SUFFICES ASSUME NEW y \in P, next[y] \notin InLine PROVE next[y] # c
    BY <1>2, <1>3
  <2>1. CASE loc[y] = "queue"
    BY <1>10, <2>1, PointersAssumption, <1>2 DEF Lists, Queued, Waiting, Holding
  <2>2. CASE loc[y] = "stack"
    BY <1>10, <2>2, PointersAssumption, <1>2 DEF Lists, Stack, Waiting, Holding, Owning
  <2> QED
    BY <2>1, <2>2
<1>13. requests \notin InLine => requests \notin InLine'
  <2>1. requests # c
    BY <1>2, <1>10, PointersAssumption DEF Lists, Stack, Waiting, Holding, Owning
  <2> QED
    BY <1>2, <1>3, <2>1
<1>14. next[x] \notin InLine => next[x] \notin InLine'
  <2>1. next[x] # c
    BY <1>1, <1>2, PointersAssumption DEF Lists, Queued, Waiting, Holding, Owning
  <2> QED
    BY <1>2, <1>3, <2>1
<1> HIDE DEF P, Grant
<1>15. /\ R \in Seq(InLine') /\ IsChain(R, next[x], next', InLine')
       /\ S \in Seq(InLine') /\ IsChain(S, requests, next', InLine')
  <2>1. \A s \in Seq(InLine) : \A a :
           /\ IsChain(s, a, next, InLine) /\ \A i \in 1 .. Len(s) : s[i] \in P
           /\ a \notin InLine => a \notin InLine'
           => s \in Seq(InLine') /\ IsChain(s, a, next', InLine')
    <3> SUFFICES ASSUME NEW s \in Seq(InLine), NEW a, IsChain(s, a, next, InLine),
                        \A i \in 1 .. Len(s) : s[i] \in P, a \notin InLine => a \notin InLine'
                 PROVE  s \in Seq(InLine') /\ IsChain(s, a, next', InLine')
      OBVIOUS
    <3> QED
      BY <1>11, <1>12, ChainKept
  <2>2. S \in Seq(InLine) /\ IsChain(S, requests, next, InLine)
    BY <1>5 DEF Parts
  <2> QED
    BY <1>7, <1>9, <1>13, <1>14, <2>1, <2>2
<1>16. Parts(x, <<>>, R, S)'
  <2>1. queue' = next[x] /\ requests' = requests /\ cursor'[x] = nullptr
    BY <1>1, <1>2 DEF Grant
  <2> QED
    BY <1>2, <1>4, <1>15, <2>1, NoChain DEF Parts
<1>17. /\ Chained' /\ Owners' = {x} /\ TheOwner' = x
       /\ Line' = Reverse(<<>>) \o R \o Reverse(S)
  BY <1>16, NextParts
<1>18. Owners = {c} /\ TheOwner = c /\ Line = Reverse(D) \o Q \o Reverse(S)
  BY <1>5, Owned
<1> DEFINE T == Reverse(S)
<1>19. Reverse(<<>>) = <<>> /\ T \in Seq(InLine) /\ Q \in Seq(InLine)
  BY <1>5, Backwards DEF Parts
<1> HIDE DEF T
<1>20. Line' = R \o T /\ Line = <<x>> \o (R \o T)
  <2>1. <<x>> \in Seq(InLine)
    BY <1>4
  <2>2. Line' = R \o T /\ Line = Q \o T
    BY <1>6, <1>7, <1>17, <1>18, <1>19, ConcatEmptySeq DEF T
  <2> QED
    BY <1>7, <1>19, <2>1, <2>2, ConcatAssociative
<1>21. R \o T \in Seq(InLine)
  BY <1>7, <1>19, ConcatProperties
<1>22. Line # <<>> /\ Head(Line) = x /\ Tail(Line) = Line'
  BY <1>4, <1>20, <1>21, BehindFirst
<1> QED
  BY <1>17, <1>18, <1>22, PointersAssumption DEF FairLock!HandOver

\* Every step of the mutex is one of the first-come first-served lock or changes nothing.
LEMMA FairStep ==
    ASSUME TypeOK, Holder, TypeOK', Holder', NEW loc, Lists(loc), Chained, ~NextReload, [Next]_vars
    PROVE  Chained' /\ [FairLock!Next]_FairLock!vars
<1> DEFINE Goal == Chained' /\ [FairLock!Next]_FairLock!vars
<1> USE DEF TypeOK, Awaiters, Owning, Holding
<1>1. ASSUME NEW c \in Clients, TryLock(c) PROVE Goal
  BY <1>1, Acquired DEF FairLock!Next
<1>2. ASSUME NEW c \in Clients, StartSubscribe(c) PROVE Goal
  BY <1>2, LineKept DEF StartSubscribe, Waiting
<1>3. ASSUME NEW c \in Clients, SubscribeRetry(c) PROVE Goal
  BY <1>3, LineKept DEF SubscribeRetry, Waiting
<1>4. ASSUME NEW c \in Clients, SubscribeLinked(c) PROVE Goal
  BY <1>4, Acquired, Enqueued DEF FairLock!Next
<1>5. ASSUME NEW c \in Clients, CheckNext(c) PROVE Goal
  BY <1>5, LineKept DEF CheckNext, Holder
<1>6. ASSUME NEW c \in Clients, LockSwap(c) PROVE Goal
  BY <1>6, Swapped
<1>7. ASSUME NEW c \in Clients, LockBuild(c) PROVE Goal
  BY <1>7, Pushed
<1>8. ASSUME NEW c \in Clients, LockBuilt(c) PROVE Goal
  <2>1. InLine = {d \in Clients : ~Holding(d)}
    BY OwnersHold DEF InLine
  <2>2. cursor[c] \notin InLine
    BY <1>8, <2>1, PointersAssumption DEF LockBuilt
  <2>3. \A d \in Clients : Holding(d)' <=> Holding(d)
    BY <1>8 DEF LockBuilt, Holder
  <2> QED
    BY <1>8, <2>2, <2>3, LineKept DEF LockBuilt
<1>9. ASSUME NEW c \in Clients, Resumed(c) PROVE Goal
  BY <1>9, LineKept DEF Resumed
<1>10. ASSUME NEW c \in Clients, Unlock(c) PROVE Goal
  BY <1>10, Released DEF FairLock!Next, FairLock!Release
<1>11. ASSUME NEW c \in Clients, UnlockContended(c) PROVE Goal
  BY <1>11, LineKept DEF UnlockContended
<1>12. ASSUME NEW c \in Clients, UnlockQueued(c) PROVE Goal
  BY <1>12, LineKept DEF UnlockQueued
<1>13. ASSUME NEW c \in Clients, UnlockSwap(c) PROVE Goal
  BY <1>13, Swapped
<1>14. ASSUME NEW c \in Clients, UnlockBuild(c) PROVE Goal
  BY <1>14, Pushed
<1>15. ASSUME NEW c \in Clients, UnlockBuilt(c) PROVE Goal
  <2>1. InLine = {d \in Clients : ~Holding(d)}
    BY OwnersHold DEF InLine
  <2>2. cursor[c] \notin InLine
    BY <1>15, <2>1, PointersAssumption DEF UnlockBuilt
  <2>3. \A d \in Clients : Holding(d)' <=> Holding(d)
    BY <1>15 DEF UnlockBuilt
  <2> QED
    BY <1>15, <2>2, <2>3, LineKept DEF UnlockBuilt
<1>16. ASSUME NEW c \in Clients, Grant(c) PROVE Goal
  BY <1>16, Granted DEF FairLock!Next, FairLock!Release
<1>17. CASE UNCHANGED vars
  BY <1>17, LineKept DEF vars
<1> QED
  BY <1>1, <1>2, <1>3, <1>4, <1>5, <1>6, <1>7, <1>8, <1>9, <1>10, <1>11, <1>12, <1>13, <1>14,
     <1>15, <1>16, <1>17 DEF Next, Acquire, Release, Step

\* FirstComeFirstServed but for its fairness: nobody barges in and nobody is forgotten or
\* overtaken by a concurrent build_queue, for any number of clients.
THEOREM LineImplemented == ~NextReload => (Spec => FairLock!Safe)
<1> SUFFICES ASSUME ~NextReload PROVE Spec => FairLock!Safe
  OBVIOUS
<1>1. Init => Chained /\ FairLock!Init
  <2> SUFFICES ASSUME Init PROVE Chained /\ FairLock!Init
    OBVIOUS
  <2>1. Chained /\ Owners = {} /\ Line = <<>>
    BY InitInv, Unowned DEF Init, IInv
  <2> QED
    BY <2>1 DEF FairLock!Init
<1>2. IInv /\ IInv' /\ Chained /\ [Next]_vars => Chained' /\ [FairLock!Next]_FairLock!vars
  BY FairStep DEF IInv
<1> QED
  BY <1>1, <1>2, Inductive, PTL DEF Spec, FairLock!Safe

=============================================================================
