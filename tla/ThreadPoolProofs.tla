-------------------------- MODULE ThreadPoolProofs --------------------------
(***************************************************************************)
(* What stop() and the destructor of thread_pool leave behind, and where   *)
(* its tasks are, for any number of workers, other threads and tasks.      *)
(*                                                                         *)
(* The argument: _threads is emptied by the first stop(), so that each     *)
(* worker is in the hands of one stop() until it was joined or detached,   *)
(* and one that was joined has left, one that was detached does not come   *)
(* back to the pool. The tasks likewise: no list has one twice, and what   *)
(* was not begun is in the queue or in the hands of a stop() that goes on. *)
(***************************************************************************)
EXTENDS ThreadPool, SequenceTheorems, TLAPS

\* Who may be a worker, and who may be in stop().
Roles ==
    /\ \A w \in Workers : pc[w] # "free" /\ (~current[w] => pc[w] \in {"run", "exited"})
    /\ \A a \in Actors : /\ stopping[a] => pc[a] \in {"free", "run"}
                         /\ ~stopping[a] => joins[a] = {}

\* Where the threads are: with the pool, with a stop(), or gone.
Custody ==
    /\ ~exit => threads = Workers /\ \A a \in Actors : ~stopping[a]
    /\ exit => threads = {}
    /\ exit => \A w \in Workers :
         pc[w] = "exited" \/ ~current[w] \/ \E a \in Actors : w \in joins[a]

\* The destructor is called once, and nobody but the destructor joins any more.
Destruction ==
    /\ \A a \in destroyer : exit /\ \A b \in Actors : b # a => joins[b] = {}
    /\ destroyed => exit /\ \A a \in Actors : joins[a] = {}

\* The inductive invariant.
IInv == TypeOK /\ Roles /\ Custody /\ Destruction

\* The constructor: all threads are with the pool.
LEMMA InitInv == Init => IInv
<1> SUFFICES ASSUME Init
             PROVE  IInv
  OBVIOUS
<1> USE ActorsAssumption DEF Init, Actors
<1>1. TypeOK
  <2>1. current \in [Actors -> BOOLEAN]
    OBVIOUS
  <2>2. \A a \in Actors : task[a] = NoTask /\ pc[a] # "run"
    OBVIOUS
  <2>3. /\ pc \in [Actors -> PCs] /\ fate \in [Tasks -> Fates]
        /\ task \in [Actors -> Tasks \cup {NoTask}]
    BY DEF PCs, Fates
  <2>4. /\ joins \in [Actors -> SUBSET Workers] /\ hands \in [Actors -> Seq(Tasks)]
        /\ stopping \in [Actors -> BOOLEAN]
    OBVIOUS
  <2>5. exit \in BOOLEAN /\ destroyed \in BOOLEAN
    OBVIOUS
  <2>6. queue \in Seq(Tasks) /\ threads \in SUBSET Workers /\ destroyer \in SUBSET Actors
    OBVIOUS
  <2> HIDE DEF Init
  <2> QED
    BY <2>1, <2>2, <2>3, <2>4, <2>5, <2>6 DEF TypeOK
<1>2. Roles
  BY DEF Roles
<1>3. Custody
  BY DEF Custody
<1>4. Destruction
  BY DEF Destruction
<1> QED
  BY <1>1, <1>2, <1>3, <1>4 DEF IInv

\* The variables keep their types, and a worker has a task exactly while it runs one.
LEMMA TypeStep == TypeOK /\ [Next]_vars => TypeOK'
<1> SUFFICES ASSUME TypeOK, [Next]_vars
             PROVE  TypeOK'
  OBVIOUS
<1> USE ActorsAssumption, TasksAssumption DEF TypeOK, PCs, Fates, Actors, Tasks
<1>1. ASSUME NEW a \in Actors, WorkerExits(a)
     PROVE  TypeOK'
  BY <1>1 DEF WorkerExits, Left
<1>2. ASSUME NEW a \in Actors, WorkerSleeps(a)
     PROVE  TypeOK'
  BY <1>2 DEF WorkerSleeps
<1>3. ASSUME NEW a \in Actors, WorkerRuns(a)
     PROVE  TypeOK'
  BY <1>3 DEF WorkerRuns
<1>4. ASSUME NEW a \in Actors, TaskEnds(a)
     PROVE  TypeOK'
  BY <1>4 DEF TaskEnds, Left
<1>5. ASSUME NEW a \in Actors, NEW w \in Workers, Join(a, w)
     PROVE  TypeOK'
  BY <1>5 DEF Join
<1>6. ASSUME NEW a \in Actors, Drop(a)
     PROVE  TypeOK'
  BY <1>6 DEF Drop, Dropped
<1>7. ASSUME NEW a \in Actors, StopReturns(a)
     PROVE  TypeOK'
  BY <1>7 DEF StopReturns
<1>8. ASSUME NEW a \in Actors, NEW k \in Tasks, Enqueue(a, k)
     PROVE  TypeOK'
  <2>1. /\ pc' \in [Actors -> PCs]
        /\ \A b \in Actors : pc'[b] = "run" <=> task'[b] # NoTask
    <3>1. CASE UNCHANGED pc
      BY <1>8, <3>1 DEF Enqueue
    <3>2. CASE \E w \in Actors : pc[w] = "asleep" /\ pc' = [pc EXCEPT ![w] = "check"]
      BY <1>8, <3>2 DEF Enqueue
    <3> QED
      BY <1>8, <3>1, <3>2 DEF Enqueue
  <2>2. queue' \in Seq(Tasks) /\ fate' \in [Tasks -> Fates]
    BY <1>8 DEF Enqueue
  <2> QED
    BY <1>8, <2>1, <2>2 DEF Enqueue
<1>9. ASSUME NEW a \in Actors, NEW k \in Tasks, EnqueueStopped(a, k)
     PROVE  TypeOK'
  BY <1>9 DEF EnqueueStopped, Calls, Dropped
<1>10. ASSUME NEW a \in Actors, BecomeWorker(a)
     PROVE  TypeOK'
  BY <1>10 DEF BecomeWorker, Calls
<1>11. ASSUME NEW a \in Actors, Stop(a)
     PROVE  TypeOK'
  BY <1>11 DEF Stop, StopBegins, Calls
<1>12. ASSUME NEW a \in Actors, Destroy(a)
     PROVE  TypeOK'
  BY <1>12 DEF Destroy, StopBegins, Calls
<1>13. ASSUME NEW a \in Actors, SpuriousWakeup(a)
     PROVE  TypeOK'
  BY <1>13 DEF SpuriousWakeup
<1>14. CASE UNCHANGED vars
  BY <1>14 DEF vars
<1> QED
  BY <1>1, <1>2, <1>3, <1>4, <1>5, <1>6, <1>7, <1>8, <1>9, <1>10, <1>11, <1>12, <1>13, <1>14
     DEF Next, WorkerStep, StopStep, Call

\* A detached worker does not come back, and only who is outside of the lock calls stop().
LEMMA RolesStep == TypeOK /\ Roles /\ [Next]_vars => Roles'
<1> SUFFICES ASSUME TypeOK /\ Roles, [Next]_vars
             PROVE  Roles'
  OBVIOUS
<1> USE ActorsAssumption, TasksAssumption DEF TypeOK, PCs, Fates, Actors, Tasks, Roles
<1>1. ASSUME NEW a \in Actors, WorkerExits(a)
     PROVE  Roles'
  BY <1>1 DEF WorkerExits, Left
<1>2. ASSUME NEW a \in Actors, WorkerSleeps(a)
     PROVE  Roles'
  BY <1>2 DEF WorkerSleeps
<1>3. ASSUME NEW a \in Actors, WorkerRuns(a)
     PROVE  Roles'
  BY <1>3 DEF WorkerRuns
<1>4. ASSUME NEW a \in Actors, TaskEnds(a)
     PROVE  Roles'
  BY <1>4 DEF TaskEnds, Left
<1>5. ASSUME NEW a \in Actors, NEW w \in Workers, Join(a, w)
     PROVE  Roles'
  BY <1>5 DEF Join
<1>6. ASSUME NEW a \in Actors, Drop(a)
     PROVE  Roles'
  BY <1>6 DEF Drop, Dropped
<1>7. ASSUME NEW a \in Actors, StopReturns(a)
     PROVE  Roles'
  BY <1>7 DEF StopReturns
<1>8. ASSUME NEW a \in Actors, NEW k \in Tasks, Enqueue(a, k)
     PROVE  Roles'
  BY <1>8 DEF Enqueue, Calls
<1>9. ASSUME NEW a \in Actors, NEW k \in Tasks, EnqueueStopped(a, k)
     PROVE  Roles'
  BY <1>9 DEF EnqueueStopped, Calls, Dropped
<1>10. ASSUME NEW a \in Actors, BecomeWorker(a)
     PROVE  Roles'
  BY <1>10 DEF BecomeWorker, Calls
<1>11. ASSUME NEW a \in Actors, Stop(a)
     PROVE  Roles'
  BY <1>11 DEF Stop, StopBegins, Calls
<1>12. ASSUME NEW a \in Actors, Destroy(a)
     PROVE  Roles'
  BY <1>12 DEF Destroy, StopBegins, Calls
<1>13. ASSUME NEW a \in Actors, SpuriousWakeup(a)
     PROVE  Roles'
  BY <1>13 DEF SpuriousWakeup
<1>14. CASE UNCHANGED vars
  BY <1>14 DEF vars
<1> QED
  BY <1>1, <1>2, <1>3, <1>4, <1>5, <1>6, <1>7, <1>8, <1>9, <1>10, <1>11, <1>12, <1>13, <1>14
     DEF Next, WorkerStep, StopStep, Call

\* No thread is lost on the way from _threads to join() or detach().
LEMMA CustodyStep == TypeOK /\ Roles /\ Custody /\ [Next]_vars => Custody'
<1> SUFFICES ASSUME TypeOK /\ Roles /\ Custody, [Next]_vars
             PROVE  Custody'
  OBVIOUS
<1> USE ActorsAssumption DEF TypeOK, PCs, Fates, Actors, Tasks, Roles, Custody
<1>1. ASSUME NEW a \in Actors, WorkerExits(a)
     PROVE  Custody'
  BY <1>1 DEF WorkerExits, Left
<1>2. ASSUME NEW a \in Actors, WorkerSleeps(a)
     PROVE  Custody'
  BY <1>2 DEF WorkerSleeps
<1>3. ASSUME NEW a \in Actors, WorkerRuns(a)
     PROVE  Custody'
  BY <1>3 DEF WorkerRuns
<1>4. ASSUME NEW a \in Actors, TaskEnds(a)
     PROVE  Custody'
  BY <1>4 DEF TaskEnds, Left
<1>5. ASSUME NEW a \in Actors, NEW w \in Workers, Join(a, w)
     PROVE  Custody'
  BY <1>5 DEF Join
<1>6. ASSUME NEW a \in Actors, Drop(a)
     PROVE  Custody'
  BY <1>6 DEF Drop, Dropped
<1>7. ASSUME NEW a \in Actors, StopReturns(a)
     PROVE  Custody'
  BY <1>7 DEF StopReturns
<1>8. ASSUME NEW a \in Actors, NEW k \in Tasks, Enqueue(a, k)
     PROVE  Custody'
  BY <1>8 DEF Enqueue, Calls
<1>9. ASSUME NEW a \in Actors, NEW k \in Tasks, EnqueueStopped(a, k)
     PROVE  Custody'
  BY <1>9 DEF EnqueueStopped, Calls, Dropped
<1>10. ASSUME NEW a \in Actors, BecomeWorker(a)
     PROVE  Custody'
  BY <1>10 DEF BecomeWorker, Calls
<1>11. ASSUME NEW a \in Actors, Stop(a)
     PROVE  Custody'
  BY <1>11 DEF Stop, StopBegins, Calls
<1>12. ASSUME NEW a \in Actors, Destroy(a)
     PROVE  Custody'
  BY <1>12 DEF Destroy, StopBegins, Calls
<1>13. ASSUME NEW a \in Actors, SpuriousWakeup(a)
     PROVE  Custody'
  BY <1>13 DEF SpuriousWakeup
<1>14. CASE UNCHANGED vars
  BY <1>14 DEF vars
<1> QED
  BY <1>1, <1>2, <1>3, <1>4, <1>5, <1>6, <1>7, <1>8, <1>9, <1>10, <1>11, <1>12, <1>13, <1>14
     DEF Next, WorkerStep, StopStep, Call

\* A stop() that comes after the destructor has begun finds no threads.
LEMMA DestructionStep == IInv /\ [Next]_vars => Destruction'
<1> SUFFICES ASSUME IInv, [Next]_vars
             PROVE  Destruction'
  OBVIOUS
<1> USE ActorsAssumption DEF IInv, TypeOK, PCs, Fates, Actors, Tasks, Roles, Custody, Destruction
<1>1. ASSUME NEW a \in Actors, WorkerExits(a)
     PROVE  Destruction'
  BY <1>1 DEF WorkerExits, Left
<1>2. ASSUME NEW a \in Actors, WorkerSleeps(a)
     PROVE  Destruction'
  BY <1>2 DEF WorkerSleeps
<1>3. ASSUME NEW a \in Actors, WorkerRuns(a)
     PROVE  Destruction'
  BY <1>3 DEF WorkerRuns
<1>4. ASSUME NEW a \in Actors, TaskEnds(a)
     PROVE  Destruction'
  BY <1>4 DEF TaskEnds, Left
<1>5. ASSUME NEW a \in Actors, NEW w \in Workers, Join(a, w)
     PROVE  Destruction'
  BY <1>5 DEF Join
<1>6. ASSUME NEW a \in Actors, Drop(a)
     PROVE  Destruction'
  BY <1>6 DEF Drop, Dropped
<1>7. ASSUME NEW a \in Actors, StopReturns(a)
     PROVE  Destruction'
  BY <1>7 DEF StopReturns
<1>8. ASSUME NEW a \in Actors, NEW k \in Tasks, Enqueue(a, k)
     PROVE  Destruction'
  BY <1>8 DEF Enqueue, Calls
<1>9. ASSUME NEW a \in Actors, NEW k \in Tasks, EnqueueStopped(a, k)
     PROVE  Destruction'
  BY <1>9 DEF EnqueueStopped, Calls, Dropped
<1>10. ASSUME NEW a \in Actors, BecomeWorker(a)
     PROVE  Destruction'
  BY <1>10 DEF BecomeWorker, Calls
<1>11. ASSUME NEW a \in Actors, Stop(a)
     PROVE  Destruction'
  BY <1>11 DEF Stop, StopBegins, Calls
<1>12. ASSUME NEW a \in Actors, Destroy(a)
     PROVE  Destruction'
  BY <1>12 DEF Destroy, StopBegins, Calls
<1>13. ASSUME NEW a \in Actors, SpuriousWakeup(a)
     PROVE  Destruction'
  BY <1>13 DEF SpuriousWakeup
<1>14. CASE UNCHANGED vars
  BY <1>14 DEF vars
<1> QED
  BY <1>1, <1>2, <1>3, <1>4, <1>5, <1>6, <1>7, <1>8, <1>9, <1>10, <1>11, <1>12, <1>13, <1>14
     DEF Next, WorkerStep, StopStep, Call

\* The strengthened invariant holds in every state of the pool.
THEOREM Inductive == Spec => []IInv
<1>1. IInv /\ [Next]_vars => IInv'
  BY TypeStep, RolesStep, CustodyStep, DestructionStep DEF IInv
<1> QED
  BY InitInv, <1>1, PTL DEF Spec

\* The types of the variables, and that a thread has a task exactly while it runs one.
THEOREM TypeCorrect == Spec => []TypeOK
<1>1. IInv => TypeOK
  BY DEF IInv
<1> QED
  BY Inductive, <1>1, PTL

\* After stop() no worker takes part in the pool but those that a concurrent stop()
\* still waits for.
THEOREM QuietStop == Spec => []QuietAfterStop
<1>1. IInv => QuietAfterStop
  BY DEF IInv, Roles, Custody, QuietAfterStop, Actors
<1> QED
  BY Inductive, <1>1, PTL

\* When the destructor has returned no worker will lock the mutex of the pool.
THEOREM SafeDestruction == Spec => []GoneWhenDestroyed
<1>1. IInv => GoneWhenDestroyed
  BY DEF IInv, Roles, Custody, Destruction, GoneWhenDestroyed, Actors
<1> QED
  BY Inductive, <1>1, PTL

\* Neither a stop() nor the destructor leaves a worker behind that touches the pool.
THEOREM WorkersAreGone == Spec => []WorkersGone
<1>1. QuietAfterStop /\ GoneWhenDestroyed => WorkersGone
  BY DEF WorkersGone
<1> QED
  BY QuietStop, SafeDestruction, <1>1, PTL
-----------------------------------------------------------------------------
(* Sequences and sets *)

Elems(s) == {s[i] : i \in 1 .. Len(s)}
NoneTwice(s) == \A i, j \in 1 .. Len(s) : s[i] = s[j] => i = j

\* Who is first leaves.
LEMMA FirstLeaves ==
    ASSUME NEW S, NEW s \in Seq(S), s # <<>>, NoneTwice(s)
    PROVE  /\ Tail(s) \in Seq(S) /\ Head(s) \in S /\ Head(s) \in Elems(s)
           /\ Elems(Tail(s)) = Elems(s) \ {Head(s)}
           /\ NoneTwice(Tail(s))
<1>1. /\ Tail(s) \in Seq(S) /\ Head(s) \in S
      /\ Len(Tail(s)) = Len(s) - 1
      /\ \A i \in 1 .. Len(Tail(s)) : Tail(s)[i] = s[i + 1]
  BY HeadTailProperties
<1>2. Len(s) \in Nat \ {0}
  BY EmptySeq
<1>3. Head(s) = s[1] /\ 1 \in 1 .. Len(s)
  BY <1>2
<1>4. Head(s) \in Elems(s)
  BY <1>3 DEF Elems
<1>5. NoneTwice(Tail(s))
  <2> SUFFICES ASSUME NEW i \in 1 .. Len(Tail(s)), NEW j \in 1 .. Len(Tail(s)),
        Tail(s)[i] = Tail(s)[j]
               PROVE  i = j
    BY DEF NoneTwice
  <2>1. i + 1 \in 1 .. Len(s) /\ j + 1 \in 1 .. Len(s) /\ s[i + 1] = s[j + 1]
    BY <1>1, <1>2
  <2>2. i + 1 = j + 1
    BY <2>1 DEF NoneTwice
  <2> QED
    BY <2>2
<1>6. ASSUME NEW x \in Elems(Tail(s))
      PROVE  x \in Elems(s) \ {Head(s)}
  <2>1. PICK i \in 1 .. Len(Tail(s)) : x = Tail(s)[i]
    BY DEF Elems
  <2>2. i + 1 \in 1 .. Len(s) /\ i + 1 # 1 /\ x = s[i + 1]
    BY <1>1, <1>2, <2>1
  <2>3. x # s[1]
    BY <1>3, <2>2 DEF NoneTwice
  <2> QED
    BY <1>3, <2>2, <2>3 DEF Elems
<1>7. ASSUME NEW x \in Elems(s), x # Head(s)
      PROVE  x \in Elems(Tail(s))
  <2>1. PICK i \in 1 .. Len(s) : x = s[i]
    BY DEF Elems
  <2>2. i # 1
    BY <1>3, <1>7, <2>1
  <2>3. i - 1 \in 1 .. Len(Tail(s)) /\ (i - 1) + 1 = i
    BY <1>1, <1>2, <2>2
  <2>4. Tail(s)[i - 1] = x
    BY <1>1, <2>1, <2>3
  <2> QED
    BY <2>3, <2>4 DEF Elems
<1> QED
  BY <1>1, <1>4, <1>5, <1>6, <1>7

\* A new one joins.
LEMMA LastJoins ==
    ASSUME NEW S, NEW s \in Seq(S), NoneTwice(s), NEW x \in S, x \notin Elems(s)
    PROVE  /\ Append(s, x) \in Seq(S)
           /\ Elems(Append(s, x)) = Elems(s) \cup {x}
           /\ NoneTwice(Append(s, x))
<1>1. /\ Append(s, x) \in Seq(S)
      /\ Len(Append(s, x)) = Len(s) + 1
      /\ \A i \in 1 .. Len(s) : Append(s, x)[i] = s[i]
      /\ Append(s, x)[Len(s) + 1] = x
  BY AppendProperties
<1>2. Len(s) \in Nat
  BY LenProperties
<1>3. \A i \in 1 .. Len(Append(s, x)) : i \in 1 .. Len(s) \/ i = Len(s) + 1
  BY <1>1, <1>2
<1>4. \A i \in 1 .. Len(s) : s[i] # x
  BY DEF Elems
<1>5. NoneTwice(Append(s, x))
  <2> SUFFICES ASSUME NEW i \in 1 .. Len(Append(s, x)), NEW j \in 1 .. Len(Append(s, x)),
                      Append(s, x)[i] = Append(s, x)[j]
               PROVE  i = j
    BY DEF NoneTwice
  <2>1. CASE i \in 1 .. Len(s) /\ j \in 1 .. Len(s)
    BY <1>1, <2>1 DEF NoneTwice
  <2>2. CASE i = Len(s) + 1 \/ j = Len(s) + 1
    BY <1>1, <1>3, <1>4, <2>2
  <2> QED
    BY <1>3, <2>1, <2>2
<1>6. \A i \in 1 .. Len(s) : i \in 1 .. Len(Append(s, x))
  BY <1>1, <1>2
<1>7. Len(s) + 1 \in 1 .. Len(Append(s, x))
  BY <1>1, <1>2
<1>8. ASSUME NEW y \in Elems(Append(s, x))
      PROVE  y \in Elems(s) \cup {x}
  BY <1>1, <1>3 DEF Elems
<1>9. ASSUME NEW y \in Elems(s) \cup {x}
      PROVE  y \in Elems(Append(s, x))
  <2>1. CASE y = x
    BY <1>1, <1>7, <2>1 DEF Elems
  <2>2. CASE y \in Elems(s)
    <3>1. PICK i \in 1 .. Len(s) : y = s[i]
      BY <2>2 DEF Elems
    <3> QED
      BY <1>1, <1>6, <3>1 DEF Elems
  <2> QED
    BY <2>1, <2>2
<1> QED
  BY <1>1, <1>5, <1>8, <1>9

-----------------------------------------------------------------------------
(* The tasks *)

\* No list has a task twice, and what is listed was not begun.
Listed ==
    /\ NoneTwice(queue) /\ \A k \in Elems(queue) : fate[k] = "queued"
    /\ \A a \in Actors :
        /\ NoneTwice(hands[a])
        /\ \A k \in Elems(hands[a]) : fate[k] = "queued" /\ k \notin Elems(queue)
    /\ \A a, b \in Actors : a # b => Elems(hands[a]) \cap Elems(hands[b]) = {}

\* What runs is run by one worker.
Begun ==
    /\ \A a \in Actors : task[a] # NoTask => fate[task[a]] = "running"
    /\ \A a, b \in Actors : task[a] = task[b] /\ task[a] # NoTask => a = b
    /\ \A k \in Tasks : fate[k] = "running" => \E a \in Actors : task[a] = k

\* What was not begun is listed somewhere, by a stop() that goes on if there was one.
Kept ==
    /\ \A k \in Tasks : fate[k] = "queued" =>
        k \in Elems(queue) \/ \E a \in Actors : k \in Elems(hands[a])
    /\ exit => queue = <<>>
    /\ \A a \in Actors : ~stopping[a] => hands[a] = <<>>

TasksInv == Listed /\ Begun /\ Kept

\* Elements of lists of tasks are tasks.
LEMMA ElemsAreTasks ==
    ASSUME TypeOK
    PROVE  /\ Elems(queue) \subseteq Tasks /\ queue \in Seq(Tasks)
           /\ \A a \in Actors : Elems(hands[a]) \subseteq Tasks /\ hands[a] \in Seq(Tasks)
<1>1. ASSUME NEW s \in Seq(Tasks)
      PROVE  Elems(s) \subseteq Tasks
  BY ElementOfSeq DEF Elems
<1> QED
  BY <1>1 DEF TypeOK

\* The empty list.
LEMMA NothingListed == Elems(<<>>) = {} /\ NoneTwice(<<>>)
<1>1. Len(<<>>) = 0 /\ 1 .. 0 = {}
  OBVIOUS
<1> QED
  BY <1>1 DEF Elems, NoneTwice

\* At first there are no tasks.
LEMMA TasksStart == Init => TasksInv
<1> SUFFICES ASSUME Init
             PROVE  TasksInv
  OBVIOUS
<1>1. Listed
  BY NothingListed DEF Init, Listed
<1>2. Begun
  BY DEF Init, Begun
<1>3. Kept
  BY DEF Init, Kept
<1> QED
  BY <1>1, <1>2, <1>3 DEF TasksInv

\* Steps that leave the tasks alone.
LEMMA TasksStay ==
    ASSUME TasksInv, UNCHANGED <<queue, task, hands, fate>>,
           exit' => exit, \A a \in Actors : stopping[a] => stopping'[a]
    PROVE  TasksInv'
<1>1. Listed'
  BY DEF TasksInv, Listed
<1>2. Begun'
  BY DEF TasksInv, Begun
<1>3. Kept'
  BY DEF TasksInv, Kept
<1> QED
  BY <1>1, <1>2, <1>3 DEF TasksInv

\* A task goes from one list to the next, or to the worker that begins it.
LEMMA TasksStep == IInv /\ TasksInv /\ [Next]_vars => TasksInv'
<1> SUFFICES ASSUME IInv, TasksInv, [Next]_vars
             PROVE  TasksInv'
  OBVIOUS
<1>t. TypeOK
  BY DEF IInv
<1>e. /\ Elems(queue) \subseteq Tasks /\ queue \in Seq(Tasks)
      /\ \A a \in Actors : Elems(hands[a]) \subseteq Tasks /\ hands[a] \in Seq(Tasks)
  BY <1>t, ElemsAreTasks
<1>1. ASSUME NEW a \in Actors,
             \/ WorkerExits(a) \/ WorkerSleeps(a) \/ SpuriousWakeup(a) \/ BecomeWorker(a)
             \/ \E w \in Workers : Join(a, w)
      PROVE  TasksInv'
  BY <1>1, TasksStay DEF WorkerExits, WorkerSleeps, SpuriousWakeup, BecomeWorker, Join
<1>2. ASSUME NEW a \in Actors, WorkerRuns(a)
      PROVE  TasksInv'
  <2> DEFINE k == Head(queue)
  <2>1. /\ k \in Tasks /\ k \in Elems(queue)
        /\ Elems(queue') = Elems(queue) \ {k} /\ NoneTwice(queue')
    BY <1>2, <1>e, FirstLeaves DEF WorkerRuns, TasksInv, Listed
  <2>2. /\ task' = [task EXCEPT ![a] = k] /\ fate' = [fate EXCEPT ![k] = "running"]
        /\ hands' = hands /\ exit' = exit /\ stopping' = stopping /\ ~exit /\ task[a] = NoTask
    BY <1>2, <1>t DEF WorkerRuns, TypeOK
  <2>3. k # NoTask /\ fate[k] = "queued"
    BY <2>1, TasksAssumption DEF TasksInv, Listed
  <2> HIDE DEF k
  <2>4. Listed'
    BY <2>1, <2>2, <1>e, <1>t DEF TasksInv, Listed, TypeOK
  <2>5. Begun'
    <3>1. /\ task'[a] = k /\ \A b \in Actors : b # a => task'[b] = task[b]
          /\ \A x \in Tasks : fate'[x] = IF x = k THEN "running" ELSE fate[x]
          /\ \A b \in Actors : task[b] # NoTask => task[b] \in Tasks
      BY <2>2, <1>t DEF TypeOK
    <3>2. \A b \in Actors : task[b] # k
      BY <2>3 DEF TasksInv, Begun
    <3>3. \A b \in Actors : task'[b] # NoTask => fate'[task'[b]] = "running"
      BY <2>1, <3>1, <3>2 DEF TasksInv, Begun
    <3>4. \A b, c \in Actors : task'[b] = task'[c] /\ task'[b] # NoTask => b = c
      BY <3>1, <3>2 DEF TasksInv, Begun
    <3>5. \A x \in Tasks : fate'[x] = "running" => \E b \in Actors : task'[b] = x
      <4> SUFFICES ASSUME NEW x \in Tasks, fate'[x] = "running"
                   PROVE  \E b \in Actors : task'[b] = x
        OBVIOUS
      <4>1. CASE x = k
        BY <3>1, <4>1
      <4>2. CASE x # k
        <5>1. PICK b \in Actors : task[b] = x
          BY <3>1, <4>2 DEF TasksInv, Begun
        <5>2. b # a
          BY <2>2, <5>1, TasksAssumption
        <5> QED
          BY <3>1, <5>1, <5>2
      <4> QED
        BY <4>1, <4>2
    <3> QED
      BY <3>3, <3>4, <3>5 DEF Begun
  <2>6. Kept'
    BY <2>1, <2>2, <1>t DEF TasksInv, Kept, TypeOK
  <2> QED
    BY <2>4, <2>5, <2>6 DEF TasksInv
<1>3. ASSUME NEW a \in Actors, TaskEnds(a)
      PROVE  TasksInv'
  <2> DEFINE k == task[a]
  <2>1. k \in Tasks /\ k # NoTask /\ fate[k] = "running"
    BY <1>3, <1>t DEF TaskEnds, TypeOK, TasksInv, Begun
  <2>2. /\ task' = [task EXCEPT ![a] = NoTask] /\ fate' = [fate EXCEPT ![k] = "done"]
        /\ UNCHANGED <<queue, hands, exit, stopping>>
    BY <1>3 DEF TaskEnds
  <2>3. Listed'
    BY <2>1, <2>2, <1>e, <1>t DEF TasksInv, Listed, TypeOK
  <2>4. Begun'
    BY <2>1, <2>2, <1>t DEF TasksInv, Begun, TypeOK
  <2>5. Kept'
    BY <2>1, <2>2, <1>t DEF TasksInv, Kept, TypeOK
  <2> QED
    BY <2>3, <2>4, <2>5 DEF TasksInv
<1>4. ASSUME NEW a \in Actors, Drop(a)
      PROVE  TasksInv'
  <2> DEFINE k == Head(hands[a])
  <2>1. /\ k \in Tasks /\ k \in Elems(hands[a])
        /\ Elems(Tail(hands[a])) = Elems(hands[a]) \ {k} /\ NoneTwice(Tail(hands[a]))
    BY <1>4, <1>e, FirstLeaves DEF Drop, TasksInv, Listed
  <2>2. /\ hands' = [hands EXCEPT ![a] = Tail(hands[a])]
        /\ fate' = [fate EXCEPT ![k] = Dropped(k)]
        /\ UNCHANGED <<queue, task, exit, stopping>> /\ stopping[a]
    BY <1>4 DEF Drop
  <2>3. fate[k] = "queued" /\ Dropped(k) \notin {"queued", "running"}
    BY <2>1 DEF TasksInv, Listed, Dropped
  <2>4. /\ \A b \in Actors : b # a => hands'[b] = hands[b]
        /\ hands'[a] = Tail(hands[a])
    BY <2>2, <1>t DEF TypeOK
  <2>5. \A x \in Tasks : fate'[x] = IF x = k THEN Dropped(k) ELSE fate[x]
    BY <2>2, <1>t DEF TypeOK
  <2> HIDE DEF k
  <2>6. Listed'
    <3>1. \A b \in Actors : Elems(hands'[b]) \subseteq Elems(hands[b]) \ {k}
      BY <2>1, <2>4 DEF TasksInv, Listed
    <3>2. \A b \in Actors : NoneTwice(hands'[b])
      BY <2>1, <2>4 DEF TasksInv, Listed
    <3>3. \A x \in Elems(queue) : x # k
      BY <2>1 DEF TasksInv, Listed
    <3>4. NoneTwice(queue') /\ \A x \in Elems(queue') : fate'[x] = "queued"
      BY <3>3, <2>2, <2>5, <1>e DEF TasksInv, Listed
    <3>5. ASSUME NEW b \in Actors, NEW x \in Elems(hands'[b])
          PROVE  fate'[x] = "queued" /\ x \notin Elems(queue')
      <4>1. x \in Elems(hands[b]) /\ x # k /\ x \in Tasks
        BY <3>1, <1>e
      <4> QED
        BY <4>1, <2>2, <2>5 DEF TasksInv, Listed
    <3>6. ASSUME NEW b \in Actors, NEW c \in Actors, b # c
          PROVE  Elems(hands'[b]) \cap Elems(hands'[c]) = {}
      <4>1. Elems(hands[b]) \cap Elems(hands[c]) = {}
        BY <3>6 DEF TasksInv, Listed
      <4> QED
        BY <4>1, <3>1
    <3> QED
      BY <3>2, <3>4, <3>5, <3>6 DEF Listed
  <2>7. Begun'
    BY <2>2, <2>3, <2>5, <1>t DEF TasksInv, Begun, TypeOK
  <2>8. Kept'
    BY <2>1, <2>2, <2>3, <2>4, <2>5 DEF TasksInv, Kept
  <2> QED
    BY <2>6, <2>7, <2>8 DEF TasksInv
<1>5. ASSUME NEW a \in Actors, StopReturns(a)
      PROVE  TasksInv'
  <2>1. /\ UNCHANGED <<queue, task, hands, fate, exit>> /\ hands[a] = <<>>
        /\ \A b \in Actors : b # a => stopping'[b] = stopping[b]
    BY <1>5, <1>t DEF StopReturns, TypeOK
  <2>2. Listed' /\ Begun'
    BY <2>1 DEF TasksInv, Listed, Begun
  <2>3. Kept'
    BY <2>1 DEF TasksInv, Kept
  <2> QED
    BY <2>2, <2>3 DEF TasksInv
<1>6. ASSUME NEW a \in Actors, NEW k \in Tasks, Enqueue(a, k)
      PROVE  TasksInv'
  <2>1. /\ queue' = Append(queue, k) /\ fate' = [fate EXCEPT ![k] = "queued"]
        /\ UNCHANGED <<task, hands, exit, stopping>> /\ ~exit /\ fate[k] = "none"
    BY <1>6 DEF Enqueue
  <2>2. k \notin Elems(queue) /\ \A b \in Actors : k \notin Elems(hands[b])
    BY <2>1 DEF TasksInv, Listed
  <2>3. Elems(queue') = Elems(queue) \cup {k} /\ NoneTwice(queue')
    BY <2>1, <2>2, <1>e, LastJoins DEF TasksInv, Listed
  <2>4. \A x \in Tasks : fate'[x] = IF x = k THEN "queued" ELSE fate[x]
    BY <2>1, <1>t DEF TypeOK
  <2>5. Listed'
    BY <2>1, <2>2, <2>3, <2>4, <1>e DEF TasksInv, Listed
  <2>6. Begun'
    BY <2>1, <2>4, <1>t DEF TasksInv, Begun, TypeOK
  <2>7. Kept'
    BY <2>1, <2>3, <2>4 DEF TasksInv, Kept
  <2> QED
    BY <2>5, <2>6, <2>7 DEF TasksInv
<1>7. ASSUME NEW a \in Actors, NEW k \in Tasks, EnqueueStopped(a, k)
      PROVE  TasksInv'
  <2>1. /\ fate' = [fate EXCEPT ![k] = Dropped(k)] /\ fate[k] = "none"
        /\ UNCHANGED <<queue, task, hands, exit, stopping>>
    BY <1>7 DEF EnqueueStopped
  <2>2. \A x \in Tasks : fate'[x] = IF x = k THEN Dropped(k) ELSE fate[x]
    BY <2>1, <1>t DEF TypeOK
  <2>3. Dropped(k) \notin {"queued", "running"}
    BY DEF Dropped
  <2>4. Listed'
    BY <2>1, <2>2, <1>e DEF TasksInv, Listed
  <2>5. Begun'
    BY <2>1, <2>2, <2>3, <1>t DEF TasksInv, Begun, TypeOK
  <2>6. Kept'
    BY <2>1, <2>2, <2>3 DEF TasksInv, Kept
  <2> QED
    BY <2>4, <2>5, <2>6 DEF TasksInv
<1>8. ASSUME NEW a \in Actors, Stop(a) \/ Destroy(a)
      PROVE  TasksInv'
  <2>1. /\ queue' = <<>> /\ hands' = [hands EXCEPT ![a] = queue]
        /\ stopping' = [stopping EXCEPT ![a] = TRUE] /\ ~stopping[a]
        /\ UNCHANGED <<task, fate>>
    BY <1>8 DEF Stop, Destroy, StopBegins, Calls
  <2>2. hands[a] = <<>>
    BY <2>1 DEF TasksInv, Kept
  <2>3. /\ hands'[a] = queue /\ stopping'[a]
        /\ \A b \in Actors : b # a => hands'[b] = hands[b] /\ stopping'[b] = stopping[b]
    BY <2>1, <1>t DEF TypeOK
  <2>4. Elems(queue') = {} /\ NoneTwice(queue')
    BY <2>1, NothingListed
  <2>5. Listed'
    BY <2>1, <2>3, <2>4 DEF TasksInv, Listed
  <2>6. Begun'
    BY <2>1 DEF TasksInv, Begun
  <2>7. Kept'
    BY <2>1, <2>2, <2>3, NothingListed DEF TasksInv, Kept
  <2> QED
    BY <2>5, <2>6, <2>7 DEF TasksInv
<1>9. CASE UNCHANGED vars
  BY <1>9, TasksStay DEF vars
<1> QED
  BY <1>1, <1>2, <1>3, <1>4, <1>5, <1>6, <1>7, <1>8, <1>9 DEF Next, WorkerStep, StopStep, Call

\* A task that waits or runs is in one place.
LEMMA InOnePlace == TypeOK /\ TasksInv => EachTaskOnce
<1> SUFFICES ASSUME TypeOK, TasksInv, NEW k \in Tasks
             PROVE  /\ fate[k] \in {"queued", "running"} =>
                        \E p \in Whereabouts(k) : Whereabouts(k) = {p}
                    /\ fate[k] \notin {"queued", "running"} => Whereabouts(k) = {}
                    /\ fate[k] = "queued" /\ exit =>
                        \E a \in Actors : stopping[a] /\ k \in Range(hands[a])
  BY DEF EachTaskOnce
<1> DEFINE InQueue == {<<"queue", i>> : i \in {i \in DOMAIN queue : queue[i] = k}}
           AtWork == {<<"worker", a>> : a \in {a \in Actors : task[a] = k}}
           InHand(a) == {<<a, i>> : i \in {i \in DOMAIN hands[a] : hands[a][i] = k}}
           InHands == UNION {InHand(a) : a \in Actors}
<1>w. Whereabouts(k) = InQueue \cup AtWork \cup InHands
  BY DEF Whereabouts
<1>e. /\ queue \in Seq(Tasks) /\ DOMAIN queue = 1 .. Len(queue)
      /\ \A a \in Actors : hands[a] \in Seq(Tasks) /\ DOMAIN hands[a] = 1 .. Len(hands[a])
      /\ k # NoTask
  BY ElemsAreTasks, LenProperties, TasksAssumption
<1>1. ASSUME k \notin Elems(queue)
      PROVE  InQueue = {}
  BY <1>1, <1>e DEF Elems
<1>2. ASSUME NEW a \in Actors, k \notin Elems(hands[a])
      PROVE  InHand(a) = {}
  BY <1>2, <1>e DEF Elems
<1>3. ASSUME fate[k] # "running"
      PROVE  AtWork = {}
  BY <1>3, <1>e DEF TasksInv, Begun
<1>4. ASSUME k \in Elems(queue)
      PROVE  \E p \in InQueue : InQueue = {p}
  <2>1. PICK i \in DOMAIN queue : queue[i] = k
    BY <1>4, <1>e DEF Elems
  <2>2. \A j \in DOMAIN queue : queue[j] = k => j = i
    BY <2>1, <1>e DEF TasksInv, Listed, NoneTwice
  <2>3. InQueue = {<<"queue", i>>}
    BY <2>1, <2>2
  <2> QED
    BY <2>3
<1>5. ASSUME NEW a \in Actors, k \in Elems(hands[a])
      PROVE  \E p \in InHand(a) : InHand(a) = {p}
  <2>1. PICK i \in DOMAIN hands[a] : hands[a][i] = k
    BY <1>5, <1>e DEF Elems
  <2>2. \A j \in DOMAIN hands[a] : hands[a][j] = k => j = i
    BY <2>1, <1>e DEF TasksInv, Listed, NoneTwice
  <2>3. InHand(a) = {<<a, i>>}
    BY <2>1, <2>2
  <2> QED
    BY <2>3
<1>6. fate[k] # "queued" => k \notin Elems(queue) /\ \A a \in Actors : k \notin Elems(hands[a])
  BY DEF TasksInv, Listed
<1>7. fate[k] # "queued" => InQueue = {} /\ InHands = {}
  BY <1>1, <1>2, <1>6
<1>8. fate[k] \notin {"queued", "running"} => Whereabouts(k) = {}
  BY <1>3, <1>7, <1>w
<1>9. CASE fate[k] = "running"
  <2>1. PICK a \in Actors : task[a] = k
    BY <1>9 DEF TasksInv, Begun
  <2>2. \A b \in Actors : task[b] = k => b = a
    BY <2>1, <1>e DEF TasksInv, Begun
  <2>3. AtWork = {<<"worker", a>>}
    BY <2>1, <2>2
  <2>4. Whereabouts(k) = {<<"worker", a>>}
    BY <1>7, <1>9, <2>3, <1>w
  <2> QED
    BY <1>8, <1>9, <2>4
<1>10. CASE fate[k] = "queued"
  <2>1. AtWork = {}
    BY <1>3, <1>10
  <2>2. CASE k \in Elems(queue)
    <3>1. \A a \in Actors : k \notin Elems(hands[a])
      BY <2>2 DEF TasksInv, Listed
    <3>2. InHands = {}
      BY <1>2, <3>1
    <3>3. Whereabouts(k) = InQueue
      BY <2>1, <3>2, <1>w
    <3>4. queue # <<>>
      BY <2>2, NothingListed
    <3>5. ~exit
      BY <3>4 DEF TasksInv, Kept
    <3> QED
      BY <1>4, <1>8, <2>2, <3>3, <3>5
  <2>3. CASE k \notin Elems(queue)
    <3>1. PICK a \in Actors : k \in Elems(hands[a])
      BY <1>10, <2>3 DEF TasksInv, Kept
    <3>2. \A b \in Actors : b # a => k \notin Elems(hands[b])
      BY <3>1 DEF TasksInv, Listed
    <3>3. \A b \in Actors : b # a => InHand(b) = {}
      BY <1>2, <3>2
    <3>4. InHands = InHand(a)
      BY <3>3
    <3>5. Whereabouts(k) = InHand(a)
      BY <1>1, <2>1, <2>3, <3>4, <1>w
    <3>6. stopping[a]
      BY <3>1, NothingListed DEF TasksInv, Kept
    <3>7. k \in Range(hands[a])
      BY <3>1, <1>e DEF Elems, Range
    <3> QED
      BY <1>5, <1>8, <3>1, <3>5, <3>6, <3>7
  <2> QED
    BY <2>2, <2>3
<1> QED
  BY <1>8, <1>9, <1>10

\* A task is in the queue, at one worker, or in the hands of one stop(), and then it is
\* neither lost nor run again.
THEOREM TasksAreOnce == Spec => []EachTaskOnce
<1>1. Init => IInv /\ TasksInv
  BY InitInv, TasksStart
<1>2. IInv /\ TasksInv /\ [Next]_vars => (IInv /\ TasksInv)'
  BY TypeStep, RolesStep, CustodyStep, DestructionStep, TasksStep DEF IInv
<1>3. IInv /\ TasksInv => EachTaskOnce
  BY InOnePlace DEF IInv
<1> QED
  BY <1>1, <1>2, <1>3, PTL DEF Spec
=============================================================================
