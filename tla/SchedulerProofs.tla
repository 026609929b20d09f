--------------------------- MODULE SchedulerProofs ---------------------------
(***************************************************************************)
(* The scheduler, for any number of sleeps, identifiers and workers: who waits *)
(* for what, and where the promises are.                                   *)
(***************************************************************************)
EXTENDS Scheduler, TLAPS

(* Who holds the mutex, and what the heap is *)

\* A worker between Check and Block holds the mutex.
HoldsMutex == \A w \in Workers : pc[w] \in {"check", "test", "block"} => mx = w

\* A worker that is about to wait, or waits and was not notified, waits for nothing later
\* than any item, with its promise or without: schedule() compares with those as well.
WaitsForFront ==
    \A w \in Workers :
        pc[w] = "block" \/ (pc[w] = "waiting" /\ w \notin notified) =>
            \A i \in heap : until[w] <= i.tp

SchedulerInv == SchedulerTypeOK /\ HoldsMutex /\ WaitsForFront

\* Whatever is scheduled is in the heap ...
PromisesStay == \A s \in Sleeps : st[s] = "scheduled" => \E i \in heap : i.sleep = s

\* ... and what was woken, and nothing else, in one of the queues.
AwakeOnce ==
    \A s \in Sleeps :
        /\ st[s] = "woken" => \E w \in Workers : s \in awake[w]
        /\ \A w \in Workers :
              s \in awake[w] => st[s] = "woken" /\ \A v \in Workers : s \in awake[v] => v = w

\* What Test does unless it was asked to stop.
Tested(w, P) ==
    \/ \E i \in heap :
        /\ Expire(i, P)
        /\ Wake(w, i.sleep)
        /\ Go(w, "check")
        /\ UNCHANGED until
    \/ \E t \in 0 .. Never :
        /\ NoneDue(t, P)
        /\ \/ Go(w, "check") /\ UNCHANGED until
           \/ Go(w, "block") /\ until' = [until EXCEPT ![w] = t]
        /\ UNCHANGED <<st, awake>>

\* What a worker that goes on finds in the heap, with the items P popped.
LEMMA TestCases ==
    ASSUME NEW w, Test(w), w \notin stop
    PROVE  \E P \in SUBSET Emptied : Tested(w, P)
  BY DEF Test, Tested

\* The components of an item in the heap.
LEMMA ItemIsTyped ==
    ASSUME heap \subseteq Item, NEW i \in heap
    PROVE  i.sleep \in Sleeps /\ i.tp \in Time /\ i.tp \in Nat
  BY MaxTimeAssumption DEF Item, Time

\* Only the expired item is taken with its promise.
LEMMA ExpireTakes ==
    ASSUME NEW i \in heap, NEW P, Expire(i, P)
    PROVE  heap' \subseteq heap /\ Live(i) /\ heap' = heap \ (P \cup {i})
  BY DEF Expire

\* What is left when nothing is due.
LEMMA NoneDueLeaves ==
    ASSUME heap \subseteq Item, NEW t \in 0 .. Never, NEW P, NoneDue(t, P)
    PROVE  heap' = heap \ P /\ \A j \in heap' : t <= j.tp
<1>1. heap' = heap \ P
  BY DEF NoneDue
<1>2. CASE heap = P
  BY <1>1, <1>2
<1>3. CASE \E i \in Front(heap \ P) : t = i.tp
  BY <1>1, <1>3 DEF Front
<1> QED
  BY <1>1, <1>2, <1>3 DEF NoneDue

\* At first nothing is scheduled and no worker waits.
LEMMA SchedulerStart == SchedulerInit => SchedulerInv /\ PromisesStay /\ AwakeOnce
<1> SUFFICES ASSUME SchedulerInit
             PROVE  SchedulerInv /\ PromisesStay /\ AwakeOnce
  OBVIOUS
<1> USE WorkersAssumption, MaxTimeAssumption DEF SchedulerInit, Fresh
<1>1. 0 \in Time /\ Never \in 0 .. Never
  BY DEF Time, Never
<1>2. SchedulerTypeOK
  BY <1>1 DEF SchedulerTypeOK, PromiseStates, Places
<1> QED
  BY <1>2 DEF SchedulerInv, HoldsMutex, WaitsForFront, PromisesStay, AwakeOnce

\* The types of the scheduler.
LEMMA SchedulerTypeStep == SchedulerTypeOK /\ [SchedulerNext]_schedulerVars => SchedulerTypeOK'
<1> SUFFICES ASSUME SchedulerTypeOK, [SchedulerNext]_schedulerVars
             PROVE  SchedulerTypeOK'
  OBVIOUS
<1> USE WorkersAssumption, MaxTimeAssumption DEF Go, At, Become, queues, items, sleepers,
     stops, SchedulerTypeOK, PromiseStates, Places
<1>1. ASSUME NEW s \in Sleeps, NEW t \in Time, NEW id \in Idents \cup {NoOne}, Schedule(s, t,
      id)
     PROVE  SchedulerTypeOK'
  <2>1. heap' \subseteq Item
    BY <1>1 DEF Schedule, Item
  <2>2. notified' \subseteq Workers
    BY <1>1 DEF Schedule, Notify
  <2> QED
    BY <1>1, <2>1, <2>2 DEF Schedule
<1>2. ASSUME NEW id \in Idents, Remove(id)
     PROVE  SchedulerTypeOK'
  BY <1>2 DEF Remove
<1>3. ASSUME NEW s \in Sleeps, Resolve(s)
     PROVE  SchedulerTypeOK'
  BY <1>3 DEF Resolve
<1>4. ASSUME GetExpired
     PROVE  SchedulerTypeOK'
  <2>1. PICK P \in SUBSET Emptied :
          \/ \E i \in heap : Expire(i, P) /\ Become(i.sleep, "taken")
          \/ \E t \in 0 .. Never : NoneDue(t, P) /\ UNCHANGED st
    BY <1>4 DEF GetExpired
  <2>2. heap' \subseteq heap
    BY <2>1 DEF Expire, NoneDue
  <2>3. heap' \subseteq Item
    BY <2>2
  <2>4. st' \in [Sleeps -> PromiseStates]
    BY <2>1
  <2> QED
    BY <1>4, <2>3, <2>4 DEF GetExpired
<1>5. ASSUME NEW w \in Workers, Start(w)
     PROVE  SchedulerTypeOK'
  BY <1>5 DEF Start
<1>6. ASSUME NEW w \in Workers, Check(w)
     PROVE  SchedulerTypeOK'
  BY <1>6 DEF Check, End
<1>7. ASSUME NEW w \in Workers, Resume(w)
     PROVE  SchedulerTypeOK'
  BY <1>7 DEF Resume
<1>8. ASSUME NEW w \in Workers, Test(w)
     PROVE  SchedulerTypeOK'
  <2>1. CASE w \in stop
    BY <1>8, <2>1 DEF Test, End
  <2>2. CASE w \notin stop
    <3>1. PICK P \in SUBSET Emptied : Tested(w, P)
      BY <1>8, <2>2, TestCases
    <3> USE DEF Tested
    <3>2. heap' \subseteq heap
      BY <3>1 DEF Expire, NoneDue
    <3>3. heap' \subseteq Item
      BY <3>2
    <3>0. (st' = st /\ awake' = awake) \/ \E r \in Sleeps : Wake(w, r)
      BY <3>1, ItemIsTyped
    <3>4. st' \in [Sleeps -> PromiseStates]
      BY <3>0 DEF Wake
    <3>5. awake' \in [Workers -> SUBSET Sleeps]
      BY <3>0 DEF Wake
    <3>6. pc' \in [Workers -> Places]
      BY <3>1
    <3>7. until' \in [Workers -> 0 .. Never]
      BY <3>1
    <3> QED
      BY <1>8, <2>2, <3>3, <3>4, <3>5, <3>6, <3>7 DEF Test
  <2> QED
    BY <2>1, <2>2
<1>9. ASSUME NEW w \in Workers, Block(w)
     PROVE  SchedulerTypeOK'
  BY <1>9 DEF Block
<1>10. ASSUME NEW w \in Workers, StopCallback(w)
     PROVE  SchedulerTypeOK'
  BY <1>10 DEF StopCallback, Notify
<1>11. ASSUME NEW w \in Workers, WakeUp(w)
     PROVE  SchedulerTypeOK'
  <2>1. until' \in [Workers -> 0 .. Never]
    <3>1. Never \in 0 .. Never
      BY DEF Never
    <3> QED
      BY <1>11, <3>1 DEF WakeUp
  <2> QED
    BY <1>11, <2>1 DEF WakeUp
<1>12. ASSUME NEW w \in Workers, PoolStopped(w)
     PROVE  SchedulerTypeOK'
  BY <1>12 DEF PoolStopped, End
<1>13. ASSUME NEW w \in Workers, RequestStop(w)
     PROVE  SchedulerTypeOK'
  BY <1>13 DEF RequestStop
<1>14. ASSUME NEW w \in Workers, Enqueue(w)
     PROVE  SchedulerTypeOK'
  BY <1>14 DEF Enqueue
<1>15. ASSUME NEW w \in Workers, RunOther(w)
     PROVE  SchedulerTypeOK'
  BY <1>15 DEF RunOther
<1>16. ASSUME NEW w \in Workers, NEW s \in Sleeps, RunReady(w, s)
     PROVE  SchedulerTypeOK'
  BY <1>16 DEF RunReady
<1>17. ASSUME Destroy
     PROVE  SchedulerTypeOK'
  BY <1>17 DEF Destroy
<1>18. ASSUME Tick
     PROVE  SchedulerTypeOK'
  <2>1. now' \in Time
    BY <1>18 DEF Tick, Time
  <2> QED
    BY <1>18, <2>1 DEF Tick
<1>19. ASSUME NEW w \in Workers, PoolStops(w)
     PROVE  SchedulerTypeOK'
  BY <1>19 DEF PoolStops
<1>20. CASE UNCHANGED schedulerVars
  BY <1>20 DEF schedulerVars
<1> QED
  BY <1>1, <1>2, <1>3, <1>4, <1>5, <1>6, <1>7, <1>8, <1>9, <1>10, <1>11, <1>12, <1>13, <1>14,
     <1>15, <1>16, <1>17, <1>18, <1>19, <1>20 DEF SchedulerNext, Client, SleepUntil, Work, Woken

\* Whoever takes the mutex finds it free.
LEMMA MutexStep == SchedulerTypeOK /\ HoldsMutex /\ [SchedulerNext]_schedulerVars => HoldsMutex'
<1> SUFFICES ASSUME SchedulerTypeOK /\ HoldsMutex, [SchedulerNext]_schedulerVars
             PROVE  HoldsMutex'
  OBVIOUS
<1> USE WorkersAssumption, MaxTimeAssumption DEF Go, At, Become, queues, items, sleepers,
     stops, SchedulerTypeOK, HoldsMutex
<1>1. ASSUME NEW s \in Sleeps, NEW t \in Time, NEW id \in Idents \cup {NoOne}, Schedule(s, t,
      id)
     PROVE  HoldsMutex'
  BY <1>1 DEF Schedule, Notify
<1>2. ASSUME NEW id \in Idents, Remove(id)
     PROVE  HoldsMutex'
  BY <1>2 DEF Remove
<1>3. ASSUME NEW s \in Sleeps, Resolve(s)
     PROVE  HoldsMutex'
  BY <1>3 DEF Resolve
<1>4. ASSUME GetExpired
     PROVE  HoldsMutex'
  BY <1>4 DEF GetExpired
<1>5. ASSUME NEW w \in Workers, Start(w)
     PROVE  HoldsMutex'
  BY <1>5 DEF Start
<1>6. ASSUME NEW w \in Workers, Check(w)
     PROVE  HoldsMutex'
  BY <1>6 DEF Check, End
<1>7. ASSUME NEW w \in Workers, Resume(w)
     PROVE  HoldsMutex'
  BY <1>7 DEF Resume
<1>8. ASSUME NEW w \in Workers, Test(w)
     PROVE  HoldsMutex'
  BY <1>8 DEF Test, End
<1>9. ASSUME NEW w \in Workers, Block(w)
     PROVE  HoldsMutex'
  BY <1>9 DEF Block
<1>10. ASSUME NEW w \in Workers, StopCallback(w)
     PROVE  HoldsMutex'
  BY <1>10 DEF StopCallback, Notify
<1>11. ASSUME NEW w \in Workers, WakeUp(w)
     PROVE  HoldsMutex'
  BY <1>11 DEF WakeUp
<1>12. ASSUME NEW w \in Workers, PoolStopped(w)
     PROVE  HoldsMutex'
  BY <1>12 DEF PoolStopped, End
<1>13. ASSUME NEW w \in Workers, RequestStop(w)
     PROVE  HoldsMutex'
  BY <1>13 DEF RequestStop
<1>14. ASSUME NEW w \in Workers, Enqueue(w)
     PROVE  HoldsMutex'
  BY <1>14 DEF Enqueue
<1>15. ASSUME NEW w \in Workers, RunOther(w)
     PROVE  HoldsMutex'
  BY <1>15 DEF RunOther
<1>16. ASSUME NEW w \in Workers, NEW s \in Sleeps, RunReady(w, s)
     PROVE  HoldsMutex'
  BY <1>16 DEF RunReady
<1>17. ASSUME Destroy
     PROVE  HoldsMutex'
  BY <1>17 DEF Destroy
<1>18. ASSUME Tick
     PROVE  HoldsMutex'
  BY <1>18 DEF Tick
<1>19. ASSUME NEW w \in Workers, PoolStops(w)
     PROVE  HoldsMutex'
  BY <1>19 DEF PoolStops
<1>20. CASE UNCHANGED schedulerVars
  BY <1>20 DEF schedulerVars
<1> QED
  BY <1>1, <1>2, <1>3, <1>4, <1>5, <1>6, <1>7, <1>8, <1>9, <1>10, <1>11, <1>12, <1>13, <1>14,
     <1>15, <1>16, <1>17, <1>18, <1>19, <1>20 DEF SchedulerNext, Client, SleepUntil, Work, Woken

\* The heap changes while nobody is about to wait; what is put in front of all that
\* is in it is notified.
LEMMA FrontStep == SchedulerInv /\ [SchedulerNext]_schedulerVars => WaitsForFront'
<1> SUFFICES ASSUME SchedulerInv, [SchedulerNext]_schedulerVars
             PROVE  WaitsForFront'
  OBVIOUS
<1> USE WorkersAssumption, MaxTimeAssumption DEF Go, At, Become, queues, items, sleepers,
     stops, SchedulerInv, SchedulerTypeOK, HoldsMutex, WaitsForFront
<1>1. ASSUME NEW s \in Sleeps, NEW t \in Time, NEW id \in Idents \cup {NoOne}, Schedule(s, t,
      id)
     PROVE  WaitsForFront'
  <2>1. heap' = heap \cup {[sleep |-> s, tp |-> t, ident |-> id]} /\ pc' = pc /\ until' = until
    BY <1>1 DEF Schedule
  <2>2. \A i \in heap : i.tp \in Nat
    BY ItemIsTyped
  <2>3. CASE \A i \in heap : i.tp > t
    BY <1>1, <2>1, <2>3 DEF Schedule, Notify
  <2>4. CASE ~\A i \in heap : i.tp > t
    <3>1. PICK i \in heap : ~(i.tp > t)
      BY <2>4
    <3>2. i.tp <= t /\ t \in Nat
      BY <2>2, <3>1 DEF Time
    <3>3. notified' = notified
      BY <1>1, <2>4 DEF Schedule
    <3>4. \A w \in Workers : until[w] \in Nat
      BY DEF Never
    <3>5. \A w \in Workers : until[w] <= i.tp => until[w] <= t
      BY <2>2, <3>2, <3>4
    <3>6. \A w \in Workers : pc[w] # "block"
      BY <1>1 DEF Schedule
    <3> QED
      BY <2>1, <3>1, <3>3, <3>5, <3>6
  <2> QED
    BY <2>3, <2>4
<1>2. ASSUME NEW id \in Idents, Remove(id)
     PROVE  WaitsForFront'
  BY <1>2 DEF Remove
<1>3. ASSUME NEW s \in Sleeps, Resolve(s)
     PROVE  WaitsForFront'
  BY <1>3 DEF Resolve
<1>4. ASSUME GetExpired
     PROVE  WaitsForFront'
  <2>1. heap' \subseteq heap
    BY <1>4 DEF GetExpired, Expire, NoneDue
  <2> QED
    BY <1>4, <2>1 DEF GetExpired
<1>5. ASSUME NEW w \in Workers, Start(w)
     PROVE  WaitsForFront'
  BY <1>5 DEF Start
<1>6. ASSUME NEW w \in Workers, Check(w)
     PROVE  WaitsForFront'
  BY <1>6 DEF Check, End
<1>7. ASSUME NEW w \in Workers, Resume(w)
     PROVE  WaitsForFront'
  BY <1>7 DEF Resume
<1>8. ASSUME NEW w \in Workers, Test(w)
     PROVE  WaitsForFront'
  <2>1. CASE w \in stop
    BY <1>8, <2>1 DEF Test, End
  <2>2. CASE w \notin stop
    <3>1. PICK P \in SUBSET Emptied : Tested(w, P)
      BY <1>8, <2>2, TestCases
    <3> USE DEF Tested
    <3>2. \A v \in Workers : pc[v] = "block" => v = w
      BY <1>8 DEF Test
    <3>3. CASE pc'[w] = "check"
      <4>1. heap' \subseteq heap /\ until' = until /\ pc' = [pc EXCEPT ![w] = "check"]
        BY <3>1, <3>3 DEF Expire, NoneDue
      <4> QED
        BY <1>8, <3>2, <4>1 DEF Test
    <3>4. CASE pc'[w] # "check"
      <4>1. PICK t \in 0 .. Never : NoneDue(t, P) /\ Go(w, "block")
                                    /\ until' = [until EXCEPT ![w] = t]
        BY <3>1, <3>4
      <4>2. heap' \subseteq heap /\ \A j \in heap' : t <= j.tp
        BY <4>1, NoneDueLeaves
      <4> QED
        BY <1>8, <3>2, <4>1, <4>2 DEF Test
    <3> QED
      BY <3>3, <3>4
  <2> QED
    BY <2>1, <2>2
<1>9. ASSUME NEW w \in Workers, Block(w)
     PROVE  WaitsForFront'
  <2>1. pc[w] = "block" /\ pc' = [pc EXCEPT ![w] = "waiting"]
        /\ notified' = notified \ {w} /\ until' = until /\ heap' = heap
    BY <1>9 DEF Block
  <2>2. \A v \in Workers : v # w => pc'[v] = pc[v] /\ (v \notin notified' => v \notin notified)
    BY <2>1
  <2>3. \A i \in heap : until[w] <= i.tp
    BY <2>1
  <2> QED
    BY ONLY SchedulerInv, <2>1, <2>2, <2>3 DEF SchedulerInv, WaitsForFront
<1>10. ASSUME NEW w \in Workers, StopCallback(w)
     PROVE  WaitsForFront'
  BY <1>10 DEF StopCallback, Notify
<1>11. ASSUME NEW w \in Workers, WakeUp(w)
     PROVE  WaitsForFront'
  BY <1>11 DEF WakeUp
<1>12. ASSUME NEW w \in Workers, PoolStopped(w)
     PROVE  WaitsForFront'
  BY <1>12 DEF PoolStopped, End
<1>13. ASSUME NEW w \in Workers, RequestStop(w)
     PROVE  WaitsForFront'
  BY <1>13 DEF RequestStop
<1>14. ASSUME NEW w \in Workers, Enqueue(w)
     PROVE  WaitsForFront'
  BY <1>14 DEF Enqueue
<1>15. ASSUME NEW w \in Workers, RunOther(w)
     PROVE  WaitsForFront'
  BY <1>15 DEF RunOther
<1>16. ASSUME NEW w \in Workers, NEW s \in Sleeps, RunReady(w, s)
     PROVE  WaitsForFront'
  BY <1>16 DEF RunReady
<1>17. ASSUME Destroy
     PROVE  WaitsForFront'
  BY <1>17 DEF Destroy
<1>18. ASSUME Tick
     PROVE  WaitsForFront'
  BY <1>18 DEF Tick
<1>19. ASSUME NEW w \in Workers, PoolStops(w)
     PROVE  WaitsForFront'
  BY <1>19 DEF PoolStops
<1>20. CASE UNCHANGED schedulerVars
  BY <1>20 DEF schedulerVars
<1> QED
  BY <1>1, <1>2, <1>3, <1>4, <1>5, <1>6, <1>7, <1>8, <1>9, <1>10, <1>11, <1>12, <1>13, <1>14,
     <1>15, <1>16, <1>17, <1>18, <1>19, <1>20 DEF SchedulerNext, Client, SleepUntil, Work, Woken

\* What is popped has no promise, or it is taken.
LEMMA PromiseStep == SchedulerTypeOK /\ PromisesStay /\ [SchedulerNext]_schedulerVars => PromisesStay'
<1> SUFFICES ASSUME SchedulerTypeOK /\ PromisesStay, [SchedulerNext]_schedulerVars
             PROVE  PromisesStay'
  OBVIOUS
<1> USE WorkersAssumption, MaxTimeAssumption DEF Go, At, Become, queues, items, sleepers,
     stops, SchedulerTypeOK, PromisesStay
<1>1. ASSUME NEW s \in Sleeps, NEW t \in Time, NEW id \in Idents \cup {NoOne}, Schedule(s, t,
      id)
     PROVE  PromisesStay'
  <2>1. heap \subseteq heap' /\ [sleep |-> s, tp |-> t, ident |-> id] \in heap'
    BY <1>1 DEF Schedule
  <2>2. \A r \in Sleeps : r # s => st'[r] = st[r]
    BY <1>1 DEF Schedule
  <2> QED
    BY <2>1, <2>2
<1>2. ASSUME NEW id \in Idents, Remove(id)
     PROVE  PromisesStay'
  <2> SUFFICES ASSUME NEW s \in Sleeps, st'[s] = "scheduled"
               PROVE  \E i \in heap' : i.sleep = s
    OBVIOUS
  <2>1. PICK P \in SUBSET {i \in Emptied : i.ident = id} :
          \/ heap' = heap \ P /\ UNCHANGED st
          \/ \E i \in heap : Live(i) /\ st' = [st EXCEPT ![i.sleep] = "removed"]
                             /\ (heap' = heap \ P \/ heap' = (heap \ P) \ {i})
    BY <1>2 DEF Remove, Front
  <2>2. st[s] = "scheduled"
    BY <2>1, ItemIsTyped
  <2>3. PICK j \in heap : j.sleep = s
    BY <2>2
  <2>4. j \notin P
    BY <2>1, <2>2, <2>3 DEF Emptied, Live
  <2>5. j \in heap'
    BY <2>1, <2>3, <2>4, ItemIsTyped
  <2> QED
    BY <2>3, <2>5
<1>3. ASSUME NEW s \in Sleeps, Resolve(s)
     PROVE  PromisesStay'
  BY <1>3 DEF Resolve
<1>4. ASSUME GetExpired
     PROVE  PromisesStay'
  <2> SUFFICES ASSUME NEW s \in Sleeps, st'[s] = "scheduled"
               PROVE  \E i \in heap' : i.sleep = s
    OBVIOUS
  <2>1. PICK P \in SUBSET Emptied :
          \/ heap' = heap \ P /\ UNCHANGED st
          \/ \E i \in heap : Live(i) /\ st' = [st EXCEPT ![i.sleep] = "taken"]
                             /\ heap' = heap \ (P \cup {i})
    BY <1>4 DEF GetExpired, Expire, NoneDue
  <2>2. st[s] = "scheduled"
    BY <2>1, ItemIsTyped
  <2>3. PICK j \in heap : j.sleep = s
    BY <2>2
  <2>4. j \notin P
    BY <2>1, <2>2, <2>3 DEF Emptied, Live
  <2>5. j \in heap'
    BY <2>1, <2>3, <2>4, ItemIsTyped
  <2> QED
    BY <2>3, <2>5
<1>5. ASSUME NEW w \in Workers, Start(w)
     PROVE  PromisesStay'
  BY <1>5 DEF Start
<1>6. ASSUME NEW w \in Workers, Check(w)
     PROVE  PromisesStay'
  BY <1>6 DEF Check, End
<1>7. ASSUME NEW w \in Workers, Resume(w)
     PROVE  PromisesStay'
  BY <1>7 DEF Resume
<1>8. ASSUME NEW w \in Workers, Test(w)
     PROVE  PromisesStay'
  <2> SUFFICES ASSUME NEW s \in Sleeps, st'[s] = "scheduled"
               PROVE  \E i \in heap' : i.sleep = s
    OBVIOUS
  <2>1. PICK P \in SUBSET Emptied :
          \/ UNCHANGED <<heap, st>>
          \/ heap' = heap \ P /\ UNCHANGED st
          \/ \E i \in heap, what \in {"woken", "lost"} :
                /\ Live(i)
                /\ st' = [st EXCEPT ![i.sleep] = what]
                /\ heap' = heap \ (P \cup {i})
    <3>1. CASE w \in stop
      BY <1>8, <3>1 DEF Test
    <3>2. CASE w \notin stop
      <4>1. PICK P \in SUBSET Emptied : Tested(w, P)
        BY <1>8, <3>2, TestCases
      <4>2. CASE \E i \in heap : Expire(i, P) /\ Wake(w, i.sleep)
        BY <4>2 DEF Expire, Wake
      <4>3. CASE \E t \in 0 .. Never : NoneDue(t, P) /\ UNCHANGED st
        BY <4>3 DEF NoneDue
      <4> QED
        BY <4>1, <4>2, <4>3 DEF Tested
    <3> QED
      BY <3>1, <3>2
  <2>2. st[s] = "scheduled"
    BY <2>1, ItemIsTyped
  <2>3. PICK j \in heap : j.sleep = s
    BY <2>2
  <2>4. j \notin P
    BY <2>1, <2>2, <2>3 DEF Emptied, Live
  <2>5. j \in heap'
    BY <2>1, <2>3, <2>4, ItemIsTyped
  <2> QED
    BY <2>3, <2>5
<1>9. ASSUME NEW w \in Workers, Block(w)
     PROVE  PromisesStay'
  BY <1>9 DEF Block
<1>10. ASSUME NEW w \in Workers, StopCallback(w)
     PROVE  PromisesStay'
  BY <1>10 DEF StopCallback, Notify
<1>11. ASSUME NEW w \in Workers, WakeUp(w)
     PROVE  PromisesStay'
  BY <1>11 DEF WakeUp
<1>12. ASSUME NEW w \in Workers, PoolStopped(w)
     PROVE  PromisesStay'
  BY <1>12 DEF PoolStopped, End
<1>13. ASSUME NEW w \in Workers, RequestStop(w)
     PROVE  PromisesStay'
  BY <1>13 DEF RequestStop
<1>14. ASSUME NEW w \in Workers, Enqueue(w)
     PROVE  PromisesStay'
  BY <1>14 DEF Enqueue
<1>15. ASSUME NEW w \in Workers, RunOther(w)
     PROVE  PromisesStay'
  BY <1>15 DEF RunOther
<1>16. ASSUME NEW w \in Workers, NEW s \in Sleeps, RunReady(w, s)
     PROVE  PromisesStay'
  BY <1>16 DEF RunReady
<1>17. ASSUME Destroy
     PROVE  PromisesStay'
  BY <1>17 DEF Destroy
<1>18. ASSUME Tick
     PROVE  PromisesStay'
  BY <1>18 DEF Tick
<1>19. ASSUME NEW w \in Workers, PoolStops(w)
     PROVE  PromisesStay'
  BY <1>19 DEF PoolStops
<1>20. CASE UNCHANGED schedulerVars
  BY <1>20 DEF schedulerVars
<1> QED
  BY <1>1, <1>2, <1>3, <1>4, <1>5, <1>6, <1>7, <1>8, <1>9, <1>10, <1>11, <1>12, <1>13, <1>14,
     <1>15, <1>16, <1>17, <1>18, <1>19, <1>20 DEF SchedulerNext, Client, SleepUntil, Work, Woken

\* What is woken enters the queue of one worker, and leaves it when it is resumed or lost.
LEMMA AwakeStep ==
    SchedulerTypeOK /\ AwakeOnce /\ [SchedulerNext]_schedulerVars => AwakeOnce'
<1> SUFFICES ASSUME SchedulerTypeOK, AwakeOnce, [SchedulerNext]_schedulerVars
             PROVE  AwakeOnce'
  OBVIOUS
<1> USE DEF Go, At, Become, queues, items, sleepers, stops, SchedulerTypeOK, AwakeOnce
<1>1. ASSUME NEW s \in Sleeps, NEW t \in Time, NEW id \in Idents \cup {NoOne}, Schedule(s, t,
      id)
     PROVE  AwakeOnce'
  BY <1>1 DEF Schedule
<1>2. ASSUME NEW id \in Idents, Remove(id)
     PROVE  AwakeOnce'
  <2>1. awake' = awake /\ (st' = st \/ \E i \in heap : Live(i) /\ Become(i.sleep, "removed"))
    BY <1>2 DEF Remove, Front
  <2> QED
    BY <2>1, ItemIsTyped DEF Live
<1>3. ASSUME NEW s \in Sleeps, Resolve(s)
     PROVE  AwakeOnce'
  BY <1>3 DEF Resolve
<1>4. ASSUME GetExpired
     PROVE  AwakeOnce'
  <2>1. awake' = awake /\ (st' = st \/ \E i \in heap : Live(i) /\ Become(i.sleep, "taken"))
    BY <1>4 DEF GetExpired, Expire
  <2> QED
    BY <2>1, ItemIsTyped DEF Live
<1>5. ASSUME NEW w \in Workers, Test(w)
     PROVE  AwakeOnce'
  <2>1. CASE w \in stop
    BY <1>5, <2>1 DEF Test
  <2>2. CASE w \notin stop
    <3>1. PICK P \in SUBSET Emptied : Tested(w, P)
      BY <1>5, <2>2, TestCases
    <3>2. CASE st' = st /\ awake' = awake
      BY <3>2
    <3>3. CASE \E i \in heap : Live(i) /\ Wake(w, i.sleep)
      <4>1. PICK i \in heap : Live(i) /\ Wake(w, i.sleep)
        BY <3>3
      <4>2. i.sleep \in Sleeps /\ st[i.sleep] = "scheduled"
        BY <4>1, ItemIsTyped DEF Live
      <4>3. \A v \in Workers : i.sleep \notin awake[v]
        BY <4>2
      <4> QED
        BY <4>1, <4>2, <4>3 DEF Wake
    <3> QED
      BY <3>1, <3>2, <3>3 DEF Tested, Expire
  <2> QED
    BY <2>1, <2>2
<1>6. ASSUME NEW w \in Workers, NEW s \in Sleeps, RunReady(w, s)
     PROVE  AwakeOnce'
  BY <1>6 DEF RunReady
<1>7. ASSUME NEW w \in Workers, PoolStops(w)
     PROVE  AwakeOnce'
  <2>1. /\ st' = [s \in Sleeps |-> IF s \in awake[w] THEN "lost" ELSE st[s]]
        /\ awake' = [awake EXCEPT ![w] = {}]
    BY <1>7 DEF PoolStops
  <2> QED
    BY <2>1
<1>8. ASSUME Destroy
     PROVE  AwakeOnce'
  BY <1>8 DEF Destroy
<1>9. CASE UNCHANGED <<st, awake>>
  BY <1>9
<1> QED
  BY <1>1, <1>2, <1>3, <1>4, <1>5, <1>6, <1>7, <1>8, <1>9
     DEF SchedulerNext, Client, SleepUntil, Work, Woken, schedulerVars, Start, Check, Resume,
         Block, StopCallback, WakeUp, PoolStopped, RequestStop, Enqueue, RunOther, Tick

-----------------------------------------------------------------------------

(* Theorems *)

\* The invariant holds, and promises stay where they belong, whatever is cancelled again
\* and whichever pool is stopped.
LEMMA SchedulerInvariant == SchedulerSpec => [](SchedulerInv /\ PromisesStay /\ AwakeOnce)
<1>1. SchedulerInv /\ PromisesStay /\ AwakeOnce /\ [SchedulerNext]_schedulerVars
        => (SchedulerInv /\ PromisesStay /\ AwakeOnce)'
  BY SchedulerTypeStep, MutexStep, FrontStep, PromiseStep, AwakeStep DEF SchedulerInv
<1> QED
  BY SchedulerStart, <1>1, PTL DEF SchedulerSpec

\* For any number of sleeps and workers: none of the workers waits past the earliest sleep
\* unless it was notified.
THEOREM WokenInTime == SchedulerSpec => []NoOversleep
<1>1. SchedulerInv => NoOversleep
  BY DEF SchedulerInv, WaitsForFront, NoOversleep, At
<1> QED
  BY SchedulerInvariant, <1>1, PTL

\* The heap is never popped with a promise in its item, and no coroutine that was woken is
\* forgotten or queued twice: whatever is scheduled, and neither due nor cancelled, is in the
\* heap, and what is due and not yet resumed in the queue of one thread or pool.
THEOREM PromisesInHeap == SchedulerSpec => []NoPromiseLost
<1>1. PromisesStay /\ AwakeOnce => NoPromiseLost
  BY DEF PromisesStay, AwakeOnce, NoPromiseLost
<1> QED
  BY SchedulerInvariant, <1>1, PTL
==============================================================================
