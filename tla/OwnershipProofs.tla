---------------------------- MODULE OwnershipProofs -------------------------
(***************************************************************************)
(* Who owns what, for any number of objects: promises with a default       *)
(* value, awaiters that call a function, futures that share their state,   *)
(* the frames of coroutines in their storages, and the handles in a        *)
(* suspend_point.                                                          *)
(***************************************************************************)
EXTENDS Defaults, Callbacks, SharedFuture, Storage, HandleArray,
        SequenceTheorems, FiniteSetTheorems, TLAPS

(* Promises with a default value *)

\* The default of the future that a promise has is with it, unless an assignment left it
\* behind.
Backed == \A h \in Holders :
    holds[h] \in Owed => \/ def[h] = holds[h]
                         \/ holds[h] \in moved
                         \/ holds[h] \in bare /\ def[h] = "unspecified"

DefaultsInv == DefaultsTypeOK /\ Backed /\ DefaultReaches

\* At first nobody has a promise.
LEMMA DefaultsStart == DefaultsInit => DefaultsInv
  BY OwedAssumption DEF DefaultsInit, DefaultsInv, DefaultsTypeOK, Backed, DefaultReaches,
     Default

\* The types of the promises.
LEMMA DefaultsTypeStep == DefaultsTypeOK /\ [DefaultsNext]_defaultVars => DefaultsTypeOK'
<1> SUFFICES ASSUME DefaultsTypeOK, [DefaultsNext]_defaultVars
             PROVE  DefaultsTypeOK'
  OBVIOUS
<1> USE OwedAssumption DEF DefaultsTypeOK, Default
<1>1. ASSUME NEW h \in Holders, NEW f \in Owed, HoldDefault(h, f)
     PROVE  DefaultsTypeOK'
  BY <1>1 DEF HoldDefault
<1>2. ASSUME NEW h \in Holders, CallHolder(h)
     PROVE  DefaultsTypeOK'
  BY <1>2 DEF CallHolder, ResolvedTo, ClaimedBy
<1>3. ASSUME NEW h \in Holders, AssignTakes(h)
     PROVE  DefaultsTypeOK'
  BY <1>3 DEF AssignTakes, ClaimedBy, AfterMove
<1>4. ASSUME NEW h \in Holders, DestroyHolder(h)
     PROVE  DefaultsTypeOK'
  BY <1>4 DEF DestroyHolder, ResolvedTo, ClaimedBy, DefaultOf, Quiet
<1>5. ASSUME NEW g \in Holders, NEW h \in Holders, MoveHolder(g, h)
     PROVE  DefaultsTypeOK'
  BY <1>5 DEF MoveHolder, AfterMove, Quiet
<1>6. ASSUME NEW g \in Holders, NEW h \in Holders, AssignDrops(g, h)
     PROVE  DefaultsTypeOK'
  BY <1>6 DEF AssignDrops, ResolvedTo, ClaimedBy, Quiet
<1>7. CASE UNCHANGED defaultVars
  BY <1>7 DEF defaultVars
<1> QED
  BY <1>1, <1>2, <1>3, <1>4, <1>5, <1>6, <1>7 DEF DefaultsNext

\* A default goes where the future goes.
LEMMA BackedStep == DefaultsTypeOK /\ Backed /\ [DefaultsNext]_defaultVars => Backed'
<1> SUFFICES ASSUME DefaultsTypeOK /\ Backed, [DefaultsNext]_defaultVars
             PROVE  Backed'
  OBVIOUS
<1> USE OwedAssumption DEF DefaultsTypeOK, Default, Backed
<1>1. ASSUME NEW h \in Holders, NEW f \in Owed, HoldDefault(h, f)
     PROVE  Backed'
  BY <1>1 DEF HoldDefault
<1>2. ASSUME NEW h \in Holders, CallHolder(h)
     PROVE  Backed'
  BY <1>2 DEF CallHolder, ResolvedTo, ClaimedBy
<1>3. ASSUME NEW h \in Holders, AssignTakes(h)
     PROVE  Backed'
  BY <1>3 DEF AssignTakes, ClaimedBy, AfterMove
<1>4. ASSUME NEW h \in Holders, DestroyHolder(h)
     PROVE  Backed'
  BY <1>4 DEF DestroyHolder, ResolvedTo, ClaimedBy, DefaultOf, Quiet
<1>5. ASSUME NEW g \in Holders, NEW h \in Holders, MoveHolder(g, h)
     PROVE  Backed'
  BY <1>5 DEF MoveHolder, AfterMove, Quiet
<1>6. ASSUME NEW g \in Holders, NEW h \in Holders, AssignDrops(g, h)
     PROVE  Backed'
  BY <1>6 DEF AssignDrops, ResolvedTo, ClaimedBy, Quiet
<1>7. CASE UNCHANGED defaultVars
  BY <1>7 DEF defaultVars
<1> QED
  BY <1>1, <1>2, <1>3, <1>4, <1>5, <1>6, <1>7 DEF DefaultsNext

\* What the destructor calls the promise with is the default of the future.
LEMMA ReachesStep == DefaultsInv /\ [DefaultsNext]_defaultVars => DefaultReaches'
<1> SUFFICES ASSUME DefaultsInv, [DefaultsNext]_defaultVars
             PROVE  DefaultReaches'
  OBVIOUS
<1> USE OwedAssumption DEF DefaultsInv, DefaultsTypeOK, Default, Backed, DefaultReaches
<1>1. ASSUME NEW h \in Holders, NEW f \in Owed, HoldDefault(h, f)
     PROVE  DefaultReaches'
  BY <1>1 DEF HoldDefault
<1>2. ASSUME NEW h \in Holders, CallHolder(h)
     PROVE  DefaultReaches'
  BY <1>2 DEF CallHolder, ResolvedTo, ClaimedBy
<1>3. ASSUME NEW h \in Holders, AssignTakes(h)
     PROVE  DefaultReaches'
  BY <1>3 DEF AssignTakes, ClaimedBy, AfterMove
<1>4. ASSUME NEW h \in Holders, DestroyHolder(h)
     PROVE  DefaultReaches'
  BY <1>4 DEF DestroyHolder, ResolvedTo, ClaimedBy, DefaultOf, Quiet
<1>5. ASSUME NEW g \in Holders, NEW h \in Holders, MoveHolder(g, h)
     PROVE  DefaultReaches'
  BY <1>5 DEF MoveHolder, AfterMove, Quiet
<1>6. ASSUME NEW g \in Holders, NEW h \in Holders, AssignDrops(g, h)
     PROVE  DefaultReaches'
  BY <1>6 DEF AssignDrops, ResolvedTo, ClaimedBy, Quiet
<1>7. CASE UNCHANGED defaultVars
  BY <1>7 DEF defaultVars
<1> QED
  BY <1>1, <1>2, <1>3, <1>4, <1>5, <1>6, <1>7 DEF DefaultsNext

\* However many promises are moved, assigned, called and destroyed by however many owners,
\* a future that one of them had gets a value, its own default or, after an assignment,
\* another; one whose promise was made without a default may get an unspecified one, and
\* only an assignment drops one.
THEOREM DefaultsReach == DefaultsSpec => []DefaultReaches
<1>1. DefaultsInv /\ [DefaultsNext]_defaultVars => DefaultsInv'
  BY DefaultsTypeStep, BackedStep, ReachesStep DEF DefaultsInv
<1>2. DefaultsInv => DefaultReaches
  BY DEF DefaultsInv
<1> QED
  BY DefaultsStart, <1>1, <1>2, PTL DEF DefaultsSpec

-----------------------------------------------------------------------------
(* Awaiters that call a function *)

\* Who is going to delete each object, and whether somebody did.
DiscardStages == \A d \in Discarded :
    /\ dsub[d] => dfut[d] = "pending" /\ dpc[d] \in {"linked", "returned"}
    /\ dpc[d] = "none" => dfut[d] = "none"
    /\ dpc[d] # "none" => dfut[d] # "none"
    /\ dpc[d] \in {"none", "constructing", "refused"} => deletes[d] = 0
    /\ dpc[d] = "refused" => dfut[d] = "ready"
    /\ dfut[d] = "pending" => deletes[d] = 0
    /\ dfut[d] = "pending" /\ dpc[d] \in {"linked", "returned"} => dsub[d]
    /\ dfut[d] = "ready" /\ dpc[d] \in {"linked", "returned"} => deletes[d] = 1

\* Every start is due one call.
AwaiterStages ==
    /\ csub => cfut = "pending" /\ cpc = "out"
    /\ cpc = "refused" => cfut = "ready"
    /\ cpc = "subscribing" => cfut # "none"
    /\ starts = IF csub \/ cpc # "out" THEN called + 1 ELSE called
    /\ cfut = "pending" /\ cpc = "out" => csub

CallbacksInv == CallbacksTypeOK /\ DiscardStages /\ AwaiterStages

\* At first no object exists, and no start was made.
LEMMA CallbacksStart == CallbacksInit => CallbacksInv
<1> SUFFICES ASSUME CallbacksInit
             PROVE  CallbacksInv
  OBVIOUS
<1>1. CallbacksTypeOK
  <2>1. dsub \in [Discarded -> BOOLEAN] /\ csub \in BOOLEAN
    BY DEF CallbacksInit
  <2>2. /\ dfut \in [Discarded -> {"none", "pending", "ready"}]
        /\ dpc \in [Discarded -> {"none", "constructing", "linked", "refused", "returned"}]
    BY DEF CallbacksInit
  <2>3. deletes \in [Discarded -> 0 .. 2]
    BY DEF CallbacksInit
  <2>4. /\ cfut \in {"none", "pending", "ready"} /\ cpc \in {"out", "subscribing", "refused"}
        /\ starts \in 0 .. MaxStarts /\ called \in 0 .. MaxStarts + 1
    BY MaxStartsAssumption DEF CallbacksInit
  <2> QED
    BY <2>1, <2>2, <2>3, <2>4 DEF CallbacksTypeOK
<1>2. DiscardStages
  BY DEF CallbacksInit, DiscardStages
<1>3. AwaiterStages
  BY DEF CallbacksInit, AwaiterStages
<1> QED
  BY <1>1, <1>2, <1>3 DEF CallbacksInv

\* The object is deleted by whoever resolves the future, or by its maker.
LEMMA DiscardStep == CallbacksTypeOK /\ DiscardStages /\ [CallbacksNext]_callbackVars
      => DiscardStages'
<1> SUFFICES ASSUME CallbacksTypeOK /\ DiscardStages, [CallbacksNext]_callbackVars
             PROVE  DiscardStages'
  OBVIOUS
<1> USE DEF CallbacksTypeOK, DiscardStages, discards, awaiterVars
<1>1. ASSUME NEW d \in Discarded, Discard(d)
     PROVE  DiscardStages'
  BY <1>1 DEF Discard
<1>2. ASSUME NEW d \in Discarded, DiscardSubscribes(d)
     PROVE  DiscardStages'
  <2>1. /\ dpc[d] = "constructing" /\ dsub' = [dsub EXCEPT ![d] = (dfut[d] = "pending")]
        /\ dpc' = [dpc EXCEPT ![d] = IF dfut[d] = "pending" THEN "linked" ELSE "refused"]
        /\ dfut' = dfut /\ deletes' = deletes
    BY <1>2 DEF DiscardSubscribes
  <2>2. CASE dfut[d] = "pending"
    BY <2>1, <2>2
  <2>3. CASE dfut[d] # "pending"
    BY <2>1, <2>3
  <2> QED
    BY <2>2, <2>3
<1>3. ASSUME NEW d \in Discarded, DiscardResolved(d)
     PROVE  DiscardStages'
  BY <1>3 DEF DiscardResolved
<1>4. ASSUME NEW d \in Discarded, DiscardReturns(d)
     PROVE  DiscardStages'
  BY <1>4 DEF DiscardReturns
<1>5. ASSUME StartAwaiter
     PROVE  DiscardStages'
  BY <1>5 DEF StartAwaiter
<1>6. ASSUME AwaiterSubscribes
     PROVE  DiscardStages'
  BY <1>6 DEF AwaiterSubscribes
<1>7. ASSUME AwaiterResumes
     PROVE  DiscardStages'
  BY <1>7 DEF AwaiterResumes
<1>8. ASSUME AwaiterResolved
     PROVE  DiscardStages'
  BY <1>8 DEF AwaiterResolved
<1>9. CASE UNCHANGED callbackVars
  BY <1>9 DEF callbackVars
<1> QED
  BY <1>1, <1>2, <1>3, <1>4, <1>5, <1>6, <1>7, <1>8, <1>9 DEF CallbacksNext

\* The function is called by whoever resolves the future, or by operator<<.
LEMMA AwaiterStep == CallbacksTypeOK /\ AwaiterStages /\ [CallbacksNext]_callbackVars
      => AwaiterStages'
<1> SUFFICES ASSUME CallbacksTypeOK /\ AwaiterStages, [CallbacksNext]_callbackVars
             PROVE  AwaiterStages'
  OBVIOUS
<1> USE MaxStartsAssumption DEF CallbacksTypeOK, AwaiterStages, discards, awaiterVars
<1>1. ASSUME NEW d \in Discarded, Discard(d)
     PROVE  AwaiterStages'
  BY <1>1 DEF Discard
<1>2. ASSUME NEW d \in Discarded, DiscardSubscribes(d)
     PROVE  AwaiterStages'
  BY <1>2 DEF DiscardSubscribes
<1>3. ASSUME NEW d \in Discarded, DiscardResolved(d)
     PROVE  AwaiterStages'
  BY <1>3 DEF DiscardResolved
<1>4. ASSUME NEW d \in Discarded, DiscardReturns(d)
     PROVE  AwaiterStages'
  BY <1>4 DEF DiscardReturns
<1>5. ASSUME StartAwaiter
     PROVE  AwaiterStages'
  BY <1>5 DEF StartAwaiter
<1>6. ASSUME AwaiterSubscribes
     PROVE  AwaiterStages'
  BY <1>6 DEF AwaiterSubscribes
<1>7. ASSUME AwaiterResumes
     PROVE  AwaiterStages'
  BY <1>7 DEF AwaiterResumes
<1>8. ASSUME AwaiterResolved
     PROVE  AwaiterStages'
  BY <1>8 DEF AwaiterResolved
<1>9. CASE UNCHANGED callbackVars
  BY <1>9 DEF callbackVars
<1> QED
  BY <1>1, <1>2, <1>3, <1>4, <1>5, <1>6, <1>7, <1>8, <1>9 DEF CallbacksNext

\* The counters stay in their range because nothing is done twice.
LEMMA CallbacksTypeStep == CallbacksInv /\ [CallbacksNext]_callbackVars => CallbacksTypeOK'
<1> SUFFICES ASSUME CallbacksInv, [CallbacksNext]_callbackVars
             PROVE  CallbacksTypeOK'
  OBVIOUS
<1> USE MaxStartsAssumption DEF CallbacksInv, CallbacksTypeOK, discards, awaiterVars
<1>1. ASSUME NEW d \in Discarded, Discard(d)
     PROVE  CallbacksTypeOK'
  BY <1>1 DEF Discard
<1>2. ASSUME NEW d \in Discarded, DiscardSubscribes(d)
     PROVE  CallbacksTypeOK'
  BY <1>2 DEF DiscardSubscribes
<1>3. ASSUME NEW d \in Discarded, DiscardResolved(d)
     PROVE  CallbacksTypeOK'
  <2>1. deletes' \in [Discarded -> 0 .. 2]
    BY <1>3 DEF DiscardResolved, DiscardStages
  <2> QED
    BY <1>3, <2>1 DEF DiscardResolved
<1>4. ASSUME NEW d \in Discarded, DiscardReturns(d)
     PROVE  CallbacksTypeOK'
  <2>1. deletes' \in [Discarded -> 0 .. 2]
    BY <1>4 DEF DiscardReturns, DiscardStages
  <2> QED
    BY <1>4, <2>1 DEF DiscardReturns
<1>5. ASSUME StartAwaiter
     PROVE  CallbacksTypeOK'
  BY <1>5 DEF StartAwaiter
<1>6. ASSUME AwaiterSubscribes
     PROVE  CallbacksTypeOK'
  BY <1>6 DEF AwaiterSubscribes
<1>7. ASSUME AwaiterResumes
     PROVE  CallbacksTypeOK'
  <2>1. called' \in 0 .. MaxStarts + 1
    BY <1>7 DEF AwaiterResumes, AwaiterStages
  <2> QED
    BY <1>7, <2>1 DEF AwaiterResumes
<1>8. ASSUME AwaiterResolved
     PROVE  CallbacksTypeOK'
  <2>1. called' \in 0 .. MaxStarts + 1
    BY <1>8 DEF AwaiterResolved, AwaiterStages
  <2> QED
    BY <1>8, <2>1 DEF AwaiterResolved
<1>9. CASE UNCHANGED callbackVars
  BY <1>9 DEF callbackVars
<1> QED
  BY <1>1, <1>2, <1>3, <1>4, <1>5, <1>6, <1>7, <1>8, <1>9 DEF CallbacksNext

\* For any number of calls of discard(), and of uses of a call_fn_future_awaiter, in any
\* order of resolving and subscribing: each object is deleted once, each start is answered
\* by one call.
THEOREM CalledBackOnce == CallbacksSpec => []CallbackOnce
<1>1. CallbacksInv /\ [CallbacksNext]_callbackVars => CallbacksInv'
  BY CallbacksTypeStep, DiscardStep, AwaiterStep DEF CallbacksInv
<1>2. CallbacksInv => CallbackOnce
  <2> SUFFICES ASSUME CallbacksInv
               PROVE  CallbackOnce
    OBVIOUS
  <2> USE MaxStartsAssumption DEF CallbacksInv, CallbacksTypeOK
  <2>1. ASSUME NEW d \in Discarded
        PROVE  /\ deletes[d] <= 1
               /\ dpc[d] = "returned" /\ dfut[d] = "ready" => deletes[d] = 1
               /\ dpc[d] = "constructing" => deletes[d] = 0
    BY DEF DiscardStages
  <2>2. called <= starts /\ (cpc = "out" /\ cfut = "ready" => called = starts)
    BY DEF AwaiterStages
  <2> QED
    BY <2>1, <2>2 DEF CallbackOnce
<1> QED
  BY CallbacksStart, <1>1, <1>2, PTL DEF CallbacksSpec

-----------------------------------------------------------------------------
(* Shared futures *)

\* A reference that a future has to itself is given up by its tracer only, and by the call
\* that has not subscribed it.
Charged ==
    /\ \A h \in Handles : charging[h] # "no" => at[h] \in Shared
    /\ \A h \in Handles : at[h] \in Shared => state[at[h]] \in {"pending", "ready"}
    /\ \A o \in Shared : state[o] = "unborn" =>
        tracer[o] = "off" /\ ~keeps[o] /\ o \notin promised \cup restarted
    /\ \A o \in Shared : state[o] = "pending" => o \in promised
    /\ \A h \in Handles : charging[h] = "subscribe" => keeps[at[h]] /\ tracer[at[h]] = "off"
    /\ \A h, g \in Handles : charging[h] # "no" /\ charging[g] # "no" /\ at[h] = at[g] => h = g
    /\ \A h \in Handles : charging[h] = "charge" => ~keeps[at[h]] /\ tracer[at[h]] = "off"
    /\ \A o \in Shared : tracer[o] = "detached" => state[o] # "pending" \/ o \in restarted

SharedInv == SharedTypeOK /\ Charged /\ PendingKept

\* At first no future exists.
LEMMA SharedStart == SharedInit => SharedInv
  BY SharedAssumption DEF SharedInit, SharedInv, SharedTypeOK, Charged, PendingKept

\* The types of handles and futures.
LEMMA SharedTypeStep == SharedTypeOK /\ [SharedNext]_sharedVars => SharedTypeOK'
<1> SUFFICES ASSUME SharedTypeOK, [SharedNext]_sharedVars
             PROVE  SharedTypeOK'
  OBVIOUS
<1> USE SharedAssumption DEF SharedTypeOK
<1>1. ASSUME NEW h \in Handles, NEW o \in Shared, NEW s \in {"pending", "ready"}, Construct(h,
      o, s)
     PROVE  SharedTypeOK'
  BY <1>1 DEF Construct
<1>2. ASSUME NEW h \in Handles, NEW o \in Shared, get_promise(h, o)
     PROVE  SharedTypeOK'
  BY <1>2 DEF get_promise, Users
<1>3. ASSUME NEW h \in Handles, Charge(h)
     PROVE  SharedTypeOK'
  BY <1>3 DEF Charge
<1>4. ASSUME NEW h \in Handles, NotCharged(h)
     PROVE  SharedTypeOK'
  BY <1>4 DEF NotCharged
<1>5. ASSUME NEW h \in Handles, SubscribeTracer(h)
     PROVE  SharedTypeOK'
  BY <1>5 DEF SubscribeTracer
<1>6. ASSUME NEW h \in Handles, Reset(h)
     PROVE  SharedTypeOK'
  BY <1>6 DEF Reset, Destroyed, Users
<1>7. ASSUME NEW h \in Handles, Restart(h)
     PROVE  SharedTypeOK'
  BY <1>7 DEF Restart
<1>8. ASSUME NEW h \in Handles, NEW g \in Handles, Copy(h, g)
     PROVE  SharedTypeOK'
  BY <1>8 DEF Copy
<1>9. ASSUME NEW o \in Shared, ResolveShared(o)
     PROVE  SharedTypeOK'
  BY <1>9 DEF ResolveShared
<1>10. ASSUME NEW o \in Shared, ResumeTracer(o)
     PROVE  SharedTypeOK'
  BY <1>10 DEF ResumeTracer, Destroyed, Users
<1>11. CASE UNCHANGED sharedVars
  BY <1>11 DEF sharedVars
<1> QED
  BY <1>1, <1>2, <1>3, <1>4, <1>5, <1>6, <1>7, <1>8, <1>9, <1>10, <1>11 DEF SharedNext

\* The reference is taken before the tracer is subscribed, and given up after.
LEMMA ChargedStep == SharedInv /\ [SharedNext]_sharedVars => Charged'
<1> SUFFICES ASSUME SharedInv, [SharedNext]_sharedVars
             PROVE  Charged'
  OBVIOUS
<1> USE SharedAssumption DEF SharedInv, SharedTypeOK, Charged, PendingKept
<1>1. ASSUME NEW h \in Handles, NEW o \in Shared, NEW s \in {"pending", "ready"}, Construct(h,
      o, s)
     PROVE  Charged'
  BY <1>1 DEF Construct
<1>2. ASSUME NEW h \in Handles, NEW o \in Shared, get_promise(h, o)
     PROVE  Charged'
  BY <1>2 DEF get_promise, Users
<1>3. ASSUME NEW h \in Handles, Charge(h)
     PROVE  Charged'
  BY <1>3 DEF Charge
<1>4. ASSUME NEW h \in Handles, NotCharged(h)
     PROVE  Charged'
  BY <1>4 DEF NotCharged
<1>5. ASSUME NEW h \in Handles, SubscribeTracer(h)
     PROVE  Charged'
  BY <1>5 DEF SubscribeTracer
<1>6. ASSUME NEW h \in Handles, Reset(h)
     PROVE  Charged'
  BY <1>6 DEF Reset, Destroyed, Users
<1>7. ASSUME NEW h \in Handles, Restart(h)
     PROVE  Charged'
  BY <1>7 DEF Restart
<1>8. ASSUME NEW h \in Handles, NEW g \in Handles, Copy(h, g)
     PROVE  Charged'
  BY <1>8 DEF Copy
<1>9. ASSUME NEW o \in Shared, ResolveShared(o)
     PROVE  Charged'
  BY <1>9 DEF ResolveShared
<1>10. ASSUME NEW o \in Shared, ResumeTracer(o)
     PROVE  Charged'
  BY <1>10 DEF ResumeTracer, Destroyed, Users
<1>11. CASE UNCHANGED sharedVars
  BY <1>11 DEF sharedVars
<1> QED
  BY <1>1, <1>2, <1>3, <1>4, <1>5, <1>6, <1>7, <1>8, <1>9, <1>10, <1>11 DEF SharedNext

\* A promised future is kept by its reference or by the call that takes it.
LEMMA PendingStep == SharedInv /\ [SharedNext]_sharedVars => PendingKept'
<1> SUFFICES ASSUME SharedInv, [SharedNext]_sharedVars
             PROVE  PendingKept'
  OBVIOUS
<1> USE SharedAssumption DEF SharedInv, SharedTypeOK, Charged, PendingKept, Users
<1>1. ASSUME NEW h \in Handles, NEW o \in Shared, NEW s \in {"pending", "ready"}, Construct(h,
      o, s)
     PROVE  PendingKept'
  BY <1>1 DEF Construct
<1>2. ASSUME NEW h \in Handles, NEW o \in Shared, get_promise(h, o)
     PROVE  PendingKept'
  BY <1>2 DEF get_promise, Users
<1>3. ASSUME NEW h \in Handles, Charge(h)
     PROVE  PendingKept'
  BY <1>3 DEF Charge
<1>4. ASSUME NEW h \in Handles, NotCharged(h)
     PROVE  PendingKept'
  BY <1>4 DEF NotCharged
<1>5. ASSUME NEW h \in Handles, SubscribeTracer(h)
     PROVE  PendingKept'
  BY <1>5 DEF SubscribeTracer
<1>6. ASSUME NEW h \in Handles, Reset(h)
     PROVE  PendingKept'
  BY <1>6 DEF Reset, Destroyed, Users
<1>7. ASSUME NEW h \in Handles, Restart(h)
     PROVE  PendingKept'
  BY <1>7 DEF Restart
<1>8. ASSUME NEW h \in Handles, NEW g \in Handles, Copy(h, g)
     PROVE  PendingKept'
  BY <1>8 DEF Copy
<1>9. ASSUME NEW o \in Shared, ResolveShared(o)
     PROVE  PendingKept'
  BY <1>9 DEF ResolveShared
<1>10. ASSUME NEW o \in Shared, ResumeTracer(o)
     PROVE  PendingKept'
  BY <1>10 DEF ResumeTracer, Destroyed, Users
<1>11. CASE UNCHANGED sharedVars
  BY <1>11 DEF sharedVars
<1> QED
  BY <1>1, <1>2, <1>3, <1>4, <1>5, <1>6, <1>7, <1>8, <1>9, <1>10, <1>11 DEF SharedNext

\* For any number of handles and futures: a future whose promise somebody has exists and
\* keeps itself, unless operator<< started it again.
THEOREM PendingStays == SharedSpec => []PendingKept
<1>1. SharedInv /\ [SharedNext]_sharedVars => SharedInv'
  BY SharedTypeStep, ChargedStep, PendingStep DEF SharedInv
<1>2. SharedInv => PendingKept
  BY DEF SharedInv
<1> QED
  BY SharedStart, <1>1, <1>2, PTL DEF SharedSpec

-----------------------------------------------------------------------------
(* Storages of frames *)

\* All coroutines that use the storage have frames of one size: the buffer is allocated
\* once, and not replaced while others take blocks from the heap.
OneSize == \A sz1, sz2 \in FrameSizes : sz1 = sz2

\* Who has the buffer, or is about to allocate it.
HasBuffer(f) ==
    \/ fpc[f] \in {"shrink", "grow"}
    \/ fpc[f] = "runs" /\ frame[f] = bufPtr

\* One coroutine at a time has the buffer.
BusyMeansOne ==
    /\ \A f \in Frames : HasBuffer(f) => busy
    /\ \A f, g \in Frames : HasBuffer(f) /\ HasBuffer(g) => f = g

\* The buffer, once there is one, stays as it is.
BufferStays ==
    /\ bufCapacity \in {0} \cup FrameSizes
    /\ bufPtr = nowhere <=> bufCapacity = 0
    /\ bufPtr # nowhere => size[bufPtr] = bufCapacity
    /\ \A f \in Frames : fpc[f] \in {"shrink", "grow"} => bufPtr = nowhere

\* What a coroutine asks for, and that frames on the heap are not the buffer.
Needs == \A f \in Frames :
    /\ fpc[f] \in {"shrink", "grow", "fallback", "runs"} => need[f] \in FrameSizes
    /\ fpc[f] = "heaped" => need[f] > 0 /\ frame[f] # bufPtr

StorageInv == StorageTypeOK /\ BusyMeansOne /\ BufferStays /\ Needs /\ OneFrame

\* At first no frame was allocated.
LEMMA StorageStart == StorageInit => StorageInv
<1> SUFFICES ASSUME StorageInit
             PROVE  StorageInv
  OBVIOUS
<1>1. StorageTypeOK
  <2>1. busy \in BOOLEAN /\ leaked \in BOOLEAN
    BY DEF StorageInit
  <2>2. /\ size \in [Blocks -> AllSizes] /\ need \in [Frames -> AllSizes]
        /\ taken \in [Frames -> AllSizes] /\ learned \in AllSizes /\ bufCapacity \in AllSizes
    BY DEF StorageInit, AllSizes
  <2>3. /\ bufPtr \in Blocks \cup {nowhere} /\ frame \in [Frames -> Blocks \cup {nowhere}]
        /\ fpc \in [Frames -> {"none", "shrink", "grow", "fallback", "runs",
                               "stack", "heaped", "stacked"}]
    BY DEF StorageInit
  <2> QED
    BY <2>1, <2>2, <2>3 DEF StorageTypeOK
<1>2. BusyMeansOne /\ BufferStays /\ Needs /\ OneFrame
  BY DEF StorageInit, BusyMeansOne, BufferStays, Needs, OneFrame, Live, HasBuffer
<1> QED
  BY <1>1, <1>2 DEF StorageInv

\* The types of the storage.
LEMMA StorageTypeStep == StorageTypeOK /\ [StorageNext]_storageVars => StorageTypeOK'
<1> SUFFICES ASSUME StorageTypeOK, [StorageNext]_storageVars
             PROVE  StorageTypeOK'
  OBVIOUS
<1> USE BlocksAssumption, SizesAssumption DEF StorageTypeOK, AllSizes, Proceeds, Placed,
     reusable, stack
<1>1. ASSUME NEW f \in Frames, NEW sz \in FrameSizes, AllocBegins(f, sz)
     PROVE  StorageTypeOK'
  BY <1>1 DEF AllocBegins
<1>2. ASSUME NEW f \in Frames, Shrink(f)
     PROVE  StorageTypeOK'
  BY <1>2 DEF Shrink, Delete
<1>3. ASSUME NEW f \in Frames, Grow(f)
     PROVE  StorageTypeOK'
  BY <1>3 DEF Grow, New
<1>4. ASSUME NEW f \in Frames, Fallback(f)
     PROVE  StorageTypeOK'
  BY <1>4 DEF Fallback, New
<1>5. ASSUME NEW f \in Frames, Dealloc(f)
     PROVE  StorageTypeOK'
  BY <1>5 DEF Dealloc, Delete
<1>6. ASSUME NEW f \in Frames, MakeStack(f)
     PROVE  StorageTypeOK'
  BY <1>6 DEF MakeStack
<1>7. ASSUME NEW f \in Frames, StackDealloc(f)
     PROVE  StorageTypeOK'
  BY <1>7 DEF StackDealloc, Delete
<1>8. ASSUME NEW f \in Frames, NEW sz \in StackSizes, StackAlloc(f, sz)
     PROVE  StorageTypeOK'
  BY <1>8 DEF StackAlloc, New
<1>9. CASE UNCHANGED storageVars
  BY <1>9 DEF storageVars
<1> QED
  BY <1>1, <1>2, <1>3, <1>4, <1>5, <1>6, <1>7, <1>8, <1>9 DEF StorageNext

\* What a frame was asked for is more than nothing.
LEMMA FrameIsSized == StorageInv => \A g \in Live : need[g] \in Nat \ {0}
      /\ size[frame[g]] \in Nat
<1> SUFFICES ASSUME StorageInv, NEW g \in Live
             PROVE  need[g] \in Nat \ {0} /\ size[frame[g]] \in Nat
  OBVIOUS
<1>1. AllSizes \subseteq Nat
  <2>1. FrameSizes \subseteq Nat /\ StackSizes \subseteq Nat
    BY SizesAssumption
  <2>2. \A n \in StackSizes : n + 1 \in Nat
    BY <2>1
  <2>3. {n + 1 : n \in StackSizes} \subseteq Nat
    BY <2>2, Zenon
  <2>4. {0} \subseteq Nat
    OBVIOUS
  <2>5. \A x \in AllSizes : x \in {0} \/ x \in FrameSizes \/ x \in {n + 1 : n \in StackSizes}
    BY Zenon DEF AllSizes
  <2> QED
    BY <2>1, <2>3, <2>4, <2>5, Zenon
<1>2. need[g] \in Nat /\ size[frame[g]] \in Nat
  BY <1>1 DEF StorageInv, StorageTypeOK, OneFrame, Live
<1>3. need[g] # 0
  BY <1>2, SizesAssumption DEF StorageInv, Needs, Live
<1> QED
  BY <1>2, <1>3

\* So operator new does not return it again.
LEMMA NewIsFree ==
    ASSUME StorageInv, NEW b \in Blocks, size[b] = 0
    PROVE  \A g \in Live : frame[g] # b
  BY FrameIsSized DEF StorageInv, OneFrame

\* A coroutine gets its frame from the heap.
LEMMA TakesBlock ==
    ASSUME StorageInv, NEW f \in Frames, NEW b \in Blocks, size[b] = 0,
           size' = [size EXCEPT ![b] = need'[f]], Placed(f, b), need'[f] \in Nat,
           \A g \in Frames : g # f => need'[g] = need[g],
           Live' = Live \cup {f}, f \notin Live
    PROVE  OneFrame'
<1>1. \A g \in Live : frame[g] # b /\ frame[g] \in Blocks /\ g \in Frames
  BY NewIsFree DEF StorageInv, OneFrame, Live
<1>2. frame'[f] = b /\ \A g \in Frames : g # f => frame'[g] = frame[g]
  BY DEF Placed, StorageInv, StorageTypeOK
<1>3. size'[b] = need'[f] /\ \A d \in Blocks : d # b => size'[d] = size[d]
  BY DEF StorageInv, StorageTypeOK
<1>4. \A g \in Live : g # f /\ frame'[g] = frame[g] /\ need'[g] = need[g]
                      /\ size'[frame'[g]] = size[frame[g]]
  BY <1>1, <1>2, <1>3
<1>5. \A g, h \in Live' : frame'[g] = frame'[h] => g = h
  BY <1>1, <1>2, <1>4 DEF StorageInv, OneFrame
<1>6. \A g \in Live : frame'[g] \in Blocks /\ size'[frame'[g]] >= need'[g]
  BY <1>1, <1>4 DEF StorageInv, OneFrame
<1>7. frame'[f] \in Blocks /\ size'[frame'[f]] >= need'[f]
  BY <1>2, <1>3
<1> QED
  BY <1>5, <1>6, <1>7 DEF OneFrame

\* _busy is taken by one at a time.
LEMMA BusyStep == StorageInv /\ OneSize /\ [StorageNext]_storageVars => BusyMeansOne'
<1> SUFFICES ASSUME StorageInv /\ OneSize, [StorageNext]_storageVars
             PROVE  BusyMeansOne'
  OBVIOUS
<1> USE BlocksAssumption, SizesAssumption DEF StorageTypeOK, AllSizes, Proceeds, Placed,
     reusable, stack, StorageInv, BusyMeansOne, HasBuffer, BufferStays, Needs, OneFrame, Live,
     OneSize
<1>1. ASSUME NEW f \in Frames, NEW sz \in FrameSizes, AllocBegins(f, sz)
     PROVE  BusyMeansOne'
  BY <1>1 DEF AllocBegins
<1>2. ASSUME NEW f \in Frames, Shrink(f)
     PROVE  BusyMeansOne'
  BY <1>2 DEF Shrink, Delete
<1>3. ASSUME NEW f \in Frames, Grow(f)
     PROVE  BusyMeansOne'
  <2>1. PICK b \in Blocks : size[b] = 0 /\ size' = [size EXCEPT ![b] = need[f]]
        /\ bufPtr' = b /\ Placed(f, b)
    BY <1>3 DEF Grow, New
  <2>2. \A g \in Live : frame[g] # b
    BY <2>1, NewIsFree
  <2>3. b # nowhere
    BY <2>1
  <2> QED
    BY <1>3, <2>1, <2>2, <2>3 DEF Grow, Live
<1>4. ASSUME NEW f \in Frames, Fallback(f)
     PROVE  BusyMeansOne'
  BY <1>4 DEF Fallback, New
<1>5. ASSUME NEW f \in Frames, Dealloc(f)
     PROVE  BusyMeansOne'
  BY <1>5 DEF Dealloc, Delete
<1>6. ASSUME NEW f \in Frames, MakeStack(f)
     PROVE  BusyMeansOne'
  BY <1>6 DEF MakeStack
<1>7. ASSUME NEW f \in Frames, StackDealloc(f)
     PROVE  BusyMeansOne'
  BY <1>7 DEF StackDealloc, Delete
<1>8. ASSUME NEW f \in Frames, NEW sz \in StackSizes, StackAlloc(f, sz)
     PROVE  BusyMeansOne'
  BY <1>8 DEF StackAlloc, New
<1>9. CASE UNCHANGED storageVars
  BY <1>9 DEF storageVars
<1> QED
  BY <1>1, <1>2, <1>3, <1>4, <1>5, <1>6, <1>7, <1>8, <1>9 DEF StorageNext

\* With one size of frames the buffer is allocated once.
LEMMA BufferStep == StorageInv /\ OneSize /\ [StorageNext]_storageVars => BufferStays'
<1> SUFFICES ASSUME StorageInv /\ OneSize, [StorageNext]_storageVars
             PROVE  BufferStays'
  OBVIOUS
<1> USE BlocksAssumption, SizesAssumption DEF StorageTypeOK, AllSizes, Proceeds, Placed,
     reusable, stack, StorageInv, BusyMeansOne, HasBuffer, BufferStays, Needs, OneFrame, Live,
     OneSize
<1>1. ASSUME NEW f \in Frames, NEW sz \in FrameSizes, AllocBegins(f, sz)
     PROVE  BufferStays'
  <2>1. bufPtr # nowhere => bufCapacity \in FrameSizes
    BY DEF BufferStays
  <2>2. bufPtr # nowhere => sz = bufCapacity
    BY <2>1
  <2>3. bufPtr # nowhere => ~(sz > bufCapacity)
    BY <2>2
  <2> QED
    BY <1>1, <2>3 DEF AllocBegins
<1>2. ASSUME NEW f \in Frames, Shrink(f)
     PROVE  BufferStays'
  BY <1>2 DEF Shrink, Delete
<1>3. ASSUME NEW f \in Frames, Grow(f)
     PROVE  BufferStays'
  BY <1>3 DEF Grow, New
<1>4. ASSUME NEW f \in Frames, Fallback(f)
     PROVE  BufferStays'
  BY <1>4 DEF Fallback, New
<1>5. ASSUME NEW f \in Frames, Dealloc(f)
     PROVE  BufferStays'
  BY <1>5 DEF Dealloc, Delete
<1>6. ASSUME NEW f \in Frames, MakeStack(f)
     PROVE  BufferStays'
  BY <1>6 DEF MakeStack
<1>7. ASSUME NEW f \in Frames, StackDealloc(f)
     PROVE  BufferStays'
  BY <1>7 DEF StackDealloc, Delete
<1>8. ASSUME NEW f \in Frames, NEW sz \in StackSizes, StackAlloc(f, sz)
     PROVE  BufferStays'
  BY <1>8 DEF StackAlloc, New
<1>9. CASE UNCHANGED storageVars
  BY <1>9 DEF storageVars
<1> QED
  BY <1>1, <1>2, <1>3, <1>4, <1>5, <1>6, <1>7, <1>8, <1>9 DEF StorageNext

\* A block from the heap is not the buffer, which is not free.
LEMMA NeedsStep == StorageInv /\ OneSize /\ [StorageNext]_storageVars => Needs'
<1> SUFFICES ASSUME StorageInv /\ OneSize, [StorageNext]_storageVars
             PROVE  Needs'
  OBVIOUS
<1> USE BlocksAssumption, SizesAssumption DEF StorageTypeOK, AllSizes, Proceeds, Placed,
     reusable, stack, StorageInv, BusyMeansOne, HasBuffer, BufferStays, Needs, OneFrame, Live,
     OneSize
<1>1. ASSUME NEW f \in Frames, NEW sz \in FrameSizes, AllocBegins(f, sz)
     PROVE  Needs'
  BY <1>1 DEF AllocBegins
<1>2. ASSUME NEW f \in Frames, Shrink(f)
     PROVE  Needs'
  BY <1>2 DEF Shrink, Delete
<1>3. ASSUME NEW f \in Frames, Grow(f)
     PROVE  Needs'
  <2>1. PICK b \in Blocks : size[b] = 0 /\ size' = [size EXCEPT ![b] = need[f]]
        /\ bufPtr' = b /\ Placed(f, b)
    BY <1>3 DEF Grow, New
  <2>2. \A g \in Live : frame[g] # b
    BY <2>1, NewIsFree
  <2>3. b # nowhere
    BY <2>1
  <2> QED
    BY <1>3, <2>1, <2>2, <2>3 DEF Grow, Live
<1>4. ASSUME NEW f \in Frames, Fallback(f)
     PROVE  Needs'
  BY <1>4 DEF Fallback, New
<1>5. ASSUME NEW f \in Frames, Dealloc(f)
     PROVE  Needs'
  BY <1>5 DEF Dealloc, Delete
<1>6. ASSUME NEW f \in Frames, MakeStack(f)
     PROVE  Needs'
  BY <1>6 DEF MakeStack
<1>7. ASSUME NEW f \in Frames, StackDealloc(f)
     PROVE  Needs'
  BY <1>7 DEF StackDealloc, Delete
<1>8. ASSUME NEW f \in Frames, NEW sz \in StackSizes, StackAlloc(f, sz)
     PROVE  Needs'
  BY <1>8 DEF StackAlloc, New
<1>9. CASE UNCHANGED storageVars
  BY <1>9 DEF storageVars
<1> QED
  BY <1>1, <1>2, <1>3, <1>4, <1>5, <1>6, <1>7, <1>8, <1>9 DEF StorageNext

\* A block is free until somebody takes it.
LEMMA OneFrameStep == StorageInv /\ OneSize /\ [StorageNext]_storageVars => OneFrame'
<1> SUFFICES ASSUME StorageInv /\ OneSize, [StorageNext]_storageVars
             PROVE  OneFrame'
  OBVIOUS
<1> USE BlocksAssumption, SizesAssumption DEF StorageTypeOK, AllSizes, Proceeds, Placed,
     reusable, stack, StorageInv, BusyMeansOne, HasBuffer, BufferStays, Needs, OneFrame, Live,
     OneSize
<1>1. ASSUME NEW f \in Frames, NEW sz \in FrameSizes, AllocBegins(f, sz)
     PROVE  OneFrame'
  BY <1>1 DEF AllocBegins
<1>2. ASSUME NEW f \in Frames, Shrink(f)
     PROVE  OneFrame'
  BY <1>2 DEF Shrink, Delete
<1>3. ASSUME NEW f \in Frames, Grow(f)
     PROVE  OneFrame'
  <2>1. PICK b \in Blocks : size[b] = 0 /\ size' = [size EXCEPT ![b] = need[f]] /\ Placed(f, b)
    BY <1>3 DEF Grow, New
  <2>2. need' = need /\ f \notin Live /\ Live' = Live \cup {f}
    BY <1>3 DEF Grow
  <2>3. need[f] \in FrameSizes
    BY <1>3 DEF Grow
  <2>4. need[f] \in Nat
    BY <2>3
  <2>5. size' = [size EXCEPT ![b] = need'[f]]
    BY <2>1, <2>2
  <2>6. \A g \in Frames : g # f => need'[g] = need[g]
    BY <2>2
  <2> QED
    BY ONLY StorageInv, <2>1, <2>2, <2>4, <2>5, <2>6, TakesBlock
<1>4. ASSUME NEW f \in Frames, Fallback(f)
     PROVE  OneFrame'
  <2>1. PICK b \in Blocks : size[b] = 0 /\ size' = [size EXCEPT ![b] = need[f]] /\ Placed(f, b)
    BY <1>4 DEF Fallback, New
  <2>2. need' = need /\ f \notin Live /\ Live' = Live \cup {f}
    BY <1>4 DEF Fallback
  <2>3. need[f] \in FrameSizes
    BY <1>4 DEF Fallback
  <2>4. need[f] \in Nat
    BY <2>3
  <2>5. size' = [size EXCEPT ![b] = need'[f]]
    BY <2>1, <2>2
  <2>6. \A g \in Frames : g # f => need'[g] = need[g]
    BY <2>2
  <2> QED
    BY ONLY StorageInv, <2>1, <2>2, <2>4, <2>5, <2>6, TakesBlock
<1>5. ASSUME NEW f \in Frames, Dealloc(f)
     PROVE  OneFrame'
  BY <1>5 DEF Dealloc, Delete
<1>6. ASSUME NEW f \in Frames, MakeStack(f)
     PROVE  OneFrame'
  BY <1>6 DEF MakeStack
<1>7. ASSUME NEW f \in Frames, StackDealloc(f)
     PROVE  OneFrame'
  BY <1>7 DEF StackDealloc, Delete
<1>8. ASSUME NEW f \in Frames, NEW sz \in StackSizes, StackAlloc(f, sz)
     PROVE  OneFrame'
  <2>1. CASE fpc'[f] = "heaped"
    <3>1. PICK b \in Blocks : size[b] = 0 /\ size' = [size EXCEPT ![b] = sz + 1]
          /\ Placed(f, b)
      BY <1>8, <2>1 DEF StackAlloc, New
    <3>2. need'[f] = sz + 1 /\ sz + 1 \in Nat /\ f \notin Live /\ Live' = Live \cup {f}
      BY <1>8, <2>1 DEF StackAlloc
    <3>3. \A g \in Frames : g # f => need'[g] = need[g]
      BY <1>8 DEF StackAlloc
    <3>4. size' = [size EXCEPT ![b] = need'[f]] /\ need'[f] \in Nat
      BY <3>1, <3>2
    <3> QED
      BY ONLY StorageInv, <3>1, <3>2, <3>3, <3>4, TakesBlock
  <2>2. CASE fpc'[f] # "heaped"
    <3>1. UNCHANGED <<size, frame>> /\ Live' = Live
      BY <1>8, <2>2 DEF StackAlloc, New
    <3>2. \A g \in Live : need'[g] = need[g]
      BY <1>8 DEF StackAlloc
    <3> QED
      BY <3>1, <3>2
  <2> QED
    BY <2>1, <2>2
<1>9. CASE UNCHANGED storageVars
  BY <1>9 DEF storageVars
<1> QED
  BY <1>1, <1>2, <1>3, <1>4, <1>5, <1>6, <1>7, <1>8, <1>9 DEF StorageNext

\* For any number of coroutines, if all have frames of one size: none of them shares its
\* frame, or has one that was freed or is too small.
THEOREM FramesAreOwn == OneSize => (StorageSpec => []OneFrame)
<1> SUFFICES ASSUME OneSize
             PROVE  StorageSpec => []OneFrame
  OBVIOUS
<1>1. StorageInv /\ [StorageNext]_storageVars => StorageInv'
  BY StorageTypeStep, BusyStep, BufferStep, NeedsStep, OneFrameStep DEF StorageInv
<1>2. StorageInv => OneFrame
  BY DEF StorageInv
<1> QED
  BY StorageStart, <1>1, <1>2, PTL DEF StorageSpec

\* What is freed was a frame, and what is allocated becomes one.
LEMMA LeakStep == StorageInv /\ NothingLeaks /\ OneSize /\ [StorageNext]_storageVars
      => NothingLeaks'
<1> SUFFICES ASSUME StorageInv /\ NothingLeaks /\ OneSize, [StorageNext]_storageVars
             PROVE  NothingLeaks'
  OBVIOUS
<1> USE BlocksAssumption, SizesAssumption DEF StorageTypeOK, AllSizes, Proceeds, Placed,
     reusable, stack, StorageInv, BusyMeansOne, HasBuffer, BufferStays, Needs, OneFrame, Live,
     OneSize, NothingLeaks
<1>1. ASSUME NEW f \in Frames, NEW sz \in FrameSizes, AllocBegins(f, sz)
     PROVE  NothingLeaks'
  <2>1. size' = size /\ leaked' = leaked
    BY <1>1 DEF AllocBegins
  <2>2. \A g \in Live : g \in Live' /\ frame'[g] = frame[g]
    BY <1>1 DEF AllocBegins
  <2>3. bufPtr' = bufPtr
    BY <1>1 DEF AllocBegins
  <2> QED
    BY <2>1, <2>2, <2>3
<1>2. ASSUME NEW f \in Frames, Shrink(f)
     PROVE  NothingLeaks'
  <2>1. size' = size /\ leaked' = leaked
    BY <1>2 DEF Shrink, Delete
  <2>2. \A g \in Live : g \in Live' /\ frame'[g] = frame[g]
    BY <1>2 DEF Shrink
  <2>3. bufPtr' = bufPtr
    BY <1>2 DEF Shrink
  <2> QED
    BY <2>1, <2>2, <2>3
<1>3. ASSUME NEW f \in Frames, Grow(f)
     PROVE  NothingLeaks'
  <2>1. PICK b \in Blocks : size[b] = 0 /\ size' = [size EXCEPT ![b] = need[f]]
        /\ bufPtr' = b /\ Placed(f, b)
    BY <1>3 DEF Grow, New
  <2>2. f \in Live' /\ frame'[f] = b /\ leaked' = leaked
    BY <1>3, <2>1 DEF Grow
  <2>3. \A g \in Live : g \in Live' /\ frame'[g] = frame[g]
    BY <1>3, <2>1 DEF Grow
  <2>4. \A d \in Blocks : d # b => size'[d] = size[d]
    BY <2>1
  <2>5. bufPtr' = bufPtr \/ bufPtr = nowhere
    BY <1>3 DEF Grow
  <2> QED
    BY <2>2, <2>3, <2>4, <2>5
<1>4. ASSUME NEW f \in Frames, Fallback(f)
     PROVE  NothingLeaks'
  <2>1. PICK b \in Blocks : size[b] = 0 /\ size' = [size EXCEPT ![b] = need[f]] /\ Placed(f, b)
    BY <1>4 DEF Fallback, New
  <2>2. f \in Live' /\ frame'[f] = b /\ leaked' = leaked
    BY <1>4, <2>1 DEF Fallback
  <2>3. \A g \in Live : g \in Live' /\ frame'[g] = frame[g]
    BY <1>4, <2>1 DEF Fallback
  <2>4. \A d \in Blocks : d # b => size'[d] = size[d]
    BY <2>1
  <2>5. bufPtr' = bufPtr \/ bufPtr = nowhere
    BY <1>4 DEF Fallback
  <2> QED
    BY <2>2, <2>3, <2>4, <2>5
<1>5. ASSUME NEW f \in Frames, Dealloc(f)
     PROVE  NothingLeaks'
  <2>1. CASE frame[f] = bufPtr
    <3>1. size' = size /\ leaked' = leaked /\ bufPtr' = bufPtr
      BY <1>5, <2>1 DEF Dealloc
    <3>2. \A g \in Live : g # f => g \in Live' /\ frame'[g] = frame[g]
      BY <1>5 DEF Dealloc
    <3> QED
      BY <2>1, <3>1, <3>2
  <2>2. CASE frame[f] # bufPtr
    <3>1. f \in Live /\ bufPtr' = bufPtr /\ frame[f] \in Blocks /\ frame[f] # nowhere
      BY <1>5, <2>2 DEF Dealloc
    <3>2. size[frame[f]] \in Nat \ {0}
      <4>1. need[f] \in Nat \ {0} /\ size[frame[f]] \in Nat
        BY <3>1, FrameIsSized
      <4>2. size[frame[f]] >= need[f]
        BY <3>1
      <4> QED
        BY <4>1, <4>2
    <3>3. size' = [size EXCEPT ![frame[f]] = 0] /\ (leaked' <=> leaked \/ size[frame[f]] = 0)
      BY <1>5, <2>2, <3>1 DEF Dealloc, Delete
    <3>4. ~leaked'
      BY <3>2, <3>3
    <3>5. \A g \in Live : g # f => g \in Live' /\ frame'[g] = frame[g]
      BY <1>5 DEF Dealloc
    <3> QED
      BY <3>1, <3>3, <3>4, <3>5
  <2> QED
    BY <2>1, <2>2
<1>6. ASSUME NEW f \in Frames, MakeStack(f)
     PROVE  NothingLeaks'
  <2>1. size' = size /\ leaked' = leaked
    BY <1>6 DEF MakeStack
  <2>2. \A g \in Live : g \in Live' /\ frame'[g] = frame[g]
    BY <1>6 DEF MakeStack
  <2>3. bufPtr' = bufPtr
    BY <1>6 DEF MakeStack
  <2> QED
    BY <2>1, <2>2, <2>3
<1>7. ASSUME NEW f \in Frames, StackDealloc(f)
     PROVE  NothingLeaks'
  <2>1. CASE fpc[f] = "heaped"
    <3>1. f \in Live /\ bufPtr' = bufPtr /\ frame[f] \in Blocks /\ frame[f] # nowhere
      BY <1>7, <2>1 DEF StackDealloc
    <3>2. size[frame[f]] \in Nat \ {0}
      <4>1. need[f] \in Nat \ {0} /\ size[frame[f]] \in Nat
        BY <3>1, FrameIsSized
      <4>2. size[frame[f]] >= need[f]
        BY <3>1
      <4> QED
        BY <4>1, <4>2
    <3>3. size' = [size EXCEPT ![frame[f]] = 0] /\ (leaked' <=> leaked \/ size[frame[f]] = 0)
      BY <1>7, <3>1, <2>1 DEF StackDealloc, Delete
    <3>4. ~leaked'
      BY <3>2, <3>3
    <3>5. \A g \in Live : g # f => g \in Live' /\ frame'[g] = frame[g]
      BY <1>7 DEF StackDealloc
    <3> QED
      BY <3>1, <3>3, <3>4, <3>5
  <2>2. CASE fpc[f] # "heaped"
    <3>1. size' = size /\ leaked' = leaked /\ bufPtr' = bufPtr /\ f \notin Live
      BY <1>7, <2>2 DEF StackDealloc
    <3>2. \A g \in Live : g \in Live' /\ frame'[g] = frame[g]
      BY <1>7, <3>1 DEF StackDealloc
    <3> QED
      BY <3>1, <3>2
  <2> QED
    BY <2>1, <2>2
<1>8. ASSUME NEW f \in Frames, NEW sz \in StackSizes, StackAlloc(f, sz)
     PROVE  NothingLeaks'
  <2>1. CASE fpc'[f] = "heaped"
    <3>1. PICK b \in Blocks : size[b] = 0 /\ size' = [size EXCEPT ![b] = sz + 1]
          /\ Placed(f, b)
      BY <1>8, <2>1 DEF StackAlloc, New
    <3>2. f \in Live' /\ frame'[f] = b /\ leaked' = leaked
      BY <1>8, <2>1, <3>1 DEF StackAlloc
    <3>3. \A g \in Live : g \in Live' /\ frame'[g] = frame[g]
      BY <1>8, <2>1, <3>1 DEF StackAlloc
    <3>4. \A d \in Blocks : d # b => size'[d] = size[d]
      BY <3>1
    <3>5. bufPtr' = bufPtr \/ bufPtr = nowhere
      BY <1>8, <2>1 DEF StackAlloc
    <3> QED
      BY <3>2, <3>3, <3>4, <3>5
  <2>2. CASE fpc'[f] # "heaped"
    <3>1. size' = size /\ leaked' = leaked /\ bufPtr' = bufPtr /\ Live' = Live
          /\ frame' = frame
      BY <1>8, <2>2 DEF StackAlloc
    <3> QED
      BY <3>1
  <2> QED
    BY <2>1, <2>2
<1>9. CASE UNCHANGED storageVars
  BY <1>9 DEF storageVars
<1> QED
  BY <1>1, <1>2, <1>3, <1>4, <1>5, <1>6, <1>7, <1>8, <1>9 DEF StorageNext

\* Under the same condition nothing is freed twice, and what is on the heap is the buffer
\* or the frame of a coroutine.
THEOREM FramesAreFreed == OneSize => (StorageSpec => []NothingLeaks)
<1> SUFFICES ASSUME OneSize
             PROVE  StorageSpec => []NothingLeaks
  OBVIOUS
<1>1. StorageInit => NothingLeaks
  BY DEF StorageInit, NothingLeaks
<1>2. /\ StorageInv /\ NothingLeaks
      /\ [StorageNext]_storageVars
      => StorageInv' /\ NothingLeaks'
  BY StorageTypeStep, BusyStep, BufferStep, NeedsStep, OneFrameStep, LeakStep DEF StorageInv
<1> QED
  BY StorageStart, <1>1, <1>2, PTL DEF StorageSpec

\* What is learned is read once for each storage: a frame on the stack fits what was taken
\* from it, whatever other threads learn in between.
THEOREM StackFrameFits == StorageSpec => []FitsTheStack
<1>1. StorageInit => StorageTypeOK /\ FitsTheStack
  BY StorageStart DEF StorageInit, StorageInv, FitsTheStack
<1>2. /\ StorageTypeOK /\ FitsTheStack
      /\ [StorageNext]_storageVars
      => FitsTheStack'
  <2> SUFFICES ASSUME StorageTypeOK, FitsTheStack, [StorageNext]_storageVars
               PROVE  FitsTheStack'
    OBVIOUS
  <2> USE BlocksAssumption, SizesAssumption
       DEF StorageTypeOK, AllSizes, Proceeds, Placed, reusable, stack, FitsTheStack
  <2>1. ASSUME NEW f \in Frames, NEW sz \in FrameSizes, AllocBegins(f, sz)
       PROVE  FitsTheStack'
    BY <2>1 DEF AllocBegins
  <2>2. ASSUME NEW f \in Frames, Shrink(f)
       PROVE  FitsTheStack'
    BY <2>2 DEF Shrink, Delete
  <2>3. ASSUME NEW f \in Frames, Grow(f)
       PROVE  FitsTheStack'
    BY <2>3 DEF Grow, New
  <2>4. ASSUME NEW f \in Frames, Fallback(f)
       PROVE  FitsTheStack'
    BY <2>4 DEF Fallback, New
  <2>5. ASSUME NEW f \in Frames, Dealloc(f)
       PROVE  FitsTheStack'
    BY <2>5 DEF Dealloc, Delete
  <2>6. ASSUME NEW f \in Frames, MakeStack(f)
       PROVE  FitsTheStack'
    BY <2>6 DEF MakeStack
  <2>7. ASSUME NEW f \in Frames, StackDealloc(f)
       PROVE  FitsTheStack'
    BY <2>7 DEF StackDealloc, Delete
  <2>8. ASSUME NEW f \in Frames, NEW sz \in StackSizes, StackAlloc(f, sz)
       PROVE  FitsTheStack'
    BY <2>8 DEF StackAlloc, New
  <2>9. CASE UNCHANGED storageVars
    BY <2>9 DEF storageVars
  <2> QED
    BY <2>1, <2>2, <2>3, <2>4, <2>5, <2>6, <2>7, <2>8, <2>9 DEF StorageNext
<1> QED
  BY <1>1, <1>2, StorageTypeStep, PTL DEF StorageSpec
-----------------------------------------------------------------------------
(* Numbers *)

\* A set of numbers has a smallest one.
LEMMA Smallest ==
    ASSUME NEW S \in SUBSET Nat, S # {}
    PROVE  \E x \in S : \A y \in S : x <= y
<1> DEFINE Upto == {1 .. n : n \in S}
<1>1. Upto \subseteq FiniteSubsetsOf(Nat) /\ Upto # {}
  <2>1. \A n \in S : IsFiniteSet(1 .. n) /\ 1 .. n \in SUBSET Nat
    BY FS_Interval
  <2> QED
    BY <2>1 DEF FiniteSubsetsOf
<1>2. \E b \in Upto : \A d \in Upto : <<d, b>> \notin StrictSubsetOrdering(Nat)
  <2> HIDE DEF Upto
  <2> QED
    BY <1>1, FS_StrictSubsetOrderingWellFounded, WFMin
<1>3. PICK x \in S : \A y \in S : <<1 .. y, 1 .. x>> \notin StrictSubsetOrdering(Nat)
  BY <1>2
<1>4. ASSUME NEW y \in S, y < x
      PROVE  FALSE
  <2>1. 1 .. y \subseteq 1 .. x /\ x \in 1 .. x /\ x \notin 1 .. y
    BY <1>4
  <2> HIDE <1>3
  <2>2. <<1 .. y, 1 .. x>> \in StrictSubsetOrdering(Nat)
    BY <2>1 DEF StrictSubsetOrdering
  <2> QED
    BY <1>3, <2>2
<1> QED
  BY <1>4

\* What holds of 0 and of the successor of each number that it holds of, holds of all.
LEMMA AllNumbers ==
    ASSUME NEW S, 0 \in S, \A n \in Nat : n \in S => n + 1 \in S
    PROVE  \A n \in Nat : n \in S
<1> SUFFICES ASSUME NEW n \in Nat, n \notin S
             PROVE  FALSE
  OBVIOUS
<1> DEFINE Out == Nat \ S
<1>1. PICK m \in Out : \A k \in Out : m <= k
  <2>1. Out \in SUBSET Nat /\ Out # {}
    OBVIOUS
  <2> HIDE DEF Out
  <2> QED
    BY <2>1, Smallest
<1>2. m - 1 \in Nat /\ m - 1 \in S /\ (m - 1) + 1 = m
  BY <1>1
<1> QED
  BY <1>2

(* Handles of a suspend_point *)

\* A suspend_point is well-formed, and holds s.
Keeps(sp, s) ==
    /\ sp \in [countFlag : Nat, cells : Seq(Nat)]
    /\ Len(sp.cells) >= 1 /\ Count(sp) <= Len(sp.cells)
    /\ ~External(sp) => Len(sp.cells) = inline_count
    /\ Held(sp) = s

\* Counters and flags.
LEMMA Halves ==
    ASSUME NEW n \in Nat
    PROVE  /\ n \div 2 \in Nat /\ n % 2 \in {0, 1}
           /\ (n + 2) \div 2 = n \div 2 + 1 /\ (n + 2) % 2 = n % 2
           /\ n % 2 = 0 => (n + 3) \div 2 = n \div 2 + 1 /\ (n + 3) % 2 = 1
           /\ n \div 2 > 0 => n - 2 \in Nat /\ (n - 2) \div 2 = n \div 2 - 1 /\ (n - 2) % 2 = n % 2
           /\ 0 \div 2 = 0 /\ 0 % 2 = 0
OBVIOUS

\* The first cells are the sequence.
LEMMA HeldMeans ==
    ASSUME NEW c \in Seq(Nat), NEW n \in Nat, n <= Len(c)
    PROVE  /\ SubSeq(c, 1, n) \in Seq(Nat) /\ Len(SubSeq(c, 1, n)) = n
           /\ \A i \in 1 .. n : SubSeq(c, 1, n)[i] = c[i]
  OBVIOUS

\* add keeps the list, whether or not there is a larger array.
LEMMA AddKeeps ==
    ASSUME NEW sp, NEW s, Keeps(sp, s), NEW h \in Nat
    PROVE  Keeps(add(sp, h), Append(s, h))
<1> DEFINE n == Count(sp)
           full == n = Len(sp.cells)
           more == sp.cells \o Unwritten(n)
           cells == IF full THEN more ELSE sp.cells
           new == Put(cells, n + 1, h)
           flag == sp.countFlag + (IF full /\ ~External(sp) THEN 3 ELSE 2)
<1>1. /\ sp.countFlag \in Nat /\ sp.cells \in Seq(Nat) /\ n \in Nat /\ n <= Len(sp.cells)
      /\ Len(sp.cells) \in Nat \ {0}
  BY Halves DEF Keeps, Count
<1>2. /\ cells \in Seq(Nat) /\ Len(cells) \in Nat /\ n + 1 <= Len(cells)
      /\ \A i \in 1 .. n : cells[i] = sp.cells[i]
      /\ ~full => Len(cells) = Len(sp.cells)
  <2>1. CASE full
    <3> DEFINE u == Unwritten(n)
               old == sp.cells
    <3>1. u \in Seq(Nat) /\ Len(u) = n
      BY <1>1 DEF Unwritten
    <3> HIDE DEF u
    <3>2. cells = old \o u /\ Len(old) = n /\ n >= 1 /\ old \in Seq(Nat)
      BY <1>1, <2>1 DEF u
    <3> HIDE DEF n, old, cells
    <3>3. /\ old \o u \in Seq(Nat) /\ Len(old \o u) = Len(old) + Len(u)
          /\ \A i \in 1 .. Len(old) + Len(u) : (old \o u)[i] = IF i <= Len(old) THEN old[i] ELSE u[i - Len(old)]
      BY <3>1, <3>2, ConcatProperties
    <3>4. \A i \in 1 .. n : i \in 1 .. n + n /\ i <= n
      BY <1>1
    <3>5. \A i \in 1 .. n : cells[i] = old[i]
      BY <1>1, <3>1, <3>2, <3>3, <3>4
    <3> QED
      BY <1>1, <2>1, <3>1, <3>2, <3>3, <3>5 DEF old
  <2>2. CASE ~full
    BY <1>1, <2>2
  <2> QED
    BY <2>1, <2>2
<1> HIDE DEF cells
<1>3. /\ new \in Seq(Nat) /\ Len(new) = Len(cells) /\ new[n + 1] = h
      /\ \A i \in 1 .. n : new[i] = sp.cells[i]
  <2> HIDE DEF n
  <2> QED
    BY <1>1, <1>2 DEF Put
<1>4. add(sp, h) = [countFlag |-> flag, cells |-> new]
  BY DEF add, cells
<1>5. /\ flag \in Nat /\ flag \div 2 = n + 1
      /\ flag % 2 = IF full \/ External(sp) THEN 1 ELSE 0
  BY <1>1, Halves DEF Count, External
<1> HIDE DEF new, flag
<1>6. Count(add(sp, h)) = n + 1 /\ (External(add(sp, h)) <=> full \/ External(sp))
  BY <1>4, <1>5 DEF Count, External
<1>7. Held(add(sp, h)) = Append(s, h)
  <2>1. s = SubSeq(sp.cells, 1, n) /\ Held(add(sp, h)) = SubSeq(new, 1, n + 1)
    <3>1. s = SubSeq(sp.cells, 1, n)
      BY DEF Keeps, Held
    <3>2. add(sp, h).cells = new
      BY <1>4
    <3>3. Held(add(sp, h)) = SubSeq(new, 1, n + 1)
      BY <1>6, <3>2 DEF Held
    <3> QED
      BY <3>1, <3>3
  <2> HIDE DEF n
  <2>2. /\ SubSeq(new, 1, n + 1) \in Seq(Nat) /\ Len(SubSeq(new, 1, n + 1)) = n + 1
        /\ \A i \in 1 .. n + 1 : SubSeq(new, 1, n + 1)[i] = new[i]
    <3>1. new \in Seq(Nat) /\ n + 1 \in Nat /\ n + 1 <= Len(new)
      BY <1>1, <1>2, <1>3
    <3> QED
      BY ONLY <3>1, HeldMeans
  <2>3. s \in Seq(Nat) /\ Len(s) = n /\ \A i \in 1 .. n : s[i] = sp.cells[i]
    BY ONLY <1>1, <2>1, HeldMeans
  <2>4. /\ Append(s, h) \in Seq(Nat) /\ Len(Append(s, h)) = n + 1
        /\ \A i \in 1 .. n : Append(s, h)[i] = s[i]
        /\ Append(s, h)[n + 1] = h
    BY <2>3, AppendProperties
  <2>5. ASSUME NEW i \in 1 .. n + 1
        PROVE  SubSeq(new, 1, n + 1)[i] = Append(s, h)[i]
    <3>1. SubSeq(new, 1, n + 1)[i] = new[i] /\ (i = n + 1 \/ i \in 1 .. n)
      BY <1>1, <2>2
    <3> QED
      BY <1>3, <2>3, <2>4, <3>1
  <2> QED
    BY <2>1, <2>2, <2>4, <2>5, SeqEqual
<1>8. add(sp, h) \in [countFlag : Nat, cells : Seq(Nat)]
  BY <1>3, <1>4, <1>5
<1>9. /\ Len(add(sp, h).cells) >= 1 /\ Count(add(sp, h)) <= Len(add(sp, h).cells)
      /\ ~External(add(sp, h)) => Len(add(sp, h).cells) = inline_count
  <2>1. add(sp, h).cells = new
    BY <1>4
  <2>2. ~full /\ ~External(sp) => Len(new) = inline_count
    BY <1>2, <1>3 DEF Keeps
  <2> HIDE DEF n, full
  <2> QED
    BY <1>1, <1>2, <1>3, <1>6, <2>1, <2>2
<1> QED
  BY <1>7, <1>8, <1>9 DEF Keeps

\* One without handles.
LEMMA EmptyKeeps == Keeps(Empty, <<>>) /\ ~External(Empty)
<1>1. Unwritten(inline_count) \in Seq(Nat) /\ Len(Unwritten(inline_count)) = inline_count
  BY InlineAssumption DEF Unwritten
<1>2. Count(Empty) = 0 /\ External(Empty) = FALSE
  BY Halves DEF Count, External, Empty
<1>3. SubSeq(Unwritten(inline_count), 1, 0) = <<>>
  BY <1>1
<1>4. Empty \in [countFlag : Nat, cells : Seq(Nat)] /\ Empty.cells = Unwritten(inline_count)
  BY <1>1 DEF Empty
<1> QED
  BY <1>1, <1>2, <1>3, <1>4, InlineAssumption DEF Keeps, Held

\* pop takes the last one.
LEMMA PopKeeps ==
    ASSUME NEW sp, NEW s \in Seq(Nat), Keeps(sp, s), Count(sp) > 0
    PROVE  LET new == [sp EXCEPT !.countFlag = @ - 2]
           IN  Keeps(new, Front(s)) /\ (External(new) <=> External(sp))
<1> DEFINE new == [sp EXCEPT !.countFlag = @ - 2]
           n == Count(sp)
<1>1. /\ sp.countFlag \in Nat /\ sp.cells \in Seq(Nat) /\ n \in Nat /\ n <= Len(sp.cells) /\ n > 0
      /\ s = SubSeq(sp.cells, 1, n) /\ Len(sp.cells) \in Nat
  BY Halves DEF Keeps, Count, Held
<1>2. /\ new \in [countFlag : Nat, cells : Seq(Nat)] /\ new.countFlag = sp.countFlag - 2
      /\ new.cells = sp.cells
  BY <1>1, Halves DEF Keeps, Count
<1>3. Count(new) = n - 1 /\ (External(new) <=> External(sp))
  BY <1>1, <1>2, Halves DEF Count, External
<1> HIDE DEF n
<1>4. Front(s) = SubSeq(sp.cells, 1, n - 1)
  <2>1. Len(s) = n /\ Front(s) = SubSeq(s, 1, n - 1)
    BY <1>1, HeldMeans DEF Front
  <2> QED
    BY <1>1, <2>1
<1> HIDE DEF new
<1>5. Held(new) = Front(s)
  BY <1>2, <1>3, <1>4 DEF Held
<1>6. Keeps(new, Front(s))
  BY <1>1, <1>2, <1>3, <1>5 DEF Keeps
<1> QED
  BY <1>3, <1>6 DEF new

\* What the loop of addAll has made after each round.
Rounds(b, sp, handles, n) == b[0] = sp /\ \A k \in 1 .. n : b[k] = add(b[k - 1], handles[k])

\* addAll is such a loop.
LEMMA Loop ==
    ASSUME NEW sp, NEW handles, Len(handles) \in Nat
    PROVE  \E b : Rounds(b, sp, handles, Len(handles)) /\ addAll(sp, handles) = b[Len(handles)]
<1> DEFINE N == Len(handles)
           Def(b) == b = [n \in 0 .. N |-> IF n = 0 THEN sp ELSE add(b[n - 1], handles[n])]
           Possible == {n \in Nat : \E b : Rounds(b, sp, handles, n)}
<1>1. \A n \in Nat : n \in Possible
  <2>1. 0 \in Possible
    <3>1. Rounds([k \in {0} |-> sp], sp, handles, 0)
      BY DEF Rounds
    <3> QED
      BY <3>1
  <2>2. ASSUME NEW n \in Nat, n \in Possible
        PROVE  n + 1 \in Possible
    <3>1. PICK b : Rounds(b, sp, handles, n)
      BY <2>2
    <3> DEFINE c == [k \in 0 .. n + 1 |-> IF k = n + 1 THEN add(b[n], handles[n + 1]) ELSE b[k]]
    <3>2. c[0] = sp
      BY <3>1 DEF Rounds
    <3>3. ASSUME NEW k \in 1 .. n + 1
          PROVE  c[k] = add(c[k - 1], handles[k])
      <4>1. CASE k = n + 1
        <5>1. n \in 0 .. n + 1 /\ n + 1 \in 0 .. n + 1 /\ n # n + 1 /\ k - 1 = n
          BY <4>1
        <5>2. c[n] = b[n] /\ c[n + 1] = add(b[n], handles[n + 1])
          BY <5>1
        <5> QED
          BY <4>1, <5>1, <5>2
      <4>2. CASE k \in 1 .. n
        <5>1. k \in 0 .. n + 1 /\ k - 1 \in 0 .. n + 1 /\ k # n + 1 /\ k - 1 # n + 1
          BY <4>2
        <5>2. c[k] = b[k] /\ c[k - 1] = b[k - 1]
          BY <5>1
        <5> QED
          BY <5>2, <4>2, <3>1 DEF Rounds
      <4> QED
        BY <4>1, <4>2
    <3> HIDE DEF c
    <3>4. Rounds(c, sp, handles, n + 1)
      BY <3>2, <3>3 DEF Rounds
    <3> QED
      BY <3>4
  <2> HIDE DEF Possible
  <2> QED
    BY <2>1, <2>2, AllNumbers
<1>2. \E b : Def(b)
  <2>1. PICK b : Rounds(b, sp, handles, N)
    BY <1>1
  <2> DEFINE c == [k \in 0 .. N |-> b[k]]
  <2>2. ASSUME NEW k \in 0 .. N
        PROVE  c[k] = IF k = 0 THEN sp ELSE add(c[k - 1], handles[k])
    <3>1. k # 0 => k - 1 \in 0 .. N /\ k \in 1 .. N
      OBVIOUS
    <3> QED
      BY <2>1, <3>1 DEF Rounds
  <2>3. Def(c)
    BY <2>2
  <2> QED
    BY <2>3
<1> DEFINE w == CHOOSE b : Def(b)
<1>3. Def(w)
  BY <1>2
<1>4. addAll(sp, handles) = w[N]
  BY DEF addAll
<1> HIDE DEF w
<1>5. w[0] = sp
  BY <1>3
<1>6. ASSUME NEW k \in 1 .. N
      PROVE  w[k] = add(w[k - 1], handles[k])
  <2>1. k \in 0 .. N /\ k # 0
    OBVIOUS
  <2> QED
    BY <1>3, <2>1
<1>7. Rounds(w, sp, handles, N)
  BY <1>5, <1>6 DEF Rounds
<1> QED
  BY <1>4, <1>7

\* What is appended to the second of two sequences comes at the end of both.
LEMMA AppendLast ==
    ASSUME NEW s \in Seq(Nat), NEW r \in Seq(Nat), NEW x \in Nat
    PROVE  s \o (r \o <<x>>) = Append(s \o r, x)
<1> DEFINE e == <<x>>
           both == s \o r
<1>1. e \in Seq(Nat) /\ both \in Seq(Nat)
  BY ConcatProperties
<1>2. Append(both, x) = both \o <<x>>
  BY <1>1, AppendIsConcat
<1> HIDE DEF e
<1>3. (s \o r) \o e = s \o (r \o e)
  BY <1>1
<1> QED
  BY <1>2, <1>3 DEF e

\* addAll appends the handles.
LEMMA AllKept ==
    ASSUME NEW sp, NEW s \in Seq(Nat), Keeps(sp, s), NEW handles \in Seq(Nat)
    PROVE  Keeps(addAll(sp, handles), s \o handles)
<1> DEFINE N == Len(handles)
           sofar(k) == s \o SubSeq(handles, 1, k)
<1>1. PICK b : Rounds(b, sp, handles, N) /\ addAll(sp, handles) = b[N]
  <2>1. N \in Nat
    BY LenProperties
  <2> QED
    BY <2>1, Loop
<1> DEFINE Kept == {k \in Nat : k <= N => Keeps(b[k], sofar(k))}
<1>2. 0 \in Kept
  <2>1. SubSeq(handles, 1, 0) = <<>> /\ s \o <<>> = s
    BY ConcatEmptySeq
  <2> QED
    BY <1>1, <2>1 DEF Rounds
<1>3. ASSUME NEW k \in Nat, k \in Kept
      PROVE  k + 1 \in Kept
  <2> SUFFICES ASSUME k + 1 <= N PROVE Keeps(b[k + 1], sofar(k + 1))
    OBVIOUS
  <2>1. /\ k <= N /\ k + 1 \in 1 .. N /\ (k + 1) - 1 = k /\ handles[k + 1] \in Nat
    OBVIOUS
  <2>2. Keeps(b[k], sofar(k)) /\ b[k + 1] = add(b[k], handles[k + 1])
    BY <1>1, <1>3, <2>1 DEF Rounds
  <2>3. sofar(k + 1) = Append(sofar(k), handles[k + 1])
    <3> DEFINE r == SubSeq(handles, 1, k)
               x == handles[k + 1]
    <3>1. 1 \in 1 .. N /\ k + 1 \in 1 .. N /\ k + 1 \in k + 1 .. N /\ (k + 1) - 1 = k
      BY <2>1
    <3>2. r \in Seq(Nat) /\ x \in Nat
      BY <2>1
    <3>3. SubSeq(handles, 1, k + 1) = r \o <<x>>
      <4>1. SubSeq(handles, 1, k + 1) = SubSeq(handles, 1, (k + 1) - 1) \o <<handles[k + 1]>>
        BY <3>1, SubSeqRecursiveSecond
      <4> QED
        BY <3>1, <4>1
    <3> HIDE DEF r, x
    <3>4. s \o (r \o <<x>>) = Append(s \o r, x)
      BY <3>2, AppendLast
    <3> QED
      BY <3>3, <3>4 DEF r, x
  <2> HIDE DEF sofar
  <2>4. Keeps(add(b[k], handles[k + 1]), Append(sofar(k), handles[k + 1]))
    BY ONLY <2>1, <2>2, AddKeeps
  <2> QED
    BY <2>2, <2>3, <2>4
<1>4. \A k \in Nat : k \in Kept
  <2> HIDE DEF Kept
  <2> QED
    BY <1>2, <1>3, AllNumbers
<1>5. N \in Kept /\ N \in Nat
  BY <1>4, LenProperties
<1>6. SubSeq(handles, 1, N) = handles
  BY SubSeqFull
<1>7. Keeps(b[N], s \o handles)
  <2>1. N <= N /\ Keeps(b[N], sofar(N))
    BY <1>5
  <2> QED
    BY <1>6, <2>1
<1> QED
  BY <1>1, <1>7

\* The objects with an array on the heap.
WithArray == {p \in Points : External(point[p])}

\* The invariant.
HandlesInv ==
    /\ point \in [Points -> [countFlag : Nat, cells : Seq(Nat)]]
    /\ list \in [Points -> Seq(Nat)]
    /\ added \in Nat
    /\ \A p \in Points : Keeps(point[p], list[p])
    /\ allocated = Cardinality(WithArray)

\* Sets that differ in one element.
LEMMA OneMoreOrLess ==
    ASSUME NEW T, IsFiniteSet(T), NEW U, NEW p, U \ {p} = T \ {p}
    PROVE  /\ IsFiniteSet(U)
           /\ Cardinality(U) = Cardinality(T) + (IF p \in U THEN 1 ELSE 0) - (IF p \in T THEN 1 ELSE 0)
<1>1. /\ IsFiniteSet(T \ {p}) /\ Cardinality(T) \in Nat
      /\ Cardinality(T \ {p}) = IF p \in T THEN Cardinality(T) - 1 ELSE Cardinality(T)
  BY FS_RemoveElement, FS_CardinalityType
<1> DEFINE R == T \ {p}
<1>2. p \notin R /\ IsFiniteSet(R) /\ Cardinality(R) = Cardinality(T) - (IF p \in T THEN 1 ELSE 0)
      /\ R = U \ {p}
  BY <1>1
<1> HIDE DEF R
<1>3. IsFiniteSet(R \cup {p}) /\ Cardinality(R \cup {p}) = Cardinality(R) + 1
  BY <1>2, FS_AddElement
<1>4. CASE p \in U
  <2>1. U = R \cup {p}
    BY <1>2, <1>4
  <2>2. IsFiniteSet(U) /\ Cardinality(U) = Cardinality(R) + 1
    BY ONLY <1>3, <2>1
  <2> QED
    BY <1>1, <1>2, <1>4, <2>2
<1>5. CASE p \notin U
  <2>1. U = R
    BY <1>2, <1>5
  <2> QED
    BY <1>1, <1>2, <1>5, <2>1
<1> QED
  BY <1>4, <1>5

\* There are as many arrays as objects at most.
LEMMA WithArrayFinite == IsFiniteSet(WithArray)
<1>1. WithArray \subseteq Points
  BY DEF WithArray
<1> QED
  BY <1>1, PointsAssumption, FS_Subset

\* One object changes.
LEMMA OneObject ==
    ASSUME HandlesInv, NEW p \in Points, NEW sp, NEW s \in Seq(Nat), Keeps(sp, s),
           point' = [point EXCEPT ![p] = sp], list' = [list EXCEPT ![p] = s], added' \in Nat,
           allocated' = allocated + Arrays(sp) - Arrays(point[p])
    PROVE  HandlesInv'
<1>1. \A q \in Points : /\ point'[q] = IF q = p THEN sp ELSE point[q]
                        /\ list'[q] = IF q = p THEN s ELSE list[q]
  BY DEF HandlesInv
<1>2. /\ point' \in [Points -> [countFlag : Nat, cells : Seq(Nat)]]
      /\ list' \in [Points -> Seq(Nat)]
  BY DEF HandlesInv, Keeps
<1>3. \A q \in Points : Keeps(point'[q], list'[q])
  BY <1>1 DEF HandlesInv
<1>4. /\ WithArray' \ {p} = WithArray \ {p}
      /\ p \in WithArray' <=> External(sp)
      /\ p \in WithArray <=> External(point[p])
  BY <1>1 DEF WithArray, External
<1>5. Cardinality(WithArray') = Cardinality(WithArray) + Arrays(sp) - Arrays(point[p])
  <2> DEFINE T == WithArray
             U == WithArray'
  <2>1. IsFiniteSet(T) /\ U \ {p} = T \ {p}
    BY <1>4, WithArrayFinite
  <2> HIDE DEF T, U
  <2>2. Cardinality(U) = Cardinality(T) + (IF p \in U THEN 1 ELSE 0) - (IF p \in T THEN 1 ELSE 0)
    BY <2>1, OneMoreOrLess
  <2> QED
    BY <1>4, <2>2 DEF T, U, Arrays
<1> QED
  BY <1>2, <1>3, <1>5 DEF HandlesInv

\* One object takes over from another.
LEMMA TwoObjects ==
    ASSUME HandlesInv, NEW p \in Points, NEW q \in Points, p # q, NEW sp, NEW s \in Seq(Nat), Keeps(sp, s),
           point' = [point EXCEPT ![p] = sp, ![q] = Empty], list' = [list EXCEPT ![p] = s, ![q] = <<>>],
           added' = added, allocated' = allocated + Arrays(sp) - Arrays(point[p]) - Arrays(point[q])
    PROVE  HandlesInv'
<1>1. \A r \in Points : /\ point'[r] = IF r = q THEN Empty ELSE IF r = p THEN sp ELSE point[r]
                        /\ list'[r] = IF r = q THEN <<>> ELSE IF r = p THEN s ELSE list[r]
  BY DEF HandlesInv
<1>2. /\ point' \in [Points -> [countFlag : Nat, cells : Seq(Nat)]]
      /\ list' \in [Points -> Seq(Nat)]
  <2>1. sp \in [countFlag : Nat, cells : Seq(Nat)] /\ Empty \in [countFlag : Nat, cells : Seq(Nat)]
    BY EmptyKeeps DEF Keeps
  <2> DEFINE Objects == [countFlag : Nat, cells : Seq(Nat)]
             emptied == Empty
  <2> HIDE DEF Objects, emptied
  <2>2. point \in [Points -> Objects] /\ sp \in Objects /\ emptied \in Objects /\ list \in [Points -> Seq(Nat)]
        /\ point' = [point EXCEPT ![p] = sp, ![q] = emptied]
    BY <2>1 DEF HandlesInv, Objects, emptied
  <2>3. point' \in [Points -> Objects]
    <3> DEFINE mid == [point EXCEPT ![p] = sp]
    <3>1. mid \in [Points -> Objects]
      BY <2>2
    <3>2. point' = [mid EXCEPT ![q] = emptied]
      BY <2>2
    <3> HIDE DEF mid
    <3> QED
      BY <2>2, <3>1, <3>2
  <2>4. list' \in [Points -> Seq(Nat)]
    <3> DEFINE mid == [list EXCEPT ![p] = s]
               old == Seq(Nat)
    <3>1. <<>> \in old /\ mid \in [Points -> old]
      BY <2>2
    <3>2. list' = [mid EXCEPT ![q] = <<>>]
      OBVIOUS
    <3> HIDE DEF mid, old
    <3>3. list' \in [Points -> old]
      BY <3>1, <3>2
    <3> QED
      BY <3>3 DEF old
  <2> QED
    BY <2>3, <2>4 DEF Objects
<1>3. \A r \in Points : Keeps(point'[r], list'[r])
  BY <1>1, EmptyKeeps DEF HandlesInv
<1>4. /\ WithArray' \ {p} = (WithArray \ {q}) \ {p} /\ q \notin WithArray'
      /\ p \in WithArray' <=> External(sp)
      /\ p \in WithArray \ {q} <=> External(point[p])
      /\ q \in WithArray <=> External(point[q])
  BY <1>1, EmptyKeeps DEF WithArray
<1>5. Cardinality(WithArray') = Cardinality(WithArray) + Arrays(sp) - Arrays(point[p]) - Arrays(point[q])
  <2> DEFINE T == WithArray
             M == WithArray \ {q}
             U == WithArray'
  <2>1. IsFiniteSet(T) /\ M \ {q} = T \ {q} /\ q \notin M /\ U \ {p} = M \ {p}
    BY <1>4, WithArrayFinite
  <2> HIDE DEF T, M, U
  <2>2. IsFiniteSet(M) /\ Cardinality(M) = Cardinality(T) + (IF q \in M THEN 1 ELSE 0) - (IF q \in T THEN 1 ELSE 0)
    BY <2>1, OneMoreOrLess
  <2>3. Cardinality(U) = Cardinality(M) + (IF p \in U THEN 1 ELSE 0) - (IF p \in M THEN 1 ELSE 0)
    BY <2>1, <2>2, OneMoreOrLess
  <2>4. Cardinality(T) \in Nat
    BY <2>1, FS_CardinalityType
  <2> QED
    BY <1>4, <2>1, <2>2, <2>3, <2>4 DEF T, M, U, Arrays
<1> QED
  BY <1>2, <1>3, <1>5 DEF HandlesInv

\* Each step keeps the lists.
LEMMA HandlesStep == HandlesInv /\ [HandlesNext]_handleVars => HandlesInv'
<1> SUFFICES ASSUME HandlesInv, [HandlesNext]_handleVars PROVE HandlesInv'
  OBVIOUS
<1>0. \A p \in Points : /\ Keeps(point[p], list[p]) /\ list[p] \in Seq(Nat)
                        /\ point[p] \in [countFlag : Nat, cells : Seq(Nat)]
  BY DEF HandlesInv
<1>1. ASSUME NEW p \in Points, AddHandle(p) PROVE HandlesInv'
  <2> DEFINE sp == add(point[p], added')
             s == Append(list[p], added')
  <2>1. added' \in Nat
    BY <1>1 DEF AddHandle, HandlesInv
  <2>2. Keeps(sp, s) /\ s \in Seq(Nat)
    BY <1>0, <2>1, AddKeeps
  <2>3. /\ point' = [point EXCEPT ![p] = sp] /\ list' = [list EXCEPT ![p] = s]
        /\ point'[p] = sp
    BY <1>1 DEF AddHandle, HandlesInv
  <2>4. allocated' = allocated + Arrays(sp) - Arrays(point[p])
    BY <1>1, <2>3 DEF AddHandle
  <2> HIDE DEF sp, s
  <2> QED
    BY <2>1, <2>2, <2>3, <2>4, OneObject
<1>2. ASSUME NEW p \in Points, PopHandle(p) PROVE HandlesInv'
  <2> DEFINE sp == [point[p] EXCEPT !.countFlag = @ - 2]
             s == Front(list[p])
  <2>1. Keeps(sp, s) /\ (External(sp) <=> External(point[p]))
    BY <1>0, <1>2, PopKeeps DEF PopHandle
  <2>2. s \in Seq(Nat)
    BY <2>1, HeldMeans, Halves DEF Keeps, Held, Count
  <2>3. point' = [point EXCEPT ![p] = sp] /\ list' = [list EXCEPT ![p] = s] /\ added' = added
    BY <1>2 DEF PopHandle
  <2>4. allocated' = allocated + Arrays(sp) - Arrays(point[p])
    <3>1. Arrays(sp) = Arrays(point[p]) /\ Arrays(sp) \in Nat /\ allocated' = allocated /\ allocated \in Nat
      BY <1>2, <2>1, WithArrayFinite, FS_CardinalityType DEF PopHandle, Arrays, HandlesInv
    <3> QED
      BY <3>1
  <2>5. added' \in Nat
    BY <2>3 DEF HandlesInv
  <2> HIDE DEF sp, s
  <2> QED
    BY <2>1, <2>2, <2>3, <2>4, <2>5, OneObject
<1>3. ASSUME NEW p \in Points, ClearPoint(p) PROVE HandlesInv'
  <2>1. Keeps(Empty, <<>>) /\ <<>> \in Seq(Nat) /\ Arrays(Empty) = 0
    BY EmptyKeeps DEF Arrays
  <2>2. /\ point' = [point EXCEPT ![p] = Empty] /\ list' = [list EXCEPT ![p] = <<>>]
        /\ added' \in Nat /\ allocated' = allocated + Arrays(Empty) - Arrays(point[p])
    <3>1. allocated \in Nat /\ Arrays(point[p]) \in Nat
      BY WithArrayFinite, FS_CardinalityType DEF Arrays, HandlesInv
    <3> QED
      BY <1>3, <2>1, <3>1 DEF ClearPoint, HandlesInv
  <2> QED
    BY <2>1, <2>2, OneObject
<1>4. ASSUME NEW p \in Points, NEW q \in Points, MergePoints(p, q) PROVE HandlesInv'
  <2> DEFINE sp == addAll(point[p], Held(point[q]))
             s == list[p] \o list[q]
  <2>1. Held(point[q]) = list[q]
    BY <1>0 DEF Keeps
  <2>2. Keeps(sp, s) /\ s \in Seq(Nat)
    BY <1>0, <2>1, AllKept, ConcatProperties
  <2>3. /\ p # q /\ point' = [point EXCEPT ![p] = sp, ![q] = Empty]
        /\ list' = [list EXCEPT ![p] = s, ![q] = <<>>] /\ added' = added /\ point'[p] = sp
    BY <1>4 DEF MergePoints, HandlesInv
  <2>4. allocated' = allocated + Arrays(sp) - Arrays(point[p]) - Arrays(point[q])
    BY <1>4, <2>3 DEF MergePoints
  <2> HIDE DEF sp, s
  <2> QED
    BY <2>2, <2>3, <2>4, TwoObjects
<1>5. ASSUME NEW p \in Points, NEW q \in Points, MovePoint(p, q) PROVE HandlesInv'
  <2> DEFINE sp == point[q]
             s == list[q]
  <2>1. Keeps(sp, s) /\ s \in Seq(Nat)
    BY <1>0
  <2>2. /\ p # q /\ point' = [point EXCEPT ![p] = sp, ![q] = Empty]
        /\ list' = [list EXCEPT ![p] = s, ![q] = <<>>] /\ added' = added
    BY <1>5 DEF MovePoint
  <2>3. allocated' = allocated + Arrays(sp) - Arrays(point[p]) - Arrays(point[q])
    <3>1. Arrays(point[p]) = 0
      BY <1>5, Halves DEF MovePoint, Arrays, External
    <3>2. allocated' = allocated /\ allocated \in Nat /\ Arrays(sp) \in Nat
      BY <1>5, WithArrayFinite, FS_CardinalityType DEF MovePoint, Arrays, HandlesInv
    <3> QED
      BY <3>1, <3>2
  <2> HIDE DEF s
  <2> QED
    BY <2>1, <2>2, <2>3, TwoObjects
<1>6. CASE UNCHANGED handleVars
  BY <1>6 DEF HandlesInv, handleVars, WithArray
<1> QED
  BY <1>1, <1>2, <1>3, <1>4, <1>5, <1>6 DEF HandlesNext

\* However a suspend_point has come by its handles, across each growth of its array, it has
\* them all, in their order, and no array is lost or deleted twice (suspend_point.h).
THEOREM ListsAreHeld == HandlesSpec => []HoldsTheList
<1>1. HandlesInit => HandlesInv
  <2> SUFFICES ASSUME HandlesInit PROVE HandlesInv
    OBVIOUS
  <2>1. \A p \in Points : point[p] = Empty /\ list[p] = <<>>
    BY DEF HandlesInit
  <2>2. WithArray = {}
    BY <2>1, EmptyKeeps DEF WithArray
  <2>3. /\ point \in [Points -> [countFlag : Nat, cells : Seq(Nat)]]
        /\ list \in [Points -> Seq(Nat)]
    BY EmptyKeeps DEF HandlesInit, Keeps
  <2> QED
    BY <2>1, <2>2, <2>3, EmptyKeeps, FS_EmptySet DEF HandlesInv, HandlesInit
<1>2. HandlesInv => HoldsTheList
  BY DEF HandlesInv, HoldsTheList, Keeps, WithArray
<1> QED
  BY <1>1, <1>2, HandlesStep, PTL DEF HandlesSpec

=============================================================================
