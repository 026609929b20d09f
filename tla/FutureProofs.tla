---------------------------- MODULE FutureProofs ----------------------------
(***************************************************************************)
(* Proofs about module Future, for any number of futures, promises,        *)
(* threads and awaiters.                                                   *)
(*                                                                         *)
(* The properties are not inductive by themselves.  IInv adds what the     *)
(* code relies on without saying it: which promises are in use (Moves),    *)
(* that an unresolved future holds no result yet (Unwritten), the stages   *)
(* of an awaiter (Stages) and the shape of the chains (Chains): every      *)
(* awaiter linked from a future, from another awaiter or from the cursor   *)
(* of a walk is suspended, belongs to the same future as what links it,    *)
(* and is linked from one place only.  Since the links are followed from   *)
(* place to place, no statement about whole lists is needed.  That nobody  *)
(* is lost needs one: an order in which each member of a chain is behind   *)
(* the one that links it (Reachable).                                      *)
(***************************************************************************)
EXTENDS Future, FiniteSetTheorems, WellFoundedInduction, TLAPS

\* The operands of a move assignment are alive, the target is empty, and no two
\* threads work on one target.
Moves ==
    /\ \A p \in Promises : plife[p] = "raw" => owner[p] = nullptr
    /\ \A t \in Threads :
        /\ tpc[t] = "idle" => dst[t] = nullptr
        /\ tpc[t] = "assign" => dst[t] # nullptr
        /\ src[t] = nullptr <=> dst[t] = nullptr
        /\ dst[t] # nullptr => /\ plife[dst[t]] = "alive"
                               /\ owner[dst[t]] = nullptr
        /\ src[t] # nullptr => plife[src[t]] = "alive"
        /\ \A u \in Threads : dst[t] = dst[u] => t = u \/ dst[t] = nullptr
        /\ \A u \in Threads : src[t] = dst[u] => dst[u] = nullptr

\* OneResolver, spelled out for promises and threads.
Claiming(t) == tpc[t] \in {"set", "resolve"}
Claims ==
    /\ \A p \in Promises : owner[p] # nullptr =>
        /\ flife[owner[p]] = "alive" /\ pending(owner[p])
        /\ \A q \in Promises : owner[q] = owner[p] => q = p
    /\ \A t \in Threads : Claiming(t) =>
        /\ tfut[t] \in Futures
        /\ flife[tfut[t]] = "alive" /\ pending(tfut[t])
        /\ \A p \in Promises : owner[p] # tfut[t]
        /\ \A u \in Threads : Claiming(u) /\ tfut[u] = tfut[t] => u = t
    /\ \A f \in Futures : flife[f] = "alive" /\ pending(f) =>
        \/ \E p \in Promises : owner[p] = f
        \/ \E t \in Threads : Claiming(t) /\ tfut[t] = f

\* A future is not written before somebody claimed it, and what the one who
\* claimed it wrote is what it publishes.
Unwritten ==
    /\ \A f \in Futures :
        /\ flife[f] = "raw" => awt[f] = instance
        /\ awt[f] = instance => result[f] = "not_value"
    /\ \A p \in Promises : owner[p] # nullptr => result[owner[p]] = "not_value"

\* Where the threads and the awaiters are.
Stages ==
    /\ \A t \in Threads :
        /\ tpc[t] \in {"walk", "flush"} => tfut[t] \in Futures /\ ready(tfut[t])
        /\ tpc[t] # "walk" => cursor[t] = nullptr
        /\ \A y \in sp[t] : wpc[y] = "collected"
        /\ \A u \in Threads, y \in sp[t] : y \in sp[u] => t = u
    /\ \A w \in Waiters :
        /\ wpc[w] = "idle" <=> wfut[w] = nullptr
        /\ wpc[w] # "idle" => /\ flife[wfut[w]] # "raw"
                              /\ awt[wfut[w]] # instance
        /\ wpc[w] \notin {"idle", "done"} => flife[wfut[w]] = "alive"
        /\ wpc[w] = "idle" => next[w] = nullptr
        /\ wpc[w] # "done" => got[w] = "none"
        /\ \A v \in Waiters : w \in Heaps /\ wfut[v] = wfut[w] => v = w \/ wpc[w] = "idle"

Chains ==
    /\ \A f \in Futures : awt[f] \in Waiters =>
        /\ wpc[awt[f]] = "suspended" /\ wfut[awt[f]] = f
        /\ \A w \in Waiters : wpc[w] = "suspended" => next[w] # awt[f]
        /\ \A t \in Threads : cursor[t] # awt[f]
    /\ \A w \in Waiters : wpc[w] = "suspended" /\ next[w] \in Waiters =>
        /\ wpc[next[w]] = "suspended" /\ wfut[next[w]] = wfut[w]
        /\ \A v \in Waiters : wpc[v] = "suspended" /\ next[v] = next[w] => v = w
        /\ \A t \in Threads : cursor[t] # next[w]
    /\ \A t \in Threads : cursor[t] \in Waiters =>
        /\ wpc[cursor[t]] = "suspended" /\ wfut[cursor[t]] = tfut[t]
        /\ \A u \in Threads : cursor[u] = cursor[t] => u = t

IInv ==
    /\ TypeOK /\ Moves /\ Claims
    /\ Unwritten /\ SetOnce /\ Stages /\ Chains /\ OneOutcome

-----------------------------------------------------------------------------
(* The invariant holds initially *)
LEMMA InitInv == Init => IInv
BY PointersAssumption, KindsAssumption DEF Init, IInv, TypeOK, Results, Outcomes, Waiters, Moves,
   Claims, Claiming, pending, ready, Unwritten, SetOnce, Stages, Chains, OneOutcome

-----------------------------------------------------------------------------
(* Lemmas *)

\* value() returns or throws one of the outcomes.
LEMMA ValueType == TypeOK => \A f \in Futures : value(f) \in Outcomes
BY DEF TypeOK, value, Results, Outcomes

\* A thread that claimed a future is the only one that can resolve it.
LEMMA Claimed ==
    ASSUME IInv, NEW t \in Threads, tpc[t] \in {"set", "resolve"}
    PROVE  /\ tfut[t] \in Futures
           /\ flife[tfut[t]] = "alive"
           /\ awt[tfut[t]] \in Waiters \cup {nullptr}
           /\ \A p \in Promises : owner[p] # tfut[t]
           /\ \A u \in Threads : tpc[u] \in {"set", "resolve"} /\ tfut[u] = tfut[t] => u = t
BY DEF IInv, TypeOK, Claims, Claiming, pending


\* Moving a promise passes its future on to the target, which is empty.
LEMMA MoveKeepsClaims ==
    ASSUME Claims, NEW p \in Promises, NEW q \in Promises,
           owner \in [Promises -> Futures \cup {nullptr}],
           owner[p] = nullptr,
           \A x \in Promises : owner'[x] = IF x = p THEN owner[q] ELSE
                                           IF x = q THEN nullptr ELSE owner[x],
           flife' = flife, awt' = awt, tfut' = tfut,
           \A u \in Threads : Claiming(u)' <=> Claiming(u)
    PROVE  Claims'
<1>1. \A x \in Promises : owner'[x] # nullptr =>
        /\ flife'[owner'[x]] = "alive" /\ awt'[owner'[x]] \notin {instance, disabled}
        /\ \A y \in Promises : owner'[y] = owner'[x] => y = x
  BY DEF Claims, pending
<1>2. \A u \in Threads : Claiming(u)' =>
        /\ tfut'[u] \in Futures
        /\ flife'[tfut'[u]] = "alive" /\ awt'[tfut'[u]] \notin {instance, disabled}
        /\ \A x \in Promises : owner'[x] # tfut'[u]
        /\ \A x \in Threads : Claiming(x)' /\ tfut'[x] = tfut'[u] => x = u
  BY PointersAssumption DEF Claims, pending
<1>3. ASSUME NEW g \in Futures, flife'[g] = "alive", pending(g)'
      PROVE  \/ \E x \in Promises : owner'[x] = g
             \/ \E u \in Threads : Claiming(u)' /\ tfut'[u] = g
  <2>1. \/ \E x \in Promises : owner[x] = g
        \/ \E u \in Threads : Claiming(u) /\ tfut[u] = g
    BY <1>3 DEF Claims, pending
  <2> QED
    BY <2>1, PointersAssumption
<1> QED
  BY <1>1, <1>2, <1>3 DEF Claims, pending

\* Claiming a future passes its one resolver on from the promise to the thread.
LEMMA ClaimKeepsClaims ==
    ASSUME IInv, NEW t \in Threads, NEW p \in Promises, NEW r \in Results,
           NEW after \in {"idle", "assign"},
           tpc[t] = "idle", claim(t, p, r, after), UNCHANGED future_vars
    PROVE  Claims'
<1>1. /\ Claims
      /\ owner \in [Promises -> Futures \cup {nullptr}]
      /\ tfut \in [Threads -> Futures \cup {nullptr}]
      /\ tpc \in [Threads -> {"idle", "set", "resolve", "walk", "flush", "assign"}]
  BY DEF IInv, TypeOK
<1>2. flife' = flife /\ awt' = awt
  BY DEF future_vars
<1>3. \A q \in Promises : owner'[q] = IF q = p THEN nullptr ELSE owner[q]
  BY <1>1 DEF claim
<1>4. CASE owner[p] = nullptr
  <2>1. tfut' = tfut /\ \A q \in Promises : owner'[q] = owner[q]
    BY <1>3, <1>4 DEF claim
  <2>2. \A u \in Threads : Claiming(u)' <=> Claiming(u)
    BY <1>1, <1>4 DEF claim, Claiming
  <2> QED
    BY <1>1, <1>2, <2>1, <2>2 DEF Claims, pending
<1>5. CASE owner[p] # nullptr
  <2> DEFINE f == owner[p]
  <2>1. /\ f \in Futures /\ flife[f] = "alive" /\ pending(f) /\ f # nullptr
        /\ \A q \in Promises : owner[q] = f => q = p
        /\ \A u \in Threads : Claiming(u) => tfut[u] # f
    BY <1>1, <1>5 DEF Claims, pending
  <2>2. /\ \A u \in Threads : tfut'[u] = IF u = t THEN f ELSE tfut[u]
        /\ \A u \in Threads : Claiming(u)' <=> u = t \/ Claiming(u)
        /\ ~Claiming(t)
    BY <1>1, <1>5 DEF claim, Claiming
  <2> HIDE DEF f
  <2>3. \A q \in Promises : owner'[q] # nullptr =>
          /\ flife'[owner'[q]] = "alive" /\ awt'[owner'[q]] \notin {instance, disabled}
          /\ \A x \in Promises : owner'[x] = owner'[q] => x = q
    BY <1>1, <1>2, <1>3 DEF Claims, pending
  <2>4. \A u \in Threads : Claiming(u)' =>
          /\ tfut'[u] \in Futures
          /\ flife'[tfut'[u]] = "alive" /\ awt'[tfut'[u]] \notin {instance, disabled}
          /\ \A q \in Promises : owner'[q] # tfut'[u]
          /\ \A x \in Threads : Claiming(x)' /\ tfut'[x] = tfut'[u] => x = u
    BY <1>1, <1>2, <1>3, <2>1, <2>2, PointersAssumption DEF Claims, pending
  <2>5. ASSUME NEW g \in Futures, flife'[g] = "alive", pending(g)'
        PROVE  \/ \E q \in Promises : owner'[q] = g
               \/ \E u \in Threads : Claiming(u)' /\ tfut'[u] = g
    <3>1. \/ \E q \in Promises : owner[q] = g
          \/ \E u \in Threads : Claiming(u) /\ tfut[u] = g
      BY <1>1, <1>2, <2>5 DEF Claims, pending
    <3> QED
      BY <3>1, <1>3, <2>2 DEF f
  <2> QED
    BY <2>3, <2>4, <2>5 DEF Claims, pending
<1> QED
  BY <1>4, <1>5

\* Every step keeps the types: a thread that resolves has a pending future.
LEMMA TypeStep == IInv /\ [Next]_vars => TypeOK'
<1> SUFFICES ASSUME IInv, [Next]_vars PROVE TypeOK'
  OBVIOUS
<1> USE PointersAssumption DEF IInv, TypeOK, Waiters, Results, Outcomes,
           vars, future_vars, promise_vars, waiter_vars, thread_vars
<1>1. ASSUME NEW f \in Futures, Construct(f)
     PROVE  TypeOK'
  BY <1>1 DEF Construct
<1>2. ASSUME NEW f \in Futures, DestroyFuture(f)
     PROVE  TypeOK'
  BY <1>2 DEF DestroyFuture
<1>3. ASSUME NEW f \in Futures, NEW r \in Results, ConstructReady(f, r)
     PROVE  TypeOK'
  BY <1>3 DEF ConstructReady
<1>4. ASSUME NEW f \in Futures, NEW p \in Promises, ConstructWithPromise(f, p)
     PROVE  TypeOK'
  BY <1>4 DEF ConstructWithPromise, NewPromise
<1>5. ASSUME NEW f \in Futures, NEW p \in Promises, get_promise(f, p)
     PROVE  TypeOK'
  BY <1>5 DEF get_promise, NewPromise
<1>6. ASSUME NEW f \in Futures, NEW p \in Promises, NEW w \in Waiters, make_promise(f, p, w)
     PROVE  TypeOK'
  BY <1>6 DEF make_promise, NewPromise
<1>7. ASSUME NEW t \in Threads, NEW p \in Promises, NEW r \in Results, Call(t, p, r)
     PROVE  TypeOK'
  BY <1>7 DEF Call, claim
<1>8. ASSUME NEW t \in Threads, NEW p \in Promises, DestroyPromise(t, p)
     PROVE  TypeOK'
  BY <1>8 DEF DestroyPromise, claim
<1>9. ASSUME NEW p \in Promises, NEW q \in Promises, MoveConstruct(p, q)
     PROVE  TypeOK'
  BY <1>9 DEF MoveConstruct
<1>10. ASSUME NEW t \in Threads, NEW p \in Promises, NEW q \in Promises, MoveAssign(t, p, q)
     PROVE  TypeOK'
  BY <1>10 DEF MoveAssign, claim
<1>11. ASSUME NEW t \in Threads, MoveAssignEnd(t)
     PROVE  TypeOK'
  BY <1>11 DEF MoveAssignEnd, Moves
<1>12. ASSUME NEW t \in Threads, set(t)
     PROVE  TypeOK'
  BY <1>12, Claimed DEF set
<1>13. ASSUME NEW t \in Threads, resolve(t)
     PROVE  TypeOK'
  BY <1>13, Claimed DEF resolve
<1>14. ASSUME NEW t \in Threads, ResumeCoro(t)
     PROVE  TypeOK'
  BY <1>14 DEF ResumeCoro, Unlink
<1>15. ASSUME NEW t \in Threads, ResumeSync(t)
     PROVE  TypeOK'
  BY <1>15 DEF ResumeSync, Unlink
<1>16. ASSUME NEW t \in Threads, ResumeCallback(t)
     PROVE  TypeOK'
  BY <1>16, ValueType DEF ResumeCallback, Unlink, Chains, Stages
<1>17. ASSUME NEW t \in Threads, WalkEnd(t)
     PROVE  TypeOK'
  BY <1>17 DEF WalkEnd
<1>18. ASSUME NEW t \in Threads, ResumeHandle(t)
     PROVE  TypeOK'
  BY <1>18 DEF ResumeHandle
<1>19. ASSUME NEW t \in Threads, Return(t)
     PROVE  TypeOK'
  BY <1>19 DEF Return
<1>20. ASSUME NEW w \in Waiters, NEW f \in Futures, Await(w, f)
     PROVE  TypeOK'
  BY <1>20 DEF Await
<1>21. ASSUME NEW w \in Waiters, SubscribeLinked(w)
     PROVE  TypeOK'
  BY <1>21 DEF SubscribeLinked, Stages
<1>22. ASSUME NEW w \in Waiters, SubscribeRetry(w)
     PROVE  TypeOK'
  BY <1>22 DEF SubscribeRetry, Stages
<1>23. ASSUME NEW w \in Waiters, SubscribeReady(w)
     PROVE  TypeOK'
  BY <1>23 DEF SubscribeReady, Stages
<1>24. ASSUME NEW w \in Waiters, await_resume(w)
     PROVE  TypeOK'
  BY <1>24, ValueType DEF await_resume, Stages
<1>25. CASE UNCHANGED vars
  BY <1>25 
<1> QED
  BY <1>1, <1>2, <1>3, <1>4, <1>5, <1>6, <1>7, <1>8, <1>9, <1>10, <1>11, <1>12, <1>13, <1>14,
     <1>15, <1>16, <1>17, <1>18, <1>19, <1>20, <1>21, <1>22, <1>23, <1>24, <1>25 DEF Next,
     ThreadStep, WaiterStep

\* Every step respects the operands of the move assignments in progress.
LEMMA MovesStep == IInv /\ [Next]_vars => Moves'
<1> SUFFICES ASSUME IInv, [Next]_vars PROVE Moves'
  OBVIOUS
<1> USE PointersAssumption DEF IInv, TypeOK, Moves, Busy,
           vars, future_vars, promise_vars, waiter_vars, thread_vars
<1>1. ASSUME NEW f \in Futures, Construct(f)
     PROVE  Moves'
  BY <1>1 DEF Construct
<1>2. ASSUME NEW f \in Futures, DestroyFuture(f)
     PROVE  Moves'
  BY <1>2 DEF DestroyFuture
<1>3. ASSUME NEW f \in Futures, NEW r \in Results, ConstructReady(f, r)
     PROVE  Moves'
  BY <1>3 DEF ConstructReady
<1>4. ASSUME NEW f \in Futures, NEW p \in Promises, ConstructWithPromise(f, p)
     PROVE  Moves'
  BY <1>4 DEF ConstructWithPromise, NewPromise
<1>5. ASSUME NEW f \in Futures, NEW p \in Promises, get_promise(f, p)
     PROVE  Moves'
  BY <1>5 DEF get_promise, NewPromise
<1>6. ASSUME NEW f \in Futures, NEW p \in Promises, NEW w \in Waiters, make_promise(f, p, w)
     PROVE  Moves'
  BY <1>6 DEF make_promise, NewPromise
<1>7. ASSUME NEW t \in Threads, NEW p \in Promises, NEW r \in Results, Call(t, p, r)
     PROVE  Moves'
  BY <1>7 DEF Call, claim
<1>8. ASSUME NEW t \in Threads, NEW p \in Promises, DestroyPromise(t, p)
     PROVE  Moves'
  BY <1>8 DEF DestroyPromise, claim
<1>9. ASSUME NEW p \in Promises, NEW q \in Promises, MoveConstruct(p, q)
     PROVE  Moves'
  BY <1>9 DEF MoveConstruct
<1>10. ASSUME NEW t \in Threads, NEW p \in Promises, NEW q \in Promises, MoveAssign(t, p, q)
     PROVE  Moves'
  BY <1>10 DEF MoveAssign, claim, Busy
<1>11. ASSUME NEW t \in Threads, MoveAssignEnd(t)
     PROVE  Moves'
  BY <1>11 DEF MoveAssignEnd
<1>12. ASSUME NEW t \in Threads, set(t)
     PROVE  Moves'
  BY <1>12 DEF set
<1>13. ASSUME NEW t \in Threads, resolve(t)
     PROVE  Moves'
  BY <1>13 DEF resolve
<1>14. ASSUME NEW t \in Threads, ResumeCoro(t)
     PROVE  Moves'
  BY <1>14 DEF ResumeCoro, Unlink
<1>15. ASSUME NEW t \in Threads, ResumeSync(t)
     PROVE  Moves'
  BY <1>15 DEF ResumeSync, Unlink
<1>16. ASSUME NEW t \in Threads, ResumeCallback(t)
     PROVE  Moves'
  BY <1>16 DEF ResumeCallback, Unlink
<1>17. ASSUME NEW t \in Threads, WalkEnd(t)
     PROVE  Moves'
  BY <1>17 DEF WalkEnd
<1>18. ASSUME NEW t \in Threads, ResumeHandle(t)
     PROVE  Moves'
  BY <1>18 DEF ResumeHandle
<1>19. ASSUME NEW t \in Threads, Return(t)
     PROVE  Moves'
  BY <1>19 DEF Return
<1>20. ASSUME NEW w \in Waiters, NEW f \in Futures, Await(w, f)
     PROVE  Moves'
  BY <1>20 DEF Await
<1>21. ASSUME NEW w \in Waiters, SubscribeLinked(w)
     PROVE  Moves'
  BY <1>21 DEF SubscribeLinked
<1>22. ASSUME NEW w \in Waiters, SubscribeRetry(w)
     PROVE  Moves'
  BY <1>22 DEF SubscribeRetry
<1>23. ASSUME NEW w \in Waiters, SubscribeReady(w)
     PROVE  Moves'
  BY <1>23 DEF SubscribeReady
<1>24. ASSUME NEW w \in Waiters, await_resume(w)
     PROVE  Moves'
  BY <1>24 DEF await_resume
<1>25. CASE UNCHANGED vars
  BY <1>25 
<1> QED
  BY <1>1, <1>2, <1>3, <1>4, <1>5, <1>6, <1>7, <1>8, <1>9, <1>10, <1>11, <1>12, <1>13, <1>14,
     <1>15, <1>16, <1>17, <1>18, <1>19, <1>20, <1>21, <1>22, <1>23, <1>24, <1>25 DEF Next,
     ThreadStep, WaiterStep

\* Every step keeps one resolver per pending future.
LEMMA ClaimsStep == IInv /\ [Next]_vars => Claims'
<1> SUFFICES ASSUME IInv, [Next]_vars PROVE Claims'
  OBVIOUS
<1>1. ASSUME NEW f \in Futures, Construct(f)
     PROVE  Claims'
  BY <1>1, PointersAssumption DEF Construct, IInv, TypeOK,
     Claims, Claiming, pending, Unwritten, promise_vars, waiter_vars, thread_vars
<1>2. ASSUME NEW f \in Futures, DestroyFuture(f)
     PROVE  Claims'
  BY <1>2, PointersAssumption DEF DestroyFuture, IInv, TypeOK,
     Claims, Claiming, pending, promise_vars, waiter_vars, thread_vars
<1>3. ASSUME NEW f \in Futures, NEW r \in Results, ConstructReady(f, r)
     PROVE  Claims'
  BY <1>3, PointersAssumption DEF ConstructReady, IInv, TypeOK,
     Claims, Claiming, pending, Unwritten, promise_vars, waiter_vars, thread_vars
<1>4. ASSUME NEW f \in Futures, NEW p \in Promises, ConstructWithPromise(f, p)
     PROVE  Claims'
  BY <1>4, PointersAssumption DEF ConstructWithPromise, NewPromise, IInv, TypeOK,
     Claims, Claiming, pending, Moves, Unwritten, waiter_vars, thread_vars
<1>5. ASSUME NEW f \in Futures, NEW p \in Promises, get_promise(f, p)
     PROVE  Claims'
  BY <1>5, PointersAssumption DEF get_promise, NewPromise, IInv, TypeOK,
     Claims, Claiming, pending, Moves, waiter_vars, thread_vars
<1>6. ASSUME NEW f \in Futures, NEW p \in Promises, NEW w \in Waiters, make_promise(f, p, w)
     PROVE  Claims'
  BY <1>6, PointersAssumption DEF make_promise, NewPromise, IInv, TypeOK,
     Claims, Claiming, pending, Moves, Unwritten, Waiters, thread_vars
<1>7. ASSUME NEW t \in Threads, NEW p \in Promises, NEW r \in Results, Call(t, p, r)
     PROVE  Claims'
  BY <1>7, ClaimKeepsClaims DEF Call
<1>8. ASSUME NEW t \in Threads, NEW p \in Promises, DestroyPromise(t, p)
     PROVE  Claims'
  BY <1>8, ClaimKeepsClaims DEF DestroyPromise, Results
<1>9. ASSUME NEW p \in Promises, NEW q \in Promises, MoveConstruct(p, q)
     PROVE  Claims'
  <2>1. /\ Claims
        /\ owner \in [Promises -> Futures \cup {nullptr}]
        /\ owner[p] = nullptr
    BY <1>9 DEF MoveConstruct, IInv, TypeOK, Moves
  <2>2. \A x \in Promises : owner'[x] = IF x = p THEN owner[q] ELSE
                                        IF x = q THEN nullptr ELSE owner[x]
    BY <1>9, <2>1 DEF MoveConstruct
  <2>3. /\ flife' = flife /\ awt' = awt /\ tfut' = tfut
        /\ \A u : Claiming(u)' <=> Claiming(u)
    BY <1>9 DEF MoveConstruct, future_vars, thread_vars, Claiming
  <2> QED
    BY <2>1, <2>2, <2>3, MoveKeepsClaims
<1>10. ASSUME NEW t \in Threads, NEW p \in Promises, NEW q \in Promises, MoveAssign(t, p, q)
     PROVE  Claims'
  <2>1. "not_value" \in Results
    BY DEF Results
  <2> QED
    BY <1>10, <2>1, ClaimKeepsClaims DEF MoveAssign
<1>11. ASSUME NEW t \in Threads, MoveAssignEnd(t)
     PROVE  Claims'
  <2>1. /\ Claims
        /\ owner \in [Promises -> Futures \cup {nullptr}]
        /\ tpc \in [Threads -> {"idle", "set", "resolve", "walk", "flush", "assign"}]
        /\ dst[t] \in Promises /\ src[t] \in Promises
        /\ owner[dst[t]] = nullptr
    BY <1>11 DEF MoveAssignEnd, IInv, TypeOK, Moves
  <2>2. \A x \in Promises : owner'[x] = IF x = dst[t] THEN owner[src[t]] ELSE
                                        IF x = src[t] THEN nullptr ELSE owner[x]
    BY <1>11, <2>1 DEF MoveAssignEnd
  <2>3. /\ flife' = flife /\ awt' = awt /\ tfut' = tfut
        /\ \A u \in Threads : Claiming(u)' <=> Claiming(u)
    BY <1>11, <2>1 DEF MoveAssignEnd, future_vars, Claiming
  <2> QED
    BY <2>1, <2>2, <2>3, MoveKeepsClaims
<1>12. ASSUME NEW t \in Threads, set(t)
     PROVE  Claims'
  BY <1>12, PointersAssumption DEF set, IInv, TypeOK,
     Claims, Claiming, pending, promise_vars, waiter_vars
<1>13. ASSUME NEW t \in Threads, resolve(t)
     PROVE  Claims'
  BY <1>13, PointersAssumption DEF resolve, IInv, TypeOK,
     Claims, Claiming, pending, Waiters, promise_vars, waiter_vars
<1>14. ASSUME NEW t \in Threads, ResumeCoro(t)
     PROVE  Claims'
  BY <1>14, PointersAssumption DEF ResumeCoro, Unlink, IInv, TypeOK,
     Claims, Claiming, pending, future_vars, promise_vars
<1>15. ASSUME NEW t \in Threads, ResumeSync(t)
     PROVE  Claims'
  BY <1>15, PointersAssumption DEF ResumeSync, Unlink, IInv, TypeOK,
     Claims, Claiming, pending, future_vars, promise_vars
<1>16. ASSUME NEW t \in Threads, ResumeCallback(t)
     PROVE  Claims'
  <2>1. PICK y \in Callbacks \cup Heaps :
          /\ Unlink(t, y)
          /\ flife' = flife \/ flife' = [flife EXCEPT ![wfut[y]] = "dead"]
          /\ UNCHANGED <<awt, owner, tpc, tfut>>
    BY <1>16 DEF ResumeCallback, promise_vars
  <2>2. ~pending(wfut[y])
    BY <2>1 DEF Unlink, IInv, Stages, Chains, Waiters, pending, ready
  <2> QED
    BY <2>1, <2>2 DEF IInv, TypeOK, Claims, Claiming, pending
<1>17. ASSUME NEW t \in Threads, WalkEnd(t)
     PROVE  Claims'
  BY <1>17, PointersAssumption DEF WalkEnd, IInv, TypeOK,
     Claims, Claiming, pending, future_vars, promise_vars, waiter_vars
<1>18. ASSUME NEW t \in Threads, ResumeHandle(t)
     PROVE  Claims'
  BY <1>18, PointersAssumption DEF ResumeHandle, IInv, TypeOK,
     Claims, Claiming, pending, future_vars, promise_vars
<1>19. ASSUME NEW t \in Threads, Return(t)
     PROVE  Claims'
  BY <1>19, PointersAssumption DEF Return, IInv, TypeOK,
     Claims, Claiming, pending, future_vars, promise_vars, waiter_vars
<1>20. ASSUME NEW w \in Waiters, NEW f \in Futures, Await(w, f)
     PROVE  Claims'
  BY <1>20, PointersAssumption DEF Await, IInv, TypeOK,
     Claims, Claiming, pending, future_vars, promise_vars, thread_vars
<1>21. ASSUME NEW w \in Waiters, SubscribeLinked(w)
     PROVE  Claims'
  BY <1>21, PointersAssumption DEF SubscribeLinked, IInv, TypeOK,
     Claims, Claiming, pending, Stages, Waiters, promise_vars, thread_vars
<1>22. ASSUME NEW w \in Waiters, SubscribeRetry(w)
     PROVE  Claims'
  BY <1>22, PointersAssumption DEF SubscribeRetry, IInv, TypeOK,
     Claims, Claiming, pending, future_vars, promise_vars, thread_vars
<1>23. ASSUME NEW w \in Waiters, SubscribeReady(w)
     PROVE  Claims'
  BY <1>23, PointersAssumption DEF SubscribeReady, IInv, TypeOK,
     Claims, Claiming, pending, future_vars, promise_vars, thread_vars
<1>24. ASSUME NEW w \in Waiters, await_resume(w)
     PROVE  Claims'
  BY <1>24, PointersAssumption DEF await_resume, IInv, TypeOK,
     Claims, Claiming, pending, ready, Stages, OneOutcome, promise_vars, thread_vars
<1>25. CASE UNCHANGED vars
  BY <1>25 DEF IInv, Claims, Claiming, pending, vars, future_vars, promise_vars, waiter_vars,
     thread_vars
<1> QED
  BY <1>1, <1>2, <1>3, <1>4, <1>5, <1>6, <1>7, <1>8, <1>9, <1>10, <1>11, <1>12, <1>13, <1>14,
     <1>15, <1>16, <1>17, <1>18, <1>19, <1>20, <1>21, <1>22, <1>23, <1>24, <1>25 DEF Next,
     ThreadStep, WaiterStep

\* Only the one who claimed a future writes it.
LEMMA UnwrittenStep == IInv /\ [Next]_vars => Unwritten'
<1> SUFFICES ASSUME IInv, [Next]_vars PROVE Unwritten'
  OBVIOUS
<1> USE PointersAssumption DEF IInv, TypeOK, Moves, Claims, Claiming, pending, Unwritten, SetOnce, Stages, Waiters, Results, Outcomes,
           vars, future_vars, promise_vars, waiter_vars, thread_vars
<1>1. ASSUME NEW f \in Futures, Construct(f)
     PROVE  Unwritten'
  BY <1>1 DEF Construct
<1>2. ASSUME NEW f \in Futures, DestroyFuture(f)
     PROVE  Unwritten'
  BY <1>2 DEF DestroyFuture
<1>3. ASSUME NEW f \in Futures, NEW r \in Results, ConstructReady(f, r)
     PROVE  Unwritten'
  BY <1>3 DEF ConstructReady
<1>4. ASSUME NEW f \in Futures, NEW p \in Promises, ConstructWithPromise(f, p)
     PROVE  Unwritten'
  BY <1>4 DEF ConstructWithPromise, NewPromise
<1>5. ASSUME NEW f \in Futures, NEW p \in Promises, get_promise(f, p)
     PROVE  Unwritten'
  BY <1>5 DEF get_promise, NewPromise
<1>6. ASSUME NEW f \in Futures, NEW p \in Promises, NEW w \in Waiters, make_promise(f, p, w)
     PROVE  Unwritten'
  BY <1>6 DEF make_promise, NewPromise
<1>7. ASSUME NEW t \in Threads, NEW p \in Promises, NEW r \in Results, Call(t, p, r)
     PROVE  Unwritten'
  BY <1>7 DEF Call, claim
<1>8. ASSUME NEW t \in Threads, NEW p \in Promises, DestroyPromise(t, p)
     PROVE  Unwritten'
  BY <1>8 DEF DestroyPromise, claim
<1>9. ASSUME NEW p \in Promises, NEW q \in Promises, MoveConstruct(p, q)
     PROVE  Unwritten'
  BY <1>9 DEF MoveConstruct
<1>10. ASSUME NEW t \in Threads, NEW p \in Promises, NEW q \in Promises, MoveAssign(t, p, q)
     PROVE  Unwritten'
  BY <1>10 DEF MoveAssign, claim, Busy
<1>11. ASSUME NEW t \in Threads, MoveAssignEnd(t)
     PROVE  Unwritten'
  BY <1>11 DEF MoveAssignEnd
<1>12. ASSUME NEW t \in Threads, set(t)
     PROVE  Unwritten'
  <2>1. tfut[t] \in Futures /\ awt[tfut[t]] \in Waiters \cup {nullptr}
        /\ \A p \in Promises : owner[p] # tfut[t]
    BY <1>12, Claimed DEF set
  <2> QED
    BY <1>12, <2>1 DEF set
<1>13. ASSUME NEW t \in Threads, resolve(t)
     PROVE  Unwritten'
  BY <1>13 DEF resolve
<1>14. ASSUME NEW t \in Threads, ResumeCoro(t)
     PROVE  Unwritten'
  BY <1>14 DEF ResumeCoro, Unlink
<1>15. ASSUME NEW t \in Threads, ResumeSync(t)
     PROVE  Unwritten'
  BY <1>15 DEF ResumeSync, Unlink
<1>16. ASSUME NEW t \in Threads, ResumeCallback(t)
     PROVE  Unwritten'
  BY <1>16 DEF ResumeCallback, Unlink
<1>17. ASSUME NEW t \in Threads, WalkEnd(t)
     PROVE  Unwritten'
  BY <1>17 DEF WalkEnd
<1>18. ASSUME NEW t \in Threads, ResumeHandle(t)
     PROVE  Unwritten'
  BY <1>18 DEF ResumeHandle
<1>19. ASSUME NEW t \in Threads, Return(t)
     PROVE  Unwritten'
  BY <1>19 DEF Return
<1>20. ASSUME NEW w \in Waiters, NEW f \in Futures, Await(w, f)
     PROVE  Unwritten'
  BY <1>20 DEF Await
<1>21. ASSUME NEW w \in Waiters, SubscribeLinked(w)
     PROVE  Unwritten'
  BY <1>21 DEF SubscribeLinked
<1>22. ASSUME NEW w \in Waiters, SubscribeRetry(w)
     PROVE  Unwritten'
  BY <1>22 DEF SubscribeRetry
<1>23. ASSUME NEW w \in Waiters, SubscribeReady(w)
     PROVE  Unwritten'
  BY <1>23 DEF SubscribeReady
<1>24. ASSUME NEW w \in Waiters, await_resume(w)
     PROVE  Unwritten'
  BY <1>24 DEF await_resume
<1>25. CASE UNCHANGED vars
  BY <1>25 
<1> QED
  BY <1>1, <1>2, <1>3, <1>4, <1>5, <1>6, <1>7, <1>8, <1>9, <1>10, <1>11, <1>12, <1>13, <1>14,
     <1>15, <1>16, <1>17, <1>18, <1>19, <1>20, <1>21, <1>22, <1>23, <1>24, <1>25 DEF Next,
     ThreadStep, WaiterStep

\* future::set() finds no result, since a future is claimed once.
LEMMA SetOnceStep == IInv /\ [Next]_vars => SetOnce'
<1> SUFFICES ASSUME IInv, [Next]_vars PROVE SetOnce'
  OBVIOUS
<1> USE PointersAssumption DEF IInv, TypeOK, Moves, Claims, Claiming, pending, Unwritten, SetOnce, Stages, Waiters, Results, Outcomes,
           vars, future_vars, promise_vars, waiter_vars, thread_vars
<1>1. ASSUME NEW f \in Futures, Construct(f)
     PROVE  SetOnce'
  BY <1>1 DEF Construct
<1>2. ASSUME NEW f \in Futures, DestroyFuture(f)
     PROVE  SetOnce'
  BY <1>2 DEF DestroyFuture
<1>3. ASSUME NEW f \in Futures, NEW r \in Results, ConstructReady(f, r)
     PROVE  SetOnce'
  BY <1>3 DEF ConstructReady
<1>4. ASSUME NEW f \in Futures, NEW p \in Promises, ConstructWithPromise(f, p)
     PROVE  SetOnce'
  BY <1>4 DEF ConstructWithPromise, NewPromise
<1>5. ASSUME NEW f \in Futures, NEW p \in Promises, get_promise(f, p)
     PROVE  SetOnce'
  BY <1>5 DEF get_promise, NewPromise
<1>6. ASSUME NEW f \in Futures, NEW p \in Promises, NEW w \in Waiters, make_promise(f, p, w)
     PROVE  SetOnce'
  BY <1>6 DEF make_promise, NewPromise
<1>7. ASSUME NEW t \in Threads, NEW p \in Promises, NEW r \in Results, Call(t, p, r)
     PROVE  SetOnce'
  BY <1>7 DEF Call, claim
<1>8. ASSUME NEW t \in Threads, NEW p \in Promises, DestroyPromise(t, p)
     PROVE  SetOnce'
  BY <1>8 DEF DestroyPromise, claim
<1>9. ASSUME NEW p \in Promises, NEW q \in Promises, MoveConstruct(p, q)
     PROVE  SetOnce'
  BY <1>9 DEF MoveConstruct
<1>10. ASSUME NEW t \in Threads, NEW p \in Promises, NEW q \in Promises, MoveAssign(t, p, q)
     PROVE  SetOnce'
  BY <1>10 DEF MoveAssign, claim, Busy
<1>11. ASSUME NEW t \in Threads, MoveAssignEnd(t)
     PROVE  SetOnce'
  BY <1>11 DEF MoveAssignEnd
<1>12. ASSUME NEW t \in Threads, set(t)
     PROVE  SetOnce'
  BY <1>12 DEF set
<1>13. ASSUME NEW t \in Threads, resolve(t)
     PROVE  SetOnce'
  BY <1>13 DEF resolve
<1>14. ASSUME NEW t \in Threads, ResumeCoro(t)
     PROVE  SetOnce'
  BY <1>14 DEF ResumeCoro, Unlink
<1>15. ASSUME NEW t \in Threads, ResumeSync(t)
     PROVE  SetOnce'
  BY <1>15 DEF ResumeSync, Unlink
<1>16. ASSUME NEW t \in Threads, ResumeCallback(t)
     PROVE  SetOnce'
  BY <1>16 DEF ResumeCallback, Unlink
<1>17. ASSUME NEW t \in Threads, WalkEnd(t)
     PROVE  SetOnce'
  BY <1>17 DEF WalkEnd
<1>18. ASSUME NEW t \in Threads, ResumeHandle(t)
     PROVE  SetOnce'
  BY <1>18 DEF ResumeHandle
<1>19. ASSUME NEW t \in Threads, Return(t)
     PROVE  SetOnce'
  BY <1>19 DEF Return
<1>20. ASSUME NEW w \in Waiters, NEW f \in Futures, Await(w, f)
     PROVE  SetOnce'
  BY <1>20 DEF Await
<1>21. ASSUME NEW w \in Waiters, SubscribeLinked(w)
     PROVE  SetOnce'
  BY <1>21 DEF SubscribeLinked
<1>22. ASSUME NEW w \in Waiters, SubscribeRetry(w)
     PROVE  SetOnce'
  BY <1>22 DEF SubscribeRetry
<1>23. ASSUME NEW w \in Waiters, SubscribeReady(w)
     PROVE  SetOnce'
  BY <1>23 DEF SubscribeReady
<1>24. ASSUME NEW w \in Waiters, await_resume(w)
     PROVE  SetOnce'
  BY <1>24 DEF await_resume
<1>25. CASE UNCHANGED vars
  BY <1>25 
<1> QED
  BY <1>1, <1>2, <1>3, <1>4, <1>5, <1>6, <1>7, <1>8, <1>9, <1>10, <1>11, <1>12, <1>13, <1>14,
     <1>15, <1>16, <1>17, <1>18, <1>19, <1>20, <1>21, <1>22, <1>23, <1>24, <1>25 DEF Next,
     ThreadStep, WaiterStep

\* Whoever is let run finds the future resolved, and it keeps its result.
LEMMA OutcomeStep == IInv /\ [Next]_vars => OneOutcome'
<1> SUFFICES ASSUME IInv, [Next]_vars PROVE OneOutcome'
  OBVIOUS
<1> USE PointersAssumption DEF IInv, TypeOK, Claims, Claiming, Stages, Chains, OneOutcome, Unwritten, pending, ready, value, Using, Waiters, Results, Outcomes,
           vars, future_vars, promise_vars, waiter_vars, thread_vars
<1>1. ASSUME NEW f \in Futures, Construct(f)
     PROVE  OneOutcome'
  BY <1>1 DEF Construct
<1>2. ASSUME NEW f \in Futures, DestroyFuture(f)
     PROVE  OneOutcome'
  BY <1>2 DEF DestroyFuture
<1>3. ASSUME NEW f \in Futures, NEW r \in Results, ConstructReady(f, r)
     PROVE  OneOutcome'
  BY <1>3 DEF ConstructReady
<1>4. ASSUME NEW f \in Futures, NEW p \in Promises, ConstructWithPromise(f, p)
     PROVE  OneOutcome'
  BY <1>4 DEF ConstructWithPromise, NewPromise
<1>5. ASSUME NEW f \in Futures, NEW p \in Promises, get_promise(f, p)
     PROVE  OneOutcome'
  BY <1>5 DEF get_promise, NewPromise
<1>6. ASSUME NEW f \in Futures, NEW p \in Promises, NEW w \in Waiters, make_promise(f, p, w)
     PROVE  OneOutcome'
  BY <1>6 DEF make_promise, NewPromise
<1>7. ASSUME NEW t \in Threads, NEW p \in Promises, NEW r \in Results, Call(t, p, r)
     PROVE  OneOutcome'
  BY <1>7 DEF Call, claim
<1>8. ASSUME NEW t \in Threads, NEW p \in Promises, DestroyPromise(t, p)
     PROVE  OneOutcome'
  BY <1>8 DEF DestroyPromise, claim
<1>9. ASSUME NEW p \in Promises, NEW q \in Promises, MoveConstruct(p, q)
     PROVE  OneOutcome'
  BY <1>9 DEF MoveConstruct
<1>10. ASSUME NEW t \in Threads, NEW p \in Promises, NEW q \in Promises, MoveAssign(t, p, q)
     PROVE  OneOutcome'
  BY <1>10 DEF MoveAssign, claim, Busy
<1>11. ASSUME NEW t \in Threads, MoveAssignEnd(t)
     PROVE  OneOutcome'
  BY <1>11 DEF MoveAssignEnd
<1>12. ASSUME NEW t \in Threads, set(t)
     PROVE  OneOutcome'
  BY <1>12 DEF set
<1>13. ASSUME NEW t \in Threads, resolve(t)
     PROVE  OneOutcome'
  BY <1>13 DEF resolve
<1>14. ASSUME NEW t \in Threads, ResumeCoro(t)
     PROVE  OneOutcome'
  BY <1>14 DEF ResumeCoro, Unlink
<1>15. ASSUME NEW t \in Threads, ResumeSync(t)
     PROVE  OneOutcome'
  BY <1>15 DEF ResumeSync, Unlink
<1>16. ASSUME NEW t \in Threads, ResumeCallback(t)
     PROVE  OneOutcome'
  BY <1>16 DEF ResumeCallback, Unlink
<1>17. ASSUME NEW t \in Threads, WalkEnd(t)
     PROVE  OneOutcome'
  BY <1>17 DEF WalkEnd
<1>18. ASSUME NEW t \in Threads, ResumeHandle(t)
     PROVE  OneOutcome'
  BY <1>18 DEF ResumeHandle
<1>19. ASSUME NEW t \in Threads, Return(t)
     PROVE  OneOutcome'
  BY <1>19 DEF Return
<1>20. ASSUME NEW w \in Waiters, NEW f \in Futures, Await(w, f)
     PROVE  OneOutcome'
  BY <1>20 DEF Await
<1>21. ASSUME NEW w \in Waiters, SubscribeLinked(w)
     PROVE  OneOutcome'
  BY <1>21 DEF SubscribeLinked
<1>22. ASSUME NEW w \in Waiters, SubscribeRetry(w)
     PROVE  OneOutcome'
  BY <1>22 DEF SubscribeRetry
<1>23. ASSUME NEW w \in Waiters, SubscribeReady(w)
     PROVE  OneOutcome'
  BY <1>23 DEF SubscribeReady
<1>24. ASSUME NEW w \in Waiters, await_resume(w)
     PROVE  OneOutcome'
  BY <1>24 DEF await_resume
<1>25. CASE UNCHANGED vars
  BY <1>25 
<1> QED
  BY <1>1, <1>2, <1>3, <1>4, <1>5, <1>6, <1>7, <1>8, <1>9, <1>10, <1>11, <1>12, <1>13, <1>14,
     <1>15, <1>16, <1>17, <1>18, <1>19, <1>20, <1>21, <1>22, <1>23, <1>24, <1>25 DEF Next,
     ThreadStep, WaiterStep

\* Every step moves threads and awaiters from stage to stage.
LEMMA StagesStep == IInv /\ [Next]_vars => Stages'
<1> SUFFICES ASSUME IInv, [Next]_vars PROVE Stages'
  OBVIOUS
<1> USE PointersAssumption DEF IInv, TypeOK, Moves, Stages, Chains, Claims, Claiming, OneOutcome, Unwritten, pending, ready, Using, Waiters, Results, Outcomes,
           vars, future_vars, promise_vars, waiter_vars, thread_vars
<1>1. ASSUME NEW f \in Futures, Construct(f)
     PROVE  Stages'
  BY <1>1 DEF Construct
<1>2. ASSUME NEW f \in Futures, DestroyFuture(f)
     PROVE  Stages'
  BY <1>2 DEF DestroyFuture
<1>3. ASSUME NEW f \in Futures, NEW r \in Results, ConstructReady(f, r)
     PROVE  Stages'
  BY <1>3 DEF ConstructReady
<1>4. ASSUME NEW f \in Futures, NEW p \in Promises, ConstructWithPromise(f, p)
     PROVE  Stages'
  BY <1>4 DEF ConstructWithPromise, NewPromise
<1>5. ASSUME NEW f \in Futures, NEW p \in Promises, get_promise(f, p)
     PROVE  Stages'
  BY <1>5 DEF get_promise, NewPromise
<1>6. ASSUME NEW f \in Futures, NEW p \in Promises, NEW w \in Waiters, make_promise(f, p, w)
     PROVE  Stages'
  BY <1>6 DEF make_promise, NewPromise
<1>7. ASSUME NEW t \in Threads, NEW p \in Promises, NEW r \in Results, Call(t, p, r)
     PROVE  Stages'
  BY <1>7 DEF Call, claim
<1>8. ASSUME NEW t \in Threads, NEW p \in Promises, DestroyPromise(t, p)
     PROVE  Stages'
  BY <1>8 DEF DestroyPromise, claim
<1>9. ASSUME NEW p \in Promises, NEW q \in Promises, MoveConstruct(p, q)
     PROVE  Stages'
  BY <1>9 DEF MoveConstruct
<1>10. ASSUME NEW t \in Threads, NEW p \in Promises, NEW q \in Promises, MoveAssign(t, p, q)
     PROVE  Stages'
  BY <1>10 DEF MoveAssign, claim, Busy
<1>11. ASSUME NEW t \in Threads, MoveAssignEnd(t)
     PROVE  Stages'
  BY <1>11 DEF MoveAssignEnd
<1>12. ASSUME NEW t \in Threads, set(t)
     PROVE  Stages'
  BY <1>12 DEF set
<1>13. ASSUME NEW t \in Threads, resolve(t)
     PROVE  Stages'
  BY <1>13 DEF resolve
<1>14. ASSUME NEW t \in Threads, ResumeCoro(t)
     PROVE  Stages'
  BY <1>14 DEF ResumeCoro, Unlink
<1>15. ASSUME NEW t \in Threads, ResumeSync(t)
     PROVE  Stages'
  BY <1>15 DEF ResumeSync, Unlink
<1>16. ASSUME NEW t \in Threads, ResumeCallback(t)
     PROVE  Stages'
  BY <1>16 DEF ResumeCallback, Unlink
<1>17. ASSUME NEW t \in Threads, WalkEnd(t)
     PROVE  Stages'
  BY <1>17 DEF WalkEnd
<1>18. ASSUME NEW t \in Threads, ResumeHandle(t)
     PROVE  Stages'
  BY <1>18 DEF ResumeHandle
<1>19. ASSUME NEW t \in Threads, Return(t)
     PROVE  Stages'
  BY <1>19 DEF Return
<1>20. ASSUME NEW w \in Waiters, NEW f \in Futures, Await(w, f)
     PROVE  Stages'
  BY <1>20 DEF Await
<1>21. ASSUME NEW w \in Waiters, SubscribeLinked(w)
     PROVE  Stages'
  BY <1>21 DEF SubscribeLinked
<1>22. ASSUME NEW w \in Waiters, SubscribeRetry(w)
     PROVE  Stages'
  BY <1>22 DEF SubscribeRetry
<1>23. ASSUME NEW w \in Waiters, SubscribeReady(w)
     PROVE  Stages'
  BY <1>23 DEF SubscribeReady
<1>24. ASSUME NEW w \in Waiters, await_resume(w)
     PROVE  Stages'
  BY <1>24 DEF await_resume
<1>25. CASE UNCHANGED vars
  BY <1>25 
<1> QED
  BY ONLY [Next]_vars, <1>1, <1>2, <1>3, <1>4, <1>5, <1>6, <1>7, <1>8, <1>9, <1>10, <1>11, <1>12,
     <1>13, <1>14, <1>15, <1>16, <1>17, <1>18, <1>19, <1>20, <1>21, <1>22, <1>23, <1>24, <1>25
     DEF Next, ThreadStep, WaiterStep

\* Every step keeps the chains: what is unlinked is linked from nowhere else.
LEMMA ChainsStep == IInv /\ [Next]_vars => Chains'
<1> SUFFICES ASSUME IInv, [Next]_vars PROVE Chains'
  OBVIOUS
<1> USE PointersAssumption DEF IInv, TypeOK, Claims, Claiming, Stages, Chains, Unwritten, pending, Waiters, Results, Outcomes,
           vars, future_vars, promise_vars, waiter_vars, thread_vars
<1>1. ASSUME NEW f \in Futures, Construct(f)
     PROVE  Chains'
  BY <1>1 DEF Construct
<1>2. ASSUME NEW f \in Futures, DestroyFuture(f)
     PROVE  Chains'
  BY <1>2 DEF DestroyFuture
<1>3. ASSUME NEW f \in Futures, NEW r \in Results, ConstructReady(f, r)
     PROVE  Chains'
  BY <1>3 DEF ConstructReady
<1>4. ASSUME NEW f \in Futures, NEW p \in Promises, ConstructWithPromise(f, p)
     PROVE  Chains'
  BY <1>4 DEF ConstructWithPromise, NewPromise
<1>5. ASSUME NEW f \in Futures, NEW p \in Promises, get_promise(f, p)
     PROVE  Chains'
  BY <1>5 DEF get_promise, NewPromise
<1>6. ASSUME NEW f \in Futures, NEW p \in Promises, NEW w \in Waiters, make_promise(f, p, w)
     PROVE  Chains'
  BY <1>6 DEF make_promise, NewPromise
<1>7. ASSUME NEW t \in Threads, NEW p \in Promises, NEW r \in Results, Call(t, p, r)
     PROVE  Chains'
  BY <1>7 DEF Call, claim
<1>8. ASSUME NEW t \in Threads, NEW p \in Promises, DestroyPromise(t, p)
     PROVE  Chains'
  BY <1>8 DEF DestroyPromise, claim
<1>9. ASSUME NEW p \in Promises, NEW q \in Promises, MoveConstruct(p, q)
     PROVE  Chains'
  BY <1>9 DEF MoveConstruct
<1>10. ASSUME NEW t \in Threads, NEW p \in Promises, NEW q \in Promises, MoveAssign(t, p, q)
     PROVE  Chains'
  BY <1>10 DEF MoveAssign, claim, Busy
<1>11. ASSUME NEW t \in Threads, MoveAssignEnd(t)
     PROVE  Chains'
  BY <1>11 DEF MoveAssignEnd
<1>12. ASSUME NEW t \in Threads, set(t)
     PROVE  Chains'
  BY <1>12 DEF set
<1>13. ASSUME NEW t \in Threads, resolve(t)
     PROVE  Chains'
  BY <1>13 DEF resolve
<1>14. ASSUME NEW t \in Threads, ResumeCoro(t)
     PROVE  Chains'
  BY <1>14 DEF ResumeCoro, Unlink
<1>15. ASSUME NEW t \in Threads, ResumeSync(t)
     PROVE  Chains'
  BY <1>15 DEF ResumeSync, Unlink
<1>16. ASSUME NEW t \in Threads, ResumeCallback(t)
     PROVE  Chains'
  BY <1>16 DEF ResumeCallback, Unlink
<1>17. ASSUME NEW t \in Threads, WalkEnd(t)
     PROVE  Chains'
  BY <1>17 DEF WalkEnd
<1>18. ASSUME NEW t \in Threads, ResumeHandle(t)
     PROVE  Chains'
  BY <1>18 DEF ResumeHandle
<1>19. ASSUME NEW t \in Threads, Return(t)
     PROVE  Chains'
  BY <1>19 DEF Return
<1>20. ASSUME NEW w \in Waiters, NEW f \in Futures, Await(w, f)
     PROVE  Chains'
  BY <1>20 DEF Await
<1>21. ASSUME NEW w \in Waiters, SubscribeLinked(w)
     PROVE  Chains'
  BY <1>21 DEF SubscribeLinked
<1>22. ASSUME NEW w \in Waiters, SubscribeRetry(w)
     PROVE  Chains'
  BY <1>22 DEF SubscribeRetry
<1>23. ASSUME NEW w \in Waiters, SubscribeReady(w)
     PROVE  Chains'
  BY <1>23 DEF SubscribeReady
<1>24. ASSUME NEW w \in Waiters, await_resume(w)
     PROVE  Chains'
  BY <1>24 DEF await_resume
<1>25. CASE UNCHANGED vars
  BY <1>25 
<1> QED
  BY ONLY [Next]_vars, <1>1, <1>2, <1>3, <1>4, <1>5, <1>6, <1>7, <1>8, <1>9, <1>10, <1>11, <1>12,
     <1>13, <1>14, <1>15, <1>16, <1>17, <1>18, <1>19, <1>20, <1>21, <1>22, <1>23, <1>24, <1>25
     DEF Next, ThreadStep, WaiterStep

-----------------------------------------------------------------------------
(* Theorems *)

\* The inductive invariant.
THEOREM Inductive == Spec => []IInv
<1>1. IInv /\ [Next]_vars => IInv'
  BY TypeStep, MovesStep, ClaimsStep, UnwrittenStep, SetOnceStep, StagesStep,
     ChainsStep, OutcomeStep DEF IInv
<1> QED
  BY InitInv, <1>1, PTL DEF Spec

\* The variables keep their types; in particular resume_chain_lk never follows
\* a pointer that is not an awaiter.
THEOREM TypeCorrect == Spec => []TypeOK
<1>1. IInv => TypeOK
  BY DEF IInv
<1> QED
  BY Inductive, <1>1, PTL

\* promise::claim(), moves, move assignments and ~promise() leave every pending
\* future exactly one promise or thread that is going to resolve it.
THEOREM ResolverUnique == Spec => []OneResolver
<1>1. ASSUME IInv, NEW f \in Futures
      PROVE  IF flife[f] = "alive" /\ pending(f)
             THEN \E x \in Resolvers(f) : Resolvers(f) = {x}
             ELSE Resolvers(f) = {}
  <2>1. /\ \A p \in Promises : p \in Resolvers(f) <=> owner[p] = f
        /\ \A t \in Threads : t \in Resolvers(f) <=> Claiming(t) /\ tfut[t] = f
        /\ Resolvers(f) \subseteq Promises \cup Threads
    BY KindsAssumption DEF Resolvers, Claiming
  <2>2. f # nullptr
    BY PointersAssumption
  <2>3. ASSUME NEW x \in Resolvers(f), NEW y \in Resolvers(f) PROVE x = y
    BY <1>1, <2>1, <2>2, <2>3 DEF IInv, Claims
  <2>4. Resolvers(f) # {} => flife[f] = "alive" /\ pending(f)
    BY <1>1, <2>1, <2>2 DEF IInv, Claims
  <2>5. flife[f] = "alive" /\ pending(f) => \E x \in Resolvers(f) : TRUE
    BY <1>1, <2>1 DEF IInv, Claims
  <2> QED
    BY <2>3, <2>4, <2>5
<1>2. IInv => OneResolver
  BY <1>1 DEF OneResolver
<1> QED
  BY Inductive, <1>2, PTL

\* The assertion of future::set() never fails.
THEOREM NeverSetTwice == Spec => []SetOnce
<1>1. IInv => SetOnce
  BY DEF IInv
<1> QED
  BY Inductive, <1>1, PTL

\* Both: a future is resolved once.
THEOREM ResolutionUnique == Spec => []ResolvedOnce
<1>1. OneResolver /\ SetOnce => ResolvedOnce
  BY DEF ResolvedOnce
<1> QED
  BY ResolverUnique, NeverSetTwice, <1>1, PTL

\* A walk only touches suspended awaiters of its own future: none is resumed
\* twice and none is touched after it was resumed.
THEOREM WalkSafe == Spec => []WalksSuspended
<1>1. IInv => WalksSuspended
  BY DEF IInv, TypeOK, Chains, WalksSuspended
<1> QED
  BY Inductive, <1>1, PTL

\* All awaiters of a future are given the one outcome it was resolved with.
THEOREM OutcomeAgreement == Spec => []OneOutcome
<1>1. IInv => OneOutcome
  BY DEF IInv
<1> QED
  BY Inductive, <1>1, PTL

-----------------------------------------------------------------------------
(* Chains lose nobody *)

\* Every awaiter that is suspended can be reached: from its future, from the cursor of
\* a walk, or from one that is nearer to the head.
Reached(depth) == \A w \in Waiters : wpc[w] = "suspended" =>
    \/ awt[wfut[w]] = w
    \/ \E t \in Threads : tpc[t] = "walk" /\ cursor[t] = w
    \/ \E v \in Waiters : wpc[v] = "suspended" /\ next[v] = w /\ depth[v] < depth[w]

\* A coroutine that was collected is in the suspend_point of who resolved its future.
Collected == \A w \in Waiters : wpc[w] = "collected" =>
    \E t \in Threads : tpc[t] \in {"walk", "flush"} /\ w \in sp[t] /\ tfut[t] = wfut[w]

Reachable == Collected /\ \E depth \in [Waiters -> Nat] : Reached(depth)

\* Every step takes along whoever was collected.
LEMMA CollectedStep == IInv /\ Collected /\ [Next]_vars => Collected'
<1> SUFFICES ASSUME IInv, Collected, [Next]_vars PROVE Collected'
  OBVIOUS
<1> USE PointersAssumption, KindsAssumption DEF IInv, TypeOK, Stages, Chains, Collected, pending, ready, Waiters,
           vars, future_vars, promise_vars, waiter_vars, thread_vars
<1>1. ASSUME NEW f \in Futures, Construct(f)
      PROVE  Collected'
  BY <1>1 DEF Construct
<1>2. ASSUME NEW f \in Futures, DestroyFuture(f)
      PROVE  Collected'
  BY <1>2 DEF DestroyFuture
<1>3. ASSUME NEW f \in Futures, NEW r \in Results, ConstructReady(f, r)
      PROVE  Collected'
  BY <1>3 DEF ConstructReady
<1>4. ASSUME NEW f \in Futures, NEW p \in Promises, ConstructWithPromise(f, p)
      PROVE  Collected'
  BY <1>4 DEF ConstructWithPromise, NewPromise
<1>5. ASSUME NEW f \in Futures, NEW p \in Promises, get_promise(f, p)
      PROVE  Collected'
  BY <1>5 DEF get_promise, NewPromise
<1>6. ASSUME NEW f \in Futures, NEW p \in Promises, NEW w \in Waiters, make_promise(f, p, w)
      PROVE  Collected'
  BY <1>6 DEF make_promise, NewPromise
<1>7. ASSUME NEW t \in Threads, NEW p \in Promises, NEW r \in Results, Call(t, p, r)
      PROVE  Collected'
  <2>1. /\ wpc' = wpc /\ sp' = sp /\ wfut' = wfut /\ tpc[t] \in {"idle", "assign"}
        /\ \A u \in Threads : u # t => tpc'[u] = tpc[u] /\ tfut'[u] = tfut[u]
    BY <1>7 DEF Call, claim
  <2> QED
    BY ONLY Collected, <2>1
<1>8. ASSUME NEW t \in Threads, NEW p \in Promises, DestroyPromise(t, p)
      PROVE  Collected'
  <2>1. /\ wpc' = wpc /\ sp' = sp /\ wfut' = wfut /\ tpc[t] \in {"idle", "assign"}
        /\ \A u \in Threads : u # t => tpc'[u] = tpc[u] /\ tfut'[u] = tfut[u]
    BY <1>8 DEF DestroyPromise, claim
  <2> QED
    BY ONLY Collected, <2>1
<1>9. ASSUME NEW p \in Promises, NEW q \in Promises, MoveConstruct(p, q)
      PROVE  Collected'
  BY <1>9 DEF MoveConstruct
<1>10. ASSUME NEW t \in Threads, NEW p \in Promises, NEW q \in Promises, MoveAssign(t, p, q)
      PROVE  Collected'
  <2>1. /\ wpc' = wpc /\ sp' = sp /\ wfut' = wfut /\ tpc[t] \in {"idle", "assign"}
        /\ \A u \in Threads : u # t => tpc'[u] = tpc[u] /\ tfut'[u] = tfut[u]
    BY <1>10 DEF MoveAssign, claim
  <2> QED
    BY ONLY Collected, <2>1
<1>11. ASSUME NEW t \in Threads, MoveAssignEnd(t)
      PROVE  Collected'
  <2>1. /\ wpc' = wpc /\ sp' = sp /\ wfut' = wfut /\ tpc[t] \in {"idle", "assign"}
        /\ \A u \in Threads : u # t => tpc'[u] = tpc[u] /\ tfut'[u] = tfut[u]
    BY <1>11 DEF MoveAssignEnd
  <2> QED
    BY ONLY Collected, <2>1
<1>12. ASSUME NEW t \in Threads, set(t)
      PROVE  Collected'
  BY <1>12 DEF set
<1>13. ASSUME NEW t \in Threads, resolve(t)
      PROVE  Collected'
  BY <1>13 DEF resolve
<1>14. ASSUME NEW t \in Threads, ResumeCoro(t)
      PROVE  Collected'
  <2>1. PICK y \in Coros : /\ tpc[t] = "walk" /\ cursor[t] = y /\ sp' = [sp EXCEPT ![t] = @ \cup {y}]
                           /\ wpc' = [wpc EXCEPT ![y] = "collected"]
                           /\ wfut' = wfut /\ tpc' = tpc /\ tfut' = tfut
    BY <1>14 DEF ResumeCoro, Unlink
  <2>2. y \in Waiters /\ wfut[y] = tfut[t] /\ y \in sp'[t] /\ \A u \in Threads : sp[u] \subseteq sp'[u]
    BY <2>1
  <2>3. \A w \in Waiters : wpc'[w] = "collected" => w = y \/ wpc[w] = "collected"
    BY <2>1
  <2> QED
    BY ONLY Collected, <2>1, <2>2, <2>3
<1>15. ASSUME NEW t \in Threads, ResumeSync(t)
      PROVE  Collected'
  BY <1>15 DEF ResumeSync, Unlink
<1>16. ASSUME NEW t \in Threads, ResumeCallback(t)
      PROVE  Collected'
  BY <1>16 DEF ResumeCallback, Unlink
<1>17. ASSUME NEW t \in Threads, WalkEnd(t)
      PROVE  Collected'
  BY <1>17 DEF WalkEnd
<1>18. ASSUME NEW t \in Threads, ResumeHandle(t)
      PROVE  Collected'
  BY <1>18 DEF ResumeHandle
<1>19. ASSUME NEW t \in Threads, Return(t)
      PROVE  Collected'
  BY <1>19 DEF Return
<1>20. ASSUME NEW w \in Waiters, NEW f \in Futures, Await(w, f)
      PROVE  Collected'
  BY <1>20 DEF Await
<1>21. ASSUME NEW w \in Waiters, SubscribeLinked(w)
      PROVE  Collected'
  BY <1>21 DEF SubscribeLinked
<1>22. ASSUME NEW w \in Waiters, SubscribeRetry(w)
      PROVE  Collected'
  BY <1>22 DEF SubscribeRetry
<1>23. ASSUME NEW w \in Waiters, SubscribeReady(w)
      PROVE  Collected'
  BY <1>23 DEF SubscribeReady
<1>24. ASSUME NEW w \in Waiters, await_resume(w)
      PROVE  Collected'
  BY <1>24 DEF await_resume
<1>25. CASE UNCHANGED vars
  BY <1>25
<1> QED
  BY ONLY [Next]_vars, <1>1, <1>2, <1>3, <1>4, <1>5, <1>6, <1>7, <1>8, <1>9, <1>10, <1>11, <1>12,
     <1>13, <1>14, <1>15, <1>16, <1>17, <1>18, <1>19, <1>20, <1>21, <1>22, <1>23, <1>24, <1>25
     DEF Next, ThreadStep, WaiterStep

\* Every step but a subscription keeps the order of the chains; who subscribes is in
\* front of all the others.
LEMMA ReachedStep ==
    ASSUME IInv, NEW depth \in [Waiters -> Nat], Reached(depth), [Next]_vars
    PROVE  \E d \in [Waiters -> Nat] : Reached(d)'
<1> USE PointersAssumption DEF IInv, TypeOK, Stages, Chains, Claims, Claiming, Reached, pending, ready, Waiters,
           vars, future_vars, promise_vars, waiter_vars, thread_vars
<1>1. ASSUME NEW f \in Futures, Construct(f)
      PROVE  Reached(depth)'
  BY <1>1 DEF Construct
<1>2. ASSUME NEW f \in Futures, DestroyFuture(f)
      PROVE  Reached(depth)'
  BY <1>2 DEF DestroyFuture
<1>3. ASSUME NEW f \in Futures, NEW r \in Results, ConstructReady(f, r)
      PROVE  Reached(depth)'
  BY <1>3 DEF ConstructReady
<1>4. ASSUME NEW f \in Futures, NEW p \in Promises, ConstructWithPromise(f, p)
      PROVE  Reached(depth)'
  BY <1>4 DEF ConstructWithPromise, NewPromise
<1>5. ASSUME NEW f \in Futures, NEW p \in Promises, get_promise(f, p)
      PROVE  Reached(depth)'
  BY <1>5 DEF get_promise, NewPromise
<1>6. ASSUME NEW f \in Futures, NEW p \in Promises, NEW w \in Waiters, make_promise(f, p, w)
      PROVE  Reached(depth)'
  BY <1>6 DEF make_promise, NewPromise
<1>7. ASSUME NEW t \in Threads, NEW p \in Promises, NEW r \in Results, Call(t, p, r)
      PROVE  Reached(depth)'
  BY <1>7 DEF Call, claim
<1>8. ASSUME NEW t \in Threads, NEW p \in Promises, DestroyPromise(t, p)
      PROVE  Reached(depth)'
  BY <1>8 DEF DestroyPromise, claim
<1>9. ASSUME NEW p \in Promises, NEW q \in Promises, MoveConstruct(p, q)
      PROVE  Reached(depth)'
  BY <1>9 DEF MoveConstruct
<1>10. ASSUME NEW t \in Threads, NEW p \in Promises, NEW q \in Promises, MoveAssign(t, p, q)
      PROVE  Reached(depth)'
  <2>1. /\ awt' = awt /\ cursor' = cursor /\ wpc' = wpc /\ next' = next /\ wfut' = wfut
        /\ tpc[t] = "idle" /\ \A u \in Threads : u # t => tpc'[u] = tpc[u]
    BY <1>10 DEF MoveAssign, claim
  <2> QED
    BY <2>1
<1>11. ASSUME NEW t \in Threads, MoveAssignEnd(t)
      PROVE  Reached(depth)'
  BY <1>11 DEF MoveAssignEnd
<1>12. ASSUME NEW t \in Threads, set(t)
      PROVE  Reached(depth)'
  BY <1>12 DEF set
<1>13. ASSUME NEW t \in Threads, resolve(t)
      PROVE  Reached(depth)'
  BY <1>13 DEF resolve
<1>14. ASSUME NEW t \in Threads, ResumeCoro(t)
      PROVE  Reached(depth)'
  BY <1>14 DEF ResumeCoro, Unlink
<1>15. ASSUME NEW t \in Threads, ResumeSync(t)
      PROVE  Reached(depth)'
  BY <1>15 DEF ResumeSync, Unlink
<1>16. ASSUME NEW t \in Threads, ResumeCallback(t)
      PROVE  Reached(depth)'
  BY <1>16 DEF ResumeCallback, Unlink
<1>17. ASSUME NEW t \in Threads, WalkEnd(t)
      PROVE  Reached(depth)'
  BY <1>17 DEF WalkEnd
<1>18. ASSUME NEW t \in Threads, ResumeHandle(t)
      PROVE  Reached(depth)'
  <2>1. /\ awt' = awt /\ cursor' = cursor /\ next' = next /\ wfut' = wfut /\ tpc' = tpc
        /\ \A w \in Waiters : wpc'[w] = "suspended" <=> wpc[w] = "suspended"
    BY <1>18 DEF ResumeHandle
  <2> QED
    BY ONLY Reached(depth), <2>1
<1>19. ASSUME NEW t \in Threads, Return(t)
      PROVE  Reached(depth)'
  BY <1>19 DEF Return
<1>20. ASSUME NEW w \in Waiters, NEW f \in Futures, Await(w, f)
      PROVE  Reached(depth)'
  BY <1>20 DEF Await
<1>21. ASSUME NEW w \in Waiters, SubscribeLinked(w)
      PROVE  \E d \in [Waiters -> Nat] : Reached(d)'
  <2> DEFINE d == [v \in Waiters |-> IF v = w THEN 0 ELSE depth[v] + 1]
  <2>1. d \in [Waiters -> Nat]
    OBVIOUS
  <2>3. /\ next' = next /\ wfut' = wfut /\ tpc' = tpc /\ cursor' = cursor
        /\ wfut[w] \in Futures /\ awt[wfut[w]] = next[w]
        /\ awt' = [awt EXCEPT ![wfut[w]] = w] /\ wpc' = [wpc EXCEPT ![w] = "suspended"]
        /\ wpc'[w] = "suspended" /\ wpc[w] = "subscribe"
    BY <1>21 DEF SubscribeLinked
  <2>4. ASSUME NEW x \in Waiters, wpc'[x] = "suspended"
        PROVE  \/ awt'[wfut[x]] = x
               \/ \E t \in Threads : tpc[t] = "walk" /\ cursor[t] = x
               \/ \E v \in Waiters : wpc'[v] = "suspended" /\ next[v] = x /\ d[v] < d[x]
    <3>1. CASE x = w
      BY <2>3, <3>1
    <3>2. CASE x # w
      <4>1. wpc[x] = "suspended" /\ wfut[x] \in Futures
        BY <2>3, <2>4, <3>2
      <4>2. CASE awt[wfut[x]] = x /\ wfut[x] = wfut[w]
        <5>1. next[w] = x /\ d[w] < d[x]
          BY <2>3, <3>2, <4>2
        <5> QED
          BY <2>3, <5>1
      <4>3. CASE awt[wfut[x]] = x /\ wfut[x] # wfut[w]
        BY <2>3, <4>1, <4>3
      <4>4. CASE \E t \in Threads : tpc[t] = "walk" /\ cursor[t] = x
        BY <4>4
      <4>5. ASSUME NEW v \in Waiters, wpc[v] = "suspended", next[v] = x, depth[v] < depth[x]
            PROVE  wpc'[v] = "suspended" /\ d[v] < d[x]
        BY <2>3, <3>2, <4>5
      <4> QED
        BY <4>1, <4>2, <4>3, <4>4, <4>5
    <3> QED
      BY <3>1, <3>2
  <2> HIDE DEF d
  <2>2. Reached(d)'
    BY ONLY <2>3, <2>4 DEF Reached
  <2> QED
    BY ONLY <2>1, <2>2
<1>22. ASSUME NEW w \in Waiters, SubscribeRetry(w)
      PROVE  Reached(depth)'
  BY <1>22 DEF SubscribeRetry
<1>23. ASSUME NEW w \in Waiters, SubscribeReady(w)
      PROVE  Reached(depth)'
  BY <1>23 DEF SubscribeReady
<1>24. ASSUME NEW w \in Waiters, await_resume(w)
      PROVE  Reached(depth)'
  BY <1>24 DEF await_resume
<1>25. CASE UNCHANGED vars
  <2>1. Reached(depth)'
    BY <1>25
  <2> QED
    BY <2>1
<1> QED
  BY ONLY [Next]_vars, depth \in [Waiters -> Nat], <1>1, <1>2, <1>3, <1>4, <1>5, <1>6, <1>7, <1>8,
     <1>9, <1>10, <1>11, <1>12, <1>13, <1>14, <1>15, <1>16, <1>17, <1>18, <1>19, <1>20, <1>21,
     <1>22, <1>23, <1>24, <1>25 DEF Next, ThreadStep, WaiterStep

\* A set of numbers has a smallest one.
LEMMA Smallest ==
    ASSUME NEW S \in SUBSET Nat, S # {}
    PROVE  \E x \in S : \A y \in S : x <= y
<1> DEFINE Upto == {1 .. n : n \in S}
<1>1. Upto \subseteq FiniteSubsetsOf(Nat) /\ Upto # {}
  <2>1. \A n \in S : IsFiniteSet(1 .. n) /\ 1 .. n \in SUBSET Nat
    BY FS_Interval
  <2> QED
    BY <2>1 DEF FiniteSubsetsOf
<1>2. \E b \in Upto : \A d \in Upto : <<d, b>> \notin StrictSubsetOrdering(Nat)
  <2> HIDE DEF Upto
  <2> QED
    BY <1>1, FS_StrictSubsetOrderingWellFounded, WFMin
<1>3. PICK x \in S : \A y \in S : <<1 .. y, 1 .. x>> \notin StrictSubsetOrdering(Nat)
  BY <1>2
<1>4. ASSUME NEW y \in S, y < x
      PROVE  FALSE
  <2>1. 1 .. y \subseteq 1 .. x /\ x \in 1 .. x /\ x \notin 1 .. y
    BY <1>4
  <2> HIDE <1>3
  <2>2. <<1 .. y, 1 .. x>> \in StrictSubsetOrdering(Nat)
    BY <2>1 DEF StrictSubsetOrdering
  <2> QED
    BY <1>3, <2>2
<1> QED
  BY <1>4

\* The one of those suspended on a resolved future that is nearest to the head is at the
\* cursor of a walk, so that the walk goes on.
LEMMA ReachedAreWalked == IInv /\ Reachable => NoLostWaiter
<1> SUFFICES ASSUME IInv, Collected, NEW depth \in [Waiters -> Nat], Reached(depth),
                    NEW w \in Waiters, wpc[w] = "suspended", ready(wfut[w])
             PROVE  \E t \in Threads : tpc[t] \in {"walk", "flush"} /\ tfut[t] = wfut[w]
  BY DEF NoLostWaiter, Reachable, Collected
<1> DEFINE f == wfut[w]
           Those == {v \in Waiters : wpc[v] = "suspended" /\ wfut[v] = f}
<1>1. PICK x \in Those : \A v \in Those : depth[x] <= depth[v]
  <2> DEFINE S == {depth[v] : v \in Those}
  <2>1. S \in SUBSET Nat /\ S # {}
    OBVIOUS
  <2> HIDE DEF S
  <2>2. PICK n \in S : \A m \in S : n <= m
    BY <2>1, Smallest
  <2> QED
    BY <2>2 DEF S
<1>2. awt[wfut[x]] # x
  BY PointersAssumption DEF ready, Waiters
<1>3. \A v \in Waiters : wpc[v] = "suspended" /\ next[v] = x => wfut[v] = f
  BY DEF IInv, Chains
<1>4. \A v \in Waiters : ~(wpc[v] = "suspended" /\ next[v] = x /\ depth[v] < depth[x])
  BY <1>1, <1>3
<1>5. PICK t \in Threads : tpc[t] = "walk" /\ cursor[t] = x
  BY <1>2, <1>4 DEF Reached
<1> QED
  BY <1>5 DEF IInv, Chains

\* NoLostWaiter: a wake-up is not lost between subscribe_check_ready and resolve(), for any
\* number of threads and awaiters.
THEOREM WaitersAreFound == Spec => []NoLostWaiter
<1>1. Init => Reachable
  <2> SUFFICES ASSUME Init PROVE Reachable
    OBVIOUS
  <2>1. [w \in Waiters |-> 0] \in [Waiters -> Nat] /\ \A w \in Waiters : wpc[w] = "idle"
    BY DEF Init
  <2>2. Reached([w \in Waiters |-> 0]) /\ Collected
    BY <2>1 DEF Reached, Collected
  <2> QED
    BY <2>1, <2>2 DEF Reachable
<1>2. IInv /\ Reachable /\ [Next]_vars => Reachable'
  BY CollectedStep, ReachedStep DEF Reachable
<1> QED
  BY <1>1, <1>2, Inductive, ReachedAreWalked, PTL DEF Spec

-----------------------------------------------------------------------------
(* Outcomes stay *)

\* A resolved future keeps its result, since nobody can claim it any more.
THEOREM ResultStable == Spec => ResultIsFinal
<1> DEFINE Final == \A f \in Futures : ready(f) => ready(f)' /\ result'[f] = result[f]
<1>1. IInv /\ [Next]_vars => Final
  <2> SUFFICES ASSUME IInv, [Next]_vars PROVE Final
    OBVIOUS
  <2> USE PointersAssumption DEF IInv, TypeOK, Claims, Claiming, Unwritten, Stages,
          pending, ready, Waiters, vars, future_vars, promise_vars, waiter_vars, thread_vars
  <2>1. ASSUME NEW f \in Futures, Construct(f)
       PROVE  Final
    BY <2>1 DEF Construct
  <2>2. ASSUME NEW f \in Futures, DestroyFuture(f)
       PROVE  Final
    BY <2>2 DEF DestroyFuture
  <2>3. ASSUME NEW f \in Futures, NEW r \in Results, ConstructReady(f, r)
       PROVE  Final
    BY <2>3 DEF ConstructReady
  <2>4. ASSUME NEW f \in Futures, NEW p \in Promises, ConstructWithPromise(f, p)
       PROVE  Final
    BY <2>4 DEF ConstructWithPromise, NewPromise
  <2>5. ASSUME NEW f \in Futures, NEW p \in Promises, get_promise(f, p)
       PROVE  Final
    BY <2>5 DEF get_promise, NewPromise
  <2>6. ASSUME NEW f \in Futures, NEW p \in Promises, NEW w \in Waiters, make_promise(f, p, w)
       PROVE  Final
    BY <2>6 DEF make_promise, NewPromise
  <2>7. ASSUME NEW t \in Threads, NEW p \in Promises, NEW r \in Results, Call(t, p, r)
       PROVE  Final
    BY <2>7 DEF Call, claim
  <2>8. ASSUME NEW t \in Threads, NEW p \in Promises, DestroyPromise(t, p)
       PROVE  Final
    BY <2>8 DEF DestroyPromise, claim
  <2>9. ASSUME NEW p \in Promises, NEW q \in Promises, MoveConstruct(p, q)
       PROVE  Final
    BY <2>9 DEF MoveConstruct
  <2>10. ASSUME NEW t \in Threads, NEW p \in Promises, NEW q \in Promises, MoveAssign(t, p, q)
       PROVE  Final
    BY <2>10 DEF MoveAssign, claim, Busy
  <2>11. ASSUME NEW t \in Threads, MoveAssignEnd(t)
       PROVE  Final
    BY <2>11 DEF MoveAssignEnd
  <2>12. ASSUME NEW t \in Threads, set(t)
       PROVE  Final
    BY <2>12 DEF set
  <2>13. ASSUME NEW t \in Threads, resolve(t)
       PROVE  Final
    BY <2>13 DEF resolve
  <2>14. ASSUME NEW t \in Threads, ResumeCoro(t)
       PROVE  Final
    BY <2>14 DEF ResumeCoro, Unlink
  <2>15. ASSUME NEW t \in Threads, ResumeSync(t)
       PROVE  Final
    BY <2>15 DEF ResumeSync, Unlink
  <2>16. ASSUME NEW t \in Threads, ResumeCallback(t)
       PROVE  Final
    BY <2>16 DEF ResumeCallback, Unlink
  <2>17. ASSUME NEW t \in Threads, WalkEnd(t)
       PROVE  Final
    BY <2>17 DEF WalkEnd
  <2>18. ASSUME NEW t \in Threads, ResumeHandle(t)
       PROVE  Final
    BY <2>18 DEF ResumeHandle
  <2>19. ASSUME NEW t \in Threads, Return(t)
       PROVE  Final
    BY <2>19 DEF Return
  <2>20. ASSUME NEW w \in Waiters, NEW f \in Futures, Await(w, f)
       PROVE  Final
    BY <2>20 DEF Await
  <2>21. ASSUME NEW w \in Waiters, SubscribeLinked(w)
       PROVE  Final
    BY <2>21 DEF SubscribeLinked
  <2>22. ASSUME NEW w \in Waiters, SubscribeRetry(w)
       PROVE  Final
    BY <2>22 DEF SubscribeRetry
  <2>23. ASSUME NEW w \in Waiters, SubscribeReady(w)
       PROVE  Final
    BY <2>23 DEF SubscribeReady
  <2>24. ASSUME NEW w \in Waiters, await_resume(w)
       PROVE  Final
    BY <2>24 DEF await_resume
  <2>25. CASE UNCHANGED vars
    BY <2>25 
  <2> HIDE DEF Final
  <2> QED
    BY <2>1, <2>2, <2>3, <2>4, <2>5, <2>6, <2>7, <2>8, <2>9, <2>10, <2>11, <2>12, <2>13, <2>14,
       <2>15, <2>16, <2>17, <2>18, <2>19, <2>20, <2>21, <2>22, <2>23, <2>24, <2>25 DEF Next,
       ThreadStep, WaiterStep
<1> QED
  BY Inductive, <1>1, PTL DEF ResultIsFinal, Spec
\* The steps of the contract that a step of the code can amount to.
Stutters == /\ \A f \in Futures : Settled(f)' = Settled(f)
            /\ wfut' = wfut /\ got' = got
Settles(f) == /\ Settled(f) = "none" /\ Settled(f)' \in Outcomes
              /\ \A g \in Futures : g # f => Settled(g)' = Settled(g)
              /\ wfut' = wfut /\ got' = got
Awaits(w, f) == /\ wfut[w] = nullptr /\ wfut' = [wfut EXCEPT ![w] = f]
                /\ \A g \in Futures : Settled(g)' = Settled(g)
                /\ got' = got
Observes(w) == /\ wfut[w] # nullptr /\ got[w] = "none" /\ Settled(wfut[w]) # "none"
               /\ got' = [got EXCEPT ![w] = Settled(wfut[w])]
               /\ \A g \in Futures : Settled(g)' = Settled(g)
               /\ wfut' = wfut

\* They are steps of the contract.
LEMMA MapStutter == Stutters => UNCHANGED Contract!vars
BY DEF Stutters, Contract!vars

\* A step that settles a future settles it in the contract.
LEMMA MapSettle ==
    ASSUME TypeOK, NEW f \in Futures, Settles(f)
    PROVE  Contract!Next
<1>1. Contract!Settle(f, Settled(f)')
  BY DEF Contract!Settle, Settles
<1> QED
  BY <1>1 DEF Contract!Next, Settles

\* A step that begins a wait is an Await of the contract.
LEMMA MapAwait ==
    ASSUME TypeOK, NEW f \in Futures, NEW w \in Waiters, Awaits(w, f)
    PROVE  Contract!Next
<1>1. Contract!Await(w, f)
  BY PointersAssumption DEF Contract!Await, Awaits, TypeOK
<1> QED
  BY <1>1 DEF Contract!Next

\* A step that tells a waiter is an Observe of the contract.
LEMMA MapObserve ==
    ASSUME TypeOK, NEW w \in Waiters, Observes(w)
    PROVE  Contract!Next
<1>1. Contract!Observe(w)
  BY DEF Contract!Observe, Observes, TypeOK
<1> QED
  BY <1>1 DEF Contract!Next


\* The exchange in resolve() settles the future with what the thread wrote.
LEMMA MapResolve ==
    ASSUME IInv, NEW t \in Threads, resolve(t)
    PROVE  \E f \in Futures : Settles(f)
<1> PICK f \in Futures : f = tfut[t]
  BY Claimed DEF resolve
<1>1. flife[f] = "alive" /\ awt[f] # disabled
  BY Claimed, PointersAssumption DEF resolve
<1>2. /\ awt' = [awt EXCEPT ![f] = disabled]
      /\ flife' = flife /\ result' = result /\ wfut' = wfut /\ got' = got
  BY DEF resolve, waiter_vars
<1>3. awt \in [Futures -> Waiters \cup {nullptr, instance, disabled}] /\ result[f] \in Results
  BY <1>1 DEF IInv, TypeOK
<1>4. awt'[f] = disabled /\ \A g \in Futures : g # f => awt'[g] = awt[g]
  BY <1>1, <1>2, <1>3
<1>5. Settled(f) = "none"
  BY <1>1 DEF Settled, ready
<1>6. Settled(f)' = value(f)'
  BY <1>1, <1>2, <1>4 DEF Settled, ready
<1>7. value(f)' \in Outcomes
  BY <1>2, <1>3, <1>4 DEF value, pending, Results, Outcomes
<1>8. ASSUME NEW g \in Futures, g # f PROVE Settled(g)' = Settled(g)
  BY <1>2, <1>4, <1>8 DEF Settled, ready, value, pending
<1>9. Settles(f)
  BY <1>2, <1>5, <1>6, <1>7, <1>8 DEF Settles
<1> QED
  BY <1>9

\* Reading a resolved future is an observation, whether or not the reader
\* deletes the future then.
LEMMA MapReader ==
    ASSUME IInv, NEW w \in Waiters, wfut[w] \in Futures,
           wpc[w] # "done", flife[wfut[w]] # "raw", ready(wfut[w]),
           got' = [got EXCEPT ![w] = value(wfut[w])],
           flife' = flife \/ flife' = [flife EXCEPT ![wfut[w]] = "dead"],
           UNCHANGED <<awt, result, wfut>>
    PROVE  Observes(w)
<1>1. wfut[w] # nullptr /\ got[w] = "none"
  BY PointersAssumption DEF IInv, Stages
<1>2. Settled(wfut[w]) = value(wfut[w])
  BY DEF Settled
<1>3. value(wfut[w]) # "none"
  BY ValueType, ValuesAssumption DEF IInv, Outcomes
<1>4. \A g \in Futures : Settled(g)' = Settled(g)
  <2>1. \A g \in Futures : flife'[g] # "raw" <=> flife[g] # "raw"
    BY DEF IInv, TypeOK
  <2> QED
    BY <2>1 DEF Settled, ready, value, pending
<1> QED
  BY <1>1, <1>2, <1>3, <1>4 DEF Observes

\* A callback is called by the thread that resolved its future ...
LEMMA MapCallback ==
    ASSUME IInv, NEW t \in Threads, ResumeCallback(t)
    PROVE  \E w \in Waiters : Observes(w)
<1>1. PICK w \in Callbacks \cup Heaps :
        /\ Unlink(t, w)
        /\ got' = [got EXCEPT ![w] = value(wfut[w])]
        /\ flife' = flife \/ flife' = [flife EXCEPT ![wfut[w]] = "dead"]
        /\ UNCHANGED <<awt, result, wfut>>
  BY DEF ResumeCallback
<1>2. w \in Waiters /\ cursor[t] = w /\ tpc[t] = "walk"
  BY <1>1 DEF Waiters, Unlink
<1>3. wpc[w] = "suspended" /\ wfut[w] = tfut[t]
  BY <1>2 DEF IInv, Chains
<1>4. wfut[w] \in Futures /\ ready(wfut[w])
  BY <1>2, <1>3 DEF IInv, Stages
<1>5. flife[wfut[w]] # "raw"
  BY <1>2, <1>3 DEF IInv, Stages
<1> QED
  BY <1>1, <1>2, <1>3, <1>4, <1>5, MapReader

\* ... the others read it themselves, once they run.
LEMMA MapRead ==
    ASSUME IInv, NEW w \in Waiters, await_resume(w)
    PROVE  Observes(w)
<1>1. /\ wpc[w] = "resumed"
      /\ got' = [got EXCEPT ![w] = value(wfut[w])]
      /\ flife' = flife \/ flife' = [flife EXCEPT ![wfut[w]] = "dead"]
      /\ UNCHANGED <<awt, result, wfut>>
  BY DEF await_resume
<1>2. wfut[w] \in Futures
  BY <1>1 DEF IInv, TypeOK, Stages
<1>3. flife[wfut[w]] = "alive" /\ ready(wfut[w])
  BY <1>1 DEF IInv, OneOutcome
<1> QED
  BY <1>1, <1>2, <1>3, MapReader

\* Every step of the code is a step of the contract or none at all: a future is
\* settled by the exchange in resolve() or by a constructor, and each awaiter
\* reads it once.
LEMMA MapStep == IInv /\ [Next]_vars => [Contract!Next]_(Contract!vars)
<1> SUFFICES ASSUME IInv, [Next]_vars PROVE [Contract!Next]_(Contract!vars)
  OBVIOUS
<1> TypeOK
  BY DEF IInv
<1> USE PointersAssumption DEF IInv, TypeOK, Claims, Claiming, Unwritten, Stages, Chains, pending, ready, value,
          Settled, Waiters, Results, Outcomes, vars, future_vars, promise_vars, waiter_vars, thread_vars
<1>1. ASSUME NEW f \in Futures, Construct(f)
     PROVE  [Contract!Next]_(Contract!vars)
  <2>1. Stutters
    BY <1>1 DEF Construct, Stutters
  <2> QED
    BY <2>1, MapStutter
<1>2. ASSUME NEW f \in Futures, DestroyFuture(f)
     PROVE  [Contract!Next]_(Contract!vars)
  <2>1. Stutters
    BY <1>2 DEF DestroyFuture, Stutters
  <2> QED
    BY <2>1, MapStutter
<1>3. ASSUME NEW f \in Futures, NEW r \in Results, ConstructReady(f, r)
     PROVE  [Contract!Next]_(Contract!vars)
  <2>1. Settles(f)
    BY <1>3, ValuesAssumption DEF ConstructReady, Settles
  <2> QED
    BY <2>1, MapSettle
<1>4. ASSUME NEW f \in Futures, NEW p \in Promises, ConstructWithPromise(f, p)
     PROVE  [Contract!Next]_(Contract!vars)
  <2>1. Stutters
    BY <1>4 DEF ConstructWithPromise, NewPromise, Stutters
  <2> QED
    BY <2>1, MapStutter
<1>5. ASSUME NEW f \in Futures, NEW p \in Promises, get_promise(f, p)
     PROVE  [Contract!Next]_(Contract!vars)
  <2>1. Stutters
    BY <1>5 DEF get_promise, NewPromise, Stutters
  <2> QED
    BY <2>1, MapStutter
<1>6. ASSUME NEW f \in Futures, NEW p \in Promises, NEW w \in Waiters, make_promise(f, p, w)
     PROVE  [Contract!Next]_(Contract!vars)
  <2>1. Awaits(w, f)
    BY <1>6 DEF make_promise, NewPromise, Awaits
  <2> QED
    BY <2>1, MapAwait
<1>7. ASSUME NEW t \in Threads, NEW p \in Promises, NEW r \in Results, Call(t, p, r)
     PROVE  [Contract!Next]_(Contract!vars)
  <2>1. Stutters
    BY <1>7 DEF Call, claim, Stutters
  <2> QED
    BY <2>1, MapStutter
<1>8. ASSUME NEW t \in Threads, NEW p \in Promises, DestroyPromise(t, p)
     PROVE  [Contract!Next]_(Contract!vars)
  <2>1. Stutters
    BY <1>8 DEF DestroyPromise, claim, Stutters
  <2> QED
    BY <2>1, MapStutter
<1>9. ASSUME NEW p \in Promises, NEW q \in Promises, MoveConstruct(p, q)
     PROVE  [Contract!Next]_(Contract!vars)
  <2>1. Stutters
    BY <1>9 DEF MoveConstruct, Stutters
  <2> QED
    BY <2>1, MapStutter
<1>10. ASSUME NEW t \in Threads, NEW p \in Promises, NEW q \in Promises, MoveAssign(t, p, q)
     PROVE  [Contract!Next]_(Contract!vars)
  <2>1. Stutters
    BY <1>10 DEF MoveAssign, claim, Busy, Stutters
  <2> QED
    BY <2>1, MapStutter
<1>11. ASSUME NEW t \in Threads, MoveAssignEnd(t)
     PROVE  [Contract!Next]_(Contract!vars)
  <2>1. Stutters
    BY <1>11 DEF MoveAssignEnd, Stutters
  <2> QED
    BY <2>1, MapStutter
<1>12. ASSUME NEW t \in Threads, set(t)
     PROVE  [Contract!Next]_(Contract!vars)
  <2>1. Stutters
    BY <1>12 DEF set, Stutters
  <2> QED
    BY <2>1, MapStutter
<1>13. ASSUME NEW t \in Threads, resolve(t)
     PROVE  [Contract!Next]_(Contract!vars)
  BY <1>13, MapResolve, MapSettle DEF resolve
<1>14. ASSUME NEW t \in Threads, ResumeCoro(t)
     PROVE  [Contract!Next]_(Contract!vars)
  <2>1. Stutters
    BY <1>14 DEF ResumeCoro, Unlink, Stutters
  <2> QED
    BY <2>1, MapStutter
<1>15. ASSUME NEW t \in Threads, ResumeSync(t)
     PROVE  [Contract!Next]_(Contract!vars)
  <2>1. Stutters
    BY <1>15 DEF ResumeSync, Unlink, Stutters
  <2> QED
    BY <2>1, MapStutter
<1>16. ASSUME NEW t \in Threads, ResumeCallback(t)
     PROVE  [Contract!Next]_(Contract!vars)
  BY <1>16, MapCallback, MapObserve
<1>17. ASSUME NEW t \in Threads, WalkEnd(t)
     PROVE  [Contract!Next]_(Contract!vars)
  <2>1. Stutters
    BY <1>17 DEF WalkEnd, Stutters
  <2> QED
    BY <2>1, MapStutter
<1>18. ASSUME NEW t \in Threads, ResumeHandle(t)
     PROVE  [Contract!Next]_(Contract!vars)
  <2>1. Stutters
    BY <1>18 DEF ResumeHandle, Stutters
  <2> QED
    BY <2>1, MapStutter
<1>19. ASSUME NEW t \in Threads, Return(t)
     PROVE  [Contract!Next]_(Contract!vars)
  <2>1. Stutters
    BY <1>19 DEF Return, Stutters
  <2> QED
    BY <2>1, MapStutter
<1>20. ASSUME NEW w \in Waiters, NEW f \in Futures, Await(w, f)
     PROVE  [Contract!Next]_(Contract!vars)
  <2>1. Awaits(w, f)
    BY <1>20 DEF Await, Awaits
  <2> QED
    BY <2>1, MapAwait
<1>21. ASSUME NEW w \in Waiters, SubscribeLinked(w)
     PROVE  [Contract!Next]_(Contract!vars)
  <2>1. Stutters
    BY <1>21 DEF SubscribeLinked, Stutters
  <2> QED
    BY <2>1, MapStutter
<1>22. ASSUME NEW w \in Waiters, SubscribeRetry(w)
     PROVE  [Contract!Next]_(Contract!vars)
  <2>1. Stutters
    BY <1>22 DEF SubscribeRetry, Stutters
  <2> QED
    BY <2>1, MapStutter
<1>23. ASSUME NEW w \in Waiters, SubscribeReady(w)
     PROVE  [Contract!Next]_(Contract!vars)
  <2>1. Stutters
    BY <1>23 DEF SubscribeReady, Stutters
  <2> QED
    BY <2>1, MapStutter
<1>24. ASSUME NEW w \in Waiters, await_resume(w)
     PROVE  [Contract!Next]_(Contract!vars)
  BY <1>24, MapRead, MapObserve
<1>25. CASE UNCHANGED vars
  <2>1. Stutters
    BY <1>25 DEF Stutters
  <2> QED
    BY <2>1, MapStutter
<1> HIDE DEF IInv, TypeOK, vars
<1> QED
  BY <1>1, <1>2, <1>3, <1>4, <1>5, <1>6, <1>7, <1>8, <1>9, <1>10, <1>11, <1>12, <1>13, <1>14,
     <1>15, <1>16, <1>17, <1>18, <1>19, <1>20, <1>21, <1>22, <1>23, <1>24, <1>25 DEF Next,
     ThreadStep, WaiterStep

\* future and promise implement the safety part of the contract.
THEOREM ContractImplemented == Spec => Contract!Safe
<1>1. Init => Contract!Init
  BY PointersAssumption DEF Init, Contract!Init, Settled
<1> QED
  BY Inductive, <1>1, MapStep, PTL DEF Spec, Contract!Safe
=============================================================================
