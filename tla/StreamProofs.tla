---------------------------- MODULE StreamProofs ----------------------------
(***************************************************************************)
(* What queues, generators, aggregators and signals deliver, for any       *)
(* number of items, pops, threads, limits, sources and receivers.          *)
(***************************************************************************)
EXTENDS Queue, Generator, Aggregator, Signal, FiniteSetTheorems, SequenceTheorems, TLAPS

(* Generators *)

\* What the consumer is going to be told.
Answering == IF done THEN End ELSE value

\* Nobody has asked.
Resting ==
    /\ \/ user = "idle" /\ body # "gone"
       \/ user = "left" /\ body = "gone"
    /\ handing = "none" /\ got = made
    /\ body \in {"initial", "yielded"} => caller = "none"
    /\ body \in {"initial", "yielded", "final", "gone"}

\* The body is at work for the one who asked.
Working ==
    /\ user \in {"resuming", "blocked", "suspended"}
    /\ body \in {"running", "awaiting"}
    /\ handing = "none" /\ got = made
    /\ \/ caller = "sync" /\ user # "suspended" /\ ~block
       \/ caller \in {"future", "coro"} /\ user = "suspended"

\* It has been suspended, and the one who asked was not told yet.
Handing ==
    /\ user \in {"resuming", "blocked", "suspended"}
    /\ body \in {"yielded", "final"}
    /\ caller = "none" /\ made = Append(got, Answering)
    /\ \/ handing = "sync" /\ user # "suspended" /\ ~block
       \/ handing = "none" /\ user # "suspended" /\ block
       \/ handing \in {"future", "coro"} /\ user = "suspended"

\* A request is open, worked on or about to be answered.
Requests ==
    /\ Resting \/ Working \/ Handing
    /\ body \notin {"final", "gone"} => ~done /\ ~exp

GeneratorInv == GeneratorTypeOK /\ Requests

\* At first nothing was asked and nothing produced.
LEMMA GeneratorStart == GeneratorInit => GeneratorInv
<1> USE MaxItemsAssumption, MaxAwaitsAssumption DEF GeneratorInit, GeneratorInv
<1>1. ASSUME GeneratorInit PROVE Requests
  <2>1. Resting
    BY <1>1 DEF Resting
  <2>2. ~done /\ ~exp
    BY <1>1
  <2> QED
    BY <2>1, <2>2 DEF Requests
<1>2. ASSUME GeneratorInit PROVE GeneratorTypeOK
  <2>1. /\ inUser \in BOOLEAN /\ notifying \in BOOLEAN /\ exp \in BOOLEAN /\ done \in BOOLEAN
        /\ block \in BOOLEAN
    BY <1>2
  <2>2. made \in Seq(1 .. Exception) /\ got \in Seq(NoValue .. Exception)
    BY <1>2
  <2>3. /\ awaits \in 0 .. MaxAwaits /\ ret \in 0 .. MaxItems
        /\ body = "initial" /\ caller = "none" /\ handing = "none" /\ user = "idle"
              /\ abuse = "no"
    BY <1>2
  <2> QED
    BY <2>1, <2>2, <2>3 DEF GeneratorTypeOK, Callers
<1> QED
  BY <1>1, <1>2

\* The types of the generator and its consumer.
LEMMA GeneratorTypeStep == GeneratorTypeOK /\ [GeneratorNext]_generatorVars => GeneratorTypeOK'
<1> SUFFICES ASSUME GeneratorTypeOK, [GeneratorNext]_generatorVars
             PROVE  GeneratorTypeOK'
  OBVIOUS
<1> USE MaxItemsAssumption, MaxAwaitsAssumption DEF GeneratorTypeOK, Callers, End, Exception,
     NoValue, promise_type, coroutine
<1>1. ASSUME next_sync
     PROVE  GeneratorTypeOK'
  BY <1>1 DEF next_sync, NotBusy, ResumeBody
<1>2. ASSUME next_future
     PROVE  GeneratorTypeOK'
  BY <1>2 DEF next_future, NotBusy, ResumeBody
<1>3. ASSUME next_async
     PROVE  GeneratorTypeOK'
  BY <1>3 DEF next_async, NotBusy, ResumeBody
<1>4. ASSUME Returned
     PROVE  GeneratorTypeOK'
  BY <1>4 DEF Returned
<1>5. ASSUME Unblocked
     PROVE  GeneratorTypeOK'
  BY <1>5 DEF Unblocked, Told, value
<1>6. ASSUME DestroyGenerator
     PROVE  GeneratorTypeOK'
  BY <1>6 DEF DestroyGenerator
<1>7. ASSUME yield_value
     PROVE  GeneratorTypeOK'
  BY <1>7 DEF yield_value, Suspends
<1>8. ASSUME return_void
     PROVE  GeneratorTypeOK'
  BY <1>8 DEF return_void, Suspends
<1>9. ASSUME unhandled_exception
     PROVE  GeneratorTypeOK'
  BY <1>9 DEF unhandled_exception, Suspends
<1>10. ASSUME BodyAwaits
     PROVE  GeneratorTypeOK'
  <2>1. awaits' \in 0 .. MaxAwaits /\ body' = "awaiting" /\ inUser' = FALSE
    BY <1>10 DEF BodyAwaits
  <2>2. /\ body' \in {"initial", "running", "awaiting", "yielded", "final", "gone"}
        /\ inUser' \in BOOLEAN
    BY <2>1
  <2> QED
    BY <1>10, <2>1, <2>2 DEF BodyAwaits
<1>11. ASSUME BodyContinues
     PROVE  GeneratorTypeOK'
  BY <1>11 DEF BodyContinues
<1>12. ASSUME unblock_sync
     PROVE  GeneratorTypeOK'
  BY <1>12 DEF unblock_sync
<1>13. ASSUME NotifyBlock
     PROVE  GeneratorTypeOK'
  <2>1. notifying' \in BOOLEAN /\ abuse' \in {"no", "busy", "used"}
    BY <1>13 DEF NotifyBlock
  <2>2. UNCHANGED <<coroutine, caller, handing, promise_type, block, user, got>>
    BY <1>13 DEF NotifyBlock
  <2> QED
    BY <2>1, <2>2
<1>14. ASSUME unblock_future
     PROVE  GeneratorTypeOK'
  <2>1. got' \in Seq(NoValue .. Exception)
    BY <1>14 DEF unblock_future, Told, value
  <2> QED
    BY <1>14, <2>1 DEF unblock_future
<1>15. ASSUME ResumeConsumer
     PROVE  GeneratorTypeOK'
  <2>1. got' \in Seq(NoValue .. Exception)
    BY <1>15 DEF ResumeConsumer, Told, value
  <2> QED
    BY <1>15, <2>1 DEF ResumeConsumer
<1>16. CASE UNCHANGED generatorVars
  BY <1>16 DEF generatorVars
<1> QED
  BY <1>1, <1>2, <1>3, <1>4, <1>5, <1>6, <1>7, <1>8, <1>9, <1>10, <1>11, <1>12, <1>13, <1>14,
     <1>15, <1>16 DEF GeneratorNext, BodyRuns, HandOver

\* A request passes from the one who asked to the body and back.
LEMMA RequestsStep == GeneratorInv /\ [GeneratorNext]_generatorVars => Requests'
<1> SUFFICES ASSUME GeneratorInv, [GeneratorNext]_generatorVars
             PROVE  Requests'
  OBVIOUS
<1> USE MaxItemsAssumption, MaxAwaitsAssumption DEF GeneratorTypeOK, Callers, End, Exception,
     NoValue, promise_type, coroutine, GeneratorInv, Requests, Resting, Working, Handing,
     Answering, value
<1>1. ASSUME next_sync
     PROVE  Requests'
  BY <1>1 DEF next_sync, NotBusy, ResumeBody
<1>2. ASSUME next_future
     PROVE  Requests'
  BY <1>2 DEF next_future, NotBusy, ResumeBody
<1>3. ASSUME next_async
     PROVE  Requests'
  BY <1>3 DEF next_async, NotBusy, ResumeBody
<1>4. ASSUME Returned
     PROVE  Requests'
  BY <1>4 DEF Returned
<1>5. ASSUME Unblocked
     PROVE  Requests'
  <2>1. Handing
    BY <1>5 DEF Unblocked
  <2>2. got' = made
    BY <1>5, <2>1 DEF Unblocked, Told
  <2>3. Resting'
    BY <1>5, <2>1, <2>2 DEF Unblocked
  <2> QED
    BY <1>5, <2>1, <2>3 DEF Unblocked
<1>6. ASSUME DestroyGenerator
     PROVE  Requests'
  BY <1>6 DEF DestroyGenerator
<1>7. ASSUME yield_value
     PROVE  Requests'
  BY <1>7 DEF yield_value, Suspends
<1>8. ASSUME return_void
     PROVE  Requests'
  BY <1>8 DEF return_void, Suspends
<1>9. ASSUME unhandled_exception
     PROVE  Requests'
  BY <1>9 DEF unhandled_exception, Suspends
<1>10. ASSUME BodyAwaits
     PROVE  Requests'
  BY <1>10 DEF BodyAwaits
<1>11. ASSUME BodyContinues
     PROVE  Requests'
  BY <1>11 DEF BodyContinues
<1>12. ASSUME unblock_sync
     PROVE  Requests'
  BY <1>12 DEF unblock_sync
<1>13. ASSUME NotifyBlock
     PROVE  Requests'
  BY <1>13 DEF NotifyBlock
<1>14. ASSUME unblock_future
     PROVE  Requests'
  <2>1. Handing
    BY <1>14 DEF unblock_future
  <2>2. got' = made
    BY <1>14, <2>1 DEF unblock_future, Told
  <2>3. Resting'
    BY <1>14, <2>1, <2>2 DEF unblock_future
  <2> QED
    BY <1>14, <2>1, <2>3 DEF unblock_future
<1>15. ASSUME ResumeConsumer
     PROVE  Requests'
  <2>1. Handing
    BY <1>15 DEF ResumeConsumer
  <2>2. got' = made
    BY <1>15, <2>1 DEF ResumeConsumer, Told
  <2>3. Resting'
    BY <1>15, <2>1, <2>2 DEF ResumeConsumer
  <2> QED
    BY <1>15, <2>1, <2>3 DEF ResumeConsumer
<1>16. CASE UNCHANGED generatorVars
  BY <1>16 DEF generatorVars
<1> QED
  BY <1>1, <1>2, <1>3, <1>4, <1>5, <1>6, <1>7, <1>8, <1>9, <1>10, <1>11, <1>12, <1>13, <1>14,
     <1>15, <1>16 DEF GeneratorNext, BodyRuns, HandOver

\* However many items are produced, by whatever threads, and however the consumer asks: it
\* is told what was produced, in order and once.
THEOREM ItemsOnce == GeneratorSpec => []EveryItemOnce
<1>1. GeneratorInv /\ [GeneratorNext]_generatorVars => GeneratorInv'
  BY GeneratorTypeStep, RequestsStep DEF GeneratorInv
<1>2. GeneratorInv => EveryItemOnce
  <2> SUFFICES ASSUME GeneratorInv
               PROVE  EveryItemOnce
    OBVIOUS
  <2> USE DEF GeneratorInv, GeneratorTypeOK, Requests
  <2> DEFINE S == NoValue .. Exception
  <2>1. got \in Seq(S) /\ made \in Seq(1 .. Exception)
    OBVIOUS
  <2>2. CASE got = made
    BY <2>1, <2>2 DEF EveryItemOnce, IsPrefix
  <2>3. CASE Handing
    <3>1. Len(got) <= Len(made) /\ \A i \in 1 .. Len(got) : made[i] = got[i]
      BY <2>1, <2>3 DEF Handing
    <3>2. SubSeq(got, 1, Len(got)) = SubSeq(made, 1, Len(got))
      BY <2>1, <3>1
    <3> QED
      BY <2>3, <3>1, <3>2 DEF EveryItemOnce, IsPrefix, Handing
  <2> QED
    BY <2>2, <2>3 DEF Resting, Working
<1> QED
  BY GeneratorStart, <1>1, <1>2, PTL DEF GeneratorSpec

\* Who destroys the generator waits for the notification, and a caller is left behind only
\* by an exception.
Callable ==
    /\ notifying => body # "gone"
    /\ body = "final" => done \/ exp
    /\ body = "final" /\ caller # "none" => exp

\* The body ends after everything it had to notify, and its end takes the caller.
LEMMA CallableStep == GeneratorInv /\ Callable /\ ~LeavesAtOnce
      /\ [GeneratorNext]_generatorVars => Callable'
<1> SUFFICES ASSUME GeneratorInv /\ Callable /\ ~LeavesAtOnce, [GeneratorNext]_generatorVars
             PROVE  Callable'
  OBVIOUS
<1> USE DEF GeneratorTypeOK, Callers, promise_type, coroutine, GeneratorInv, Requests,
     Resting, Working, Handing, Callable
<1>1. ASSUME next_sync
     PROVE  Callable'
  BY <1>1 DEF next_sync, NotBusy, ResumeBody
<1>2. ASSUME next_future
     PROVE  Callable'
  BY <1>2 DEF next_future, NotBusy, ResumeBody
<1>3. ASSUME next_async
     PROVE  Callable'
  BY <1>3 DEF next_async, NotBusy, ResumeBody
<1>4. ASSUME Returned
     PROVE  Callable'
  BY <1>4 DEF Returned
<1>5. ASSUME Unblocked
     PROVE  Callable'
  BY <1>5 DEF Unblocked, Told, value
<1>6. ASSUME DestroyGenerator
     PROVE  Callable'
  BY <1>6 DEF DestroyGenerator
<1>7. ASSUME yield_value
     PROVE  Callable'
  BY <1>7 DEF yield_value, Suspends
<1>8. ASSUME return_void
     PROVE  Callable'
  BY <1>8 DEF return_void, Suspends
<1>9. ASSUME unhandled_exception
     PROVE  Callable'
  BY <1>9 DEF unhandled_exception, Suspends
<1>10. ASSUME BodyAwaits
     PROVE  Callable'
  BY <1>10 DEF BodyAwaits
<1>11. ASSUME BodyContinues
     PROVE  Callable'
  BY <1>11 DEF BodyContinues
<1>12. ASSUME unblock_sync
     PROVE  Callable'
  BY <1>12 DEF unblock_sync
<1>13. ASSUME NotifyBlock
     PROVE  Callable'
  BY <1>13 DEF NotifyBlock
<1>14. ASSUME unblock_future
     PROVE  Callable'
  BY <1>14 DEF unblock_future, Told, value
<1>15. ASSUME ResumeConsumer
     PROVE  Callable'
  BY <1>15 DEF ResumeConsumer, Told, value
<1>16. CASE UNCHANGED generatorVars
  BY <1>16 DEF generatorVars
<1> QED
  BY <1>1, <1>2, <1>3, <1>4, <1>5, <1>6, <1>7, <1>8, <1>9, <1>10, <1>11, <1>12, <1>13, <1>14,
     <1>15, <1>16 DEF GeneratorNext, BodyRuns, HandOver

\* An assertion fails after an exception only.
LEMMA AbuseStep == GeneratorInv /\ Callable /\ NotAbused /\ [GeneratorNext]_generatorVars
      => NotAbused'
<1> SUFFICES ASSUME GeneratorInv /\ Callable /\ NotAbused, [GeneratorNext]_generatorVars
             PROVE  NotAbused'
  OBVIOUS
<1> USE DEF GeneratorTypeOK, Callers, promise_type, coroutine, GeneratorInv, Requests,
     Resting, Working, Handing, Callable, NotAbused
<1>1. ASSUME next_sync
     PROVE  NotAbused'
  BY <1>1 DEF next_sync, NotBusy, ResumeBody
<1>2. ASSUME next_future
     PROVE  NotAbused'
  BY <1>2 DEF next_future, NotBusy, ResumeBody
<1>3. ASSUME next_async
     PROVE  NotAbused'
  BY <1>3 DEF next_async, NotBusy, ResumeBody
<1>4. ASSUME Returned
     PROVE  NotAbused'
  BY <1>4 DEF Returned
<1>5. ASSUME Unblocked
     PROVE  NotAbused'
  BY <1>5 DEF Unblocked, Told, value
<1>6. ASSUME DestroyGenerator
     PROVE  NotAbused'
  BY <1>6 DEF DestroyGenerator
<1>7. ASSUME yield_value
     PROVE  NotAbused'
  BY <1>7 DEF yield_value, Suspends
<1>8. ASSUME return_void
     PROVE  NotAbused'
  BY <1>8 DEF return_void, Suspends
<1>9. ASSUME unhandled_exception
     PROVE  NotAbused'
  BY <1>9 DEF unhandled_exception, Suspends
<1>10. ASSUME BodyAwaits
     PROVE  NotAbused'
  BY <1>10 DEF BodyAwaits
<1>11. ASSUME BodyContinues
     PROVE  NotAbused'
  BY <1>11 DEF BodyContinues
<1>12. ASSUME unblock_sync
     PROVE  NotAbused'
  BY <1>12 DEF unblock_sync
<1>13. ASSUME NotifyBlock
     PROVE  NotAbused'
  BY <1>13 DEF NotifyBlock
<1>14. ASSUME unblock_future
     PROVE  NotAbused'
  BY <1>14 DEF unblock_future, Told, value
<1>15. ASSUME ResumeConsumer
     PROVE  NotAbused'
  BY <1>15 DEF ResumeConsumer, Told, value
<1>16. CASE UNCHANGED generatorVars
  BY <1>16 DEF generatorVars
<1> QED
  BY <1>1, <1>2, <1>3, <1>4, <1>5, <1>6, <1>7, <1>8, <1>9, <1>10, <1>11, <1>12, <1>13, <1>14,
     <1>15, <1>16 DEF GeneratorNext, BodyRuns, HandOver

\* Whatever the threads, and however often the consumer asks: the assertion on the caller
\* fails only after an exception, and the notification finds its generator, if the consumer
\* does not destroy it before the thread that woke it has returned.
THEOREM BusyAfterException == ~LeavesAtOnce => (GeneratorSpec => []NotAbused)
<1> SUFFICES ASSUME ~LeavesAtOnce
             PROVE  GeneratorSpec => []NotAbused
  OBVIOUS
<1> DEFINE Inv == GeneratorInv /\ Callable /\ NotAbused
<1>1. GeneratorInit => Inv
  BY GeneratorStart DEF GeneratorInit, Callable, NotAbused
<1>2. Inv /\ [GeneratorNext]_generatorVars => Inv'
  BY GeneratorTypeStep, RequestsStep, CallableStep, AbuseStep DEF GeneratorInv
<1>3. Inv => NotAbused
  OBVIOUS
<1> QED
  BY <1>1, <1>2, <1>3, PTL DEF GeneratorSpec

-----------------------------------------------------------------------------
(* Aggregators *)

\* The sources that are not known to have ended.
Remaining == {s \in Sources : source[s] # "over"}

\* _count counts them.
Counted == count = Cardinality(Remaining)

\* What is in the queue is there once.
Arrivals ==
    /\ \A i \in 1 .. Len(arrived) : source[arrived[i]] = "pushed"
    /\ \A i, j \in 1 .. Len(arrived) : arrived[i] = arrived[j] => i = j

\* "one of generators is not active": the one whose item was yielded, or that had ended.
OneIsNot ==
    /\ phase \in {"yielded", "leaving"} => \E s \in Sources : source[s] \in {"held", "listed"}
    /\ phase = "initial" => \A s \in Sources : source[s] = "listed"

AggregatorInv == AggregatorTypeOK /\ Counted /\ Arrivals /\ OneIsNot /\ NoOrphan

\* At first no source was asked.
LEMMA AggregatorStart == AggregatorInit => AggregatorInv
<1> SUFFICES ASSUME AggregatorInit
             PROVE  AggregatorInv
  OBVIOUS
<1>1. Cardinality(Sources) \in Nat
  BY SourcesAssumption, FS_CardinalityType
<1>2. Remaining = Sources
  BY DEF AggregatorInit, Remaining
<1>3. thrown \in BOOLEAN /\ raised \in BOOLEAN
  BY DEF AggregatorInit
<1>4. /\ phase = "initial"
      /\ source \in [Sources -> {"listed", "active", "pushed", "held", "over"}]
      /\ answer \in [Sources -> Answers] /\ arrived \in Seq(Sources)
      /\ count \in 0 .. Cardinality(Sources)
  BY <1>1 DEF AggregatorInit, Answers
<1>5. AggregatorTypeOK
  BY <1>3, <1>4 DEF AggregatorTypeOK
<1>6. Counted /\ Arrivals /\ OneIsNot /\ NoOrphan
  BY <1>2 DEF AggregatorInit, Counted, Arrivals, OneIsNot, NoOrphan
<1> QED
  BY <1>5, <1>6 DEF AggregatorInv

\* The types of the aggregator.
LEMMA AggregatorTypeStep == AggregatorTypeOK /\ [AggregatorNext]_aggregatorVars
      => AggregatorTypeOK'
<1> SUFFICES ASSUME AggregatorTypeOK, [AggregatorNext]_aggregatorVars
             PROVE  AggregatorTypeOK'
  OBVIOUS
<1> USE SourcesAssumption, FS_CardinalityType DEF AggregatorTypeOK, Becomes, Answers
<1>1. ASSUME AskFirst
     PROVE  AggregatorTypeOK'
  BY <1>1 DEF AskFirst
<1>2. ASSUME ChargedAll
     PROVE  AggregatorTypeOK'
  BY <1>2 DEF ChargedAll
<1>3. ASSUME Take
     PROVE  AggregatorTypeOK'
  <2>1. Head(arrived) \in Sources /\ arrived' \in Seq(Sources)
    BY <1>3 DEF Take
  <2>2. /\ source' \in [Sources -> {"listed", "active", "pushed", "held", "over"}]
        /\ phase' \in {"loop", "yielded"} /\ UNCHANGED answer
        /\ count > 0 /\ (count' = count \/ count' = count - 1)
    <3>1. CASE source' = [source EXCEPT ![Head(arrived)] = "held"]
      BY <1>3, <2>1, <3>1 DEF Take
    <3>2. CASE source' = [source EXCEPT ![Head(arrived)] = "over"]
      BY <1>3, <2>1, <3>2 DEF Take
    <3> QED
      BY <1>3, <3>1, <3>2 DEF Take
  <2> Cardinality(Sources) \in Nat
    OBVIOUS
  <2>3. thrown' \in BOOLEAN /\ raised' \in BOOLEAN
    BY <1>3 DEF Take
  <2> QED
    BY <1>3, <2>1, <2>2, <2>3 DEF Take
<1>4. ASSUME Finish
     PROVE  AggregatorTypeOK'
  BY <1>4 DEF Finish
<1>5. ASSUME WaitOne
     PROVE  AggregatorTypeOK'
  BY <1>5 DEF WaitOne
<1>6. ASSUME Left
     PROVE  AggregatorTypeOK'
  BY <1>6 DEF Left
<1>7. ASSUME DestroyAggregator
     PROVE  AggregatorTypeOK'
  BY <1>7 DEF DestroyAggregator
<1>8. ASSUME NEW s \in Sources, ChargeNext(s)
     PROVE  AggregatorTypeOK'
  BY <1>8 DEF ChargeNext
<1>9. ASSUME NEW s \in Sources, AskAgain(s)
     PROVE  AggregatorTypeOK'
  BY <1>9 DEF AskAgain
<1>10. ASSUME NEW s \in Sources, NEW what \in Answers, Answer(s, what)
     PROVE  AggregatorTypeOK'
  BY <1>10 DEF Answer
<1>11. CASE UNCHANGED aggregatorVars
  BY <1>11 DEF aggregatorVars
<1> QED
  BY <1>1, <1>2, <1>3, <1>4, <1>5, <1>6, <1>7, <1>8, <1>9, <1>10, <1>11 DEF AggregatorNext,
     AggregatorSteps

\* The counter goes down when a source is over.
LEMMA CountedStep == AggregatorInv /\ [AggregatorNext]_aggregatorVars => Counted'
<1> SUFFICES ASSUME AggregatorInv, [AggregatorNext]_aggregatorVars
             PROVE  Counted'
  OBVIOUS
<1> USE SourcesAssumption DEF AggregatorInv, AggregatorTypeOK, Becomes, Answers
<1>1. ASSUME AskFirst
     PROVE  Counted'
  <2>1. Remaining' = Remaining
    BY <1>1 DEF AskFirst, Remaining
  <2> QED
    BY <1>1, <2>1 DEF AskFirst, Counted
<1>2. ASSUME ChargedAll
     PROVE  Counted'
  <2>1. Remaining' = Remaining
    BY <1>2 DEF ChargedAll, Remaining
  <2> QED
    BY <1>2, <2>1 DEF ChargedAll, Counted
<1>3. ASSUME Take
     PROVE  Counted'
  <2> DEFINE s == Head(arrived)
  <2>1. s \in Sources /\ source[s] = "pushed"
    BY <1>3 DEF Take, Arrivals
  <2>2. CASE source' = [source EXCEPT ![s] = "held"] /\ count' = count
    <3>1. Remaining' = Remaining
      BY <2>1, <2>2 DEF Remaining
    <3> QED
      BY <2>2, <3>1 DEF Counted
  <2>3. CASE source' = [source EXCEPT ![s] = "over"] /\ count' = count - 1
    <3>1. Remaining' = Remaining \ {s} /\ s \in Remaining
      BY <2>1, <2>3 DEF Remaining
    <3>2. IsFiniteSet(Remaining)
      BY FS_Subset DEF Remaining
    <3> QED
      BY <2>3, <3>1, <3>2, FS_RemoveElement DEF Counted
  <2> QED
    BY <1>3, <2>2, <2>3 DEF Take
<1>4. ASSUME Finish
     PROVE  Counted'
  <2>1. Remaining' = Remaining
    BY <1>4 DEF Finish, Remaining
  <2> QED
    BY <1>4, <2>1 DEF Finish, Counted
<1>5. ASSUME WaitOne
     PROVE  Counted'
  <2> DEFINE s == Head(arrived)
  <2>1. s \in Sources /\ source[s] = "pushed"
    BY <1>5 DEF WaitOne, Arrivals
  <2>2. Remaining' = Remaining \ {s} /\ s \in Remaining
    BY <1>5, <2>1 DEF WaitOne, Remaining
  <2>3. IsFiniteSet(Remaining)
    BY FS_Subset DEF Remaining
  <2> QED
    BY <1>5, <2>2, <2>3, FS_RemoveElement DEF WaitOne, Counted
<1>6. ASSUME Left
     PROVE  Counted'
  <2>1. Remaining' = Remaining
    BY <1>6 DEF Left, Remaining
  <2> QED
    BY <1>6, <2>1 DEF Left, Counted
<1>7. ASSUME DestroyAggregator
     PROVE  Counted'
  <2>1. Remaining' = Remaining
    BY <1>7 DEF DestroyAggregator, Remaining
  <2> QED
    BY <1>7, <2>1 DEF DestroyAggregator, Counted
<1>8. ASSUME NEW s \in Sources, ChargeNext(s)
     PROVE  Counted'
  <2>1. Remaining' = Remaining
    BY <1>8 DEF ChargeNext, Remaining
  <2> QED
    BY <1>8, <2>1 DEF ChargeNext, Counted
<1>9. ASSUME NEW s \in Sources, AskAgain(s)
     PROVE  Counted'
  <2>1. Remaining' = Remaining
    BY <1>9 DEF AskAgain, Remaining
  <2> QED
    BY <1>9, <2>1 DEF AskAgain, Counted
<1>10. ASSUME NEW s \in Sources, NEW what \in Answers, Answer(s, what)
     PROVE  Counted'
  <2>1. Remaining' = Remaining
    BY <1>10 DEF Answer, Remaining
  <2> QED
    BY <1>10, <2>1 DEF Answer, Counted
<1>11. CASE UNCHANGED aggregatorVars
  <2>1. Remaining' = Remaining
    BY <1>11 DEF aggregatorVars, Remaining
  <2> QED
    BY <1>11, <2>1 DEF aggregatorVars, Counted
<1> QED
  BY <1>1, <1>2, <1>3, <1>4, <1>5, <1>6, <1>7, <1>8, <1>9, <1>10, <1>11 DEF AggregatorNext,
     AggregatorSteps

\* A source pushes itself once, and is taken out once.
LEMMA ArrivalsStep == AggregatorInv /\ [AggregatorNext]_aggregatorVars => Arrivals'
<1> SUFFICES ASSUME AggregatorInv, [AggregatorNext]_aggregatorVars
             PROVE  Arrivals'
  OBVIOUS
<1> USE SourcesAssumption DEF AggregatorInv, AggregatorTypeOK, Becomes, Answers, Arrivals
<1>1. ASSUME AskFirst
     PROVE  Arrivals'
  BY <1>1 DEF AskFirst
<1>2. ASSUME ChargedAll
     PROVE  Arrivals'
  BY <1>2 DEF ChargedAll
<1>3. ASSUME Take
     PROVE  Arrivals'
  BY <1>3 DEF Take
<1>4. ASSUME Finish
     PROVE  Arrivals'
  BY <1>4 DEF Finish
<1>5. ASSUME WaitOne
     PROVE  Arrivals'
  BY <1>5 DEF WaitOne
<1>6. ASSUME Left
     PROVE  Arrivals'
  BY <1>6 DEF Left
<1>7. ASSUME DestroyAggregator
     PROVE  Arrivals'
  BY <1>7 DEF DestroyAggregator
<1>8. ASSUME NEW s \in Sources, ChargeNext(s)
     PROVE  Arrivals'
  BY <1>8 DEF ChargeNext
<1>9. ASSUME NEW s \in Sources, AskAgain(s)
     PROVE  Arrivals'
  BY <1>9 DEF AskAgain
<1>10. ASSUME NEW s \in Sources, NEW what \in Answers, Answer(s, what)
     PROVE  Arrivals'
  BY <1>10 DEF Answer
<1>11. CASE UNCHANGED aggregatorVars
  BY <1>11 DEF aggregatorVars
<1> QED
  BY <1>1, <1>2, <1>3, <1>4, <1>5, <1>6, <1>7, <1>8, <1>9, <1>10, <1>11 DEF AggregatorNext,
     AggregatorSteps

\* What is yielded is held until the consumer asks again.
LEMMA OneIsNotStep == AggregatorInv /\ [AggregatorNext]_aggregatorVars => OneIsNot'
<1> SUFFICES ASSUME AggregatorInv, [AggregatorNext]_aggregatorVars
             PROVE  OneIsNot'
  OBVIOUS
<1> USE SourcesAssumption DEF AggregatorInv, AggregatorTypeOK, Becomes, Answers, Arrivals,
     OneIsNot
<1>1. ASSUME AskFirst
     PROVE  OneIsNot'
  BY <1>1 DEF AskFirst
<1>2. ASSUME ChargedAll
     PROVE  OneIsNot'
  BY <1>2 DEF ChargedAll
<1>3. ASSUME Take
     PROVE  OneIsNot'
  BY <1>3 DEF Take
<1>4. ASSUME Finish
     PROVE  OneIsNot'
  BY <1>4 DEF Finish
<1>5. ASSUME WaitOne
     PROVE  OneIsNot'
  <2>1. PICK s \in Sources : source[s] \in {"held", "listed"}
    BY <1>5 DEF WaitOne
  <2>2. source[Head(arrived)] = "pushed"
    BY <1>5 DEF WaitOne
  <2>3. source'[s] \in {"held", "listed"}
    BY <1>5, <2>1, <2>2 DEF WaitOne
  <2> QED
    BY <1>5, <2>3 DEF WaitOne
<1>6. ASSUME Left
     PROVE  OneIsNot'
  BY <1>6 DEF Left
<1>7. ASSUME DestroyAggregator
     PROVE  OneIsNot'
  BY <1>7 DEF DestroyAggregator
<1>8. ASSUME NEW s \in Sources, ChargeNext(s)
     PROVE  OneIsNot'
  BY <1>8 DEF ChargeNext
<1>9. ASSUME NEW s \in Sources, AskAgain(s)
     PROVE  OneIsNot'
  BY <1>9 DEF AskAgain
<1>10. ASSUME NEW s \in Sources, NEW what \in Answers, Answer(s, what)
     PROVE  OneIsNot'
  BY <1>10 DEF Answer
<1>11. CASE UNCHANGED aggregatorVars
  BY <1>11 DEF aggregatorVars
<1> QED
  BY <1>1, <1>2, <1>3, <1>4, <1>5, <1>6, <1>7, <1>8, <1>9, <1>10, <1>11 DEF AggregatorNext,
     AggregatorSteps

\* The frame goes when one source is left, which is not active.
LEMMA NoOrphanStep == AggregatorInv /\ [AggregatorNext]_aggregatorVars => NoOrphan'
<1> SUFFICES ASSUME AggregatorInv, [AggregatorNext]_aggregatorVars
             PROVE  NoOrphan'
  OBVIOUS
<1> USE SourcesAssumption DEF AggregatorInv, AggregatorTypeOK, Becomes, Answers, NoOrphan,
     OneIsNot
<1>1. ASSUME AskFirst
     PROVE  NoOrphan'
  BY <1>1 DEF AskFirst
<1>2. ASSUME ChargedAll
     PROVE  NoOrphan'
  BY <1>2 DEF ChargedAll
<1>3. ASSUME Take
     PROVE  NoOrphan'
  BY <1>3 DEF Take
<1>4. ASSUME Finish
     PROVE  NoOrphan'
  <2>1. IsFiniteSet(Remaining)
    BY FS_Subset DEF Remaining
  <2>2. Remaining = {}
    BY <1>4, <2>1, FS_EmptySet DEF Finish, Counted
  <2> QED
    BY <1>4, <2>2 DEF Finish, Remaining
<1>5. ASSUME WaitOne
     PROVE  NoOrphan'
  BY <1>5 DEF WaitOne
<1>6. ASSUME Left
     PROVE  NoOrphan'
  <2>1. PICK t \in Sources : source[t] \in {"held", "listed"}
    BY <1>6 DEF Left
  <2>2. IsFiniteSet(Remaining)
    BY FS_Subset DEF Remaining
  <2>3. t \in Remaining /\ Cardinality(Remaining) <= 1
    BY <1>6, <2>1 DEF Left, Counted, Remaining
  <2>4. IsFiniteSet(Remaining \ {t}) /\ Cardinality(Remaining \ {t}) = 0
    <3>1. /\ IsFiniteSet(Remaining \ {t})
          /\ Cardinality(Remaining \ {t}) = Cardinality(Remaining) - 1
      BY <2>2, <2>3, FS_RemoveElement
    <3>2. Cardinality(Remaining \ {t}) \in Nat /\ Cardinality(Remaining) \in Nat
      BY <2>2, <3>1, FS_CardinalityType
    <3> QED
      BY <2>3, <3>1, <3>2
  <2>5. Remaining \ {t} = {}
    <3> HIDE DEF Remaining
    <3> QED
      BY <2>4, FS_EmptySet
  <2>6. \A s \in Sources : source[s] # "active"
    BY <2>1, <2>5 DEF Remaining
  <2> QED
    BY <1>6, <2>6 DEF Left
<1>7. ASSUME DestroyAggregator
     PROVE  NoOrphan'
  BY <1>7 DEF DestroyAggregator
<1>8. ASSUME NEW s \in Sources, ChargeNext(s)
     PROVE  NoOrphan'
  BY <1>8 DEF ChargeNext
<1>9. ASSUME NEW s \in Sources, AskAgain(s)
     PROVE  NoOrphan'
  BY <1>9 DEF AskAgain
<1>10. ASSUME NEW s \in Sources, NEW what \in Answers, Answer(s, what)
     PROVE  NoOrphan'
  BY <1>10 DEF Answer
<1>11. CASE UNCHANGED aggregatorVars
  BY <1>11 DEF aggregatorVars
<1> QED
  BY <1>1, <1>2, <1>3, <1>4, <1>5, <1>6, <1>7, <1>8, <1>9, <1>10, <1>11 DEF AggregatorNext,
     AggregatorSteps

\* For any number of sources, and wherever the aggregator is destroyed or ends by an
\* exception: no source runs whose frame, callback and queue are gone.
THEOREM NoSourceOrphaned == AggregatorSpec => []NoOrphan
<1>1. AggregatorInv /\ [AggregatorNext]_aggregatorVars => AggregatorInv'
  BY AggregatorTypeStep, CountedStep, ArrivalsStep, OneIsNotStep, NoOrphanStep
     DEF AggregatorInv
<1>2. AggregatorInv => NoOrphan
  BY DEF AggregatorInv
<1> QED
  BY AggregatorStart, <1>1, <1>2, PTL DEF AggregatorSpec

-----------------------------------------------------------------------------
(* Signals *)

\* The shared state lives while anybody has it, and after an emission nobody is left that
\* was woken by it.
Emission ==
    /\ holders # {} \/ (\E e \in Emitters : link[e] = "locking") => life = "alive"
    /\ life = "unborn" => chain = <<>> /\ walk = <<>> /\ emitting = "no"
          /\ \A a \in Awaiters : link[a] = "off"
    /\ life = "alive" /\ emitting = "no" => walk = <<>> /\ Woken = {}
    /\ life = "alive" /\ emitting # "no" => curVal # 0 /\ valAlive

SignalInv == SignalTypeOK /\ Emission /\ ReadsItsValue

\* What becomes of a chain is a chain again.
LEMMA ChainOps ==
    ASSUME NEW S
    PROVE  /\ <<>> \in Seq(S)
           /\ \A a \in S : <<a>> \in Seq(S)
           /\ \A s, t \in Seq(S) : s \o t \in Seq(S)
           /\ \A s \in Seq(S) : s # <<>> => Head(s) \in S /\ Tail(s) \in Seq(S)
  BY ConcatProperties, HeadTailProperties

\* At first nobody awaits the signal.
LEMMA SignalStart == SignalInit => SignalInv
<1> SUFFICES ASSUME SignalInit
             PROVE  SignalInv
  OBVIOUS
<1> USE MaxEmitsAssumption DEF SignalInit, Awaiters
<1>1. SignalTypeOK
  <2>1. valAlive \in BOOLEAN
    OBVIOUS
  <2>2. chain \in Seq(Awaiters) /\ walk \in Seq(Awaiters)
    OBVIOUS
  <2>3. /\ link \in [Awaiters -> {"off", "locking", "linked", "woken", "ended"}]
        /\ wokenBy \in [Emitters -> 0 .. MaxEmits] /\ curVal \in 0 .. MaxEmits
    OBVIOUS
  <2>4. holders \subseteq Strong /\ life \in {"unborn", "alive", "dead"}
    OBVIOUS
  <2>5. emitting \in {"no", "stored", "borrowed"}
    OBVIOUS
  <2> QED
    BY <2>1, <2>2, <2>3, <2>4, <2>5 DEF SignalTypeOK
<1>2. Emission /\ ReadsItsValue
  BY DEF Emission, ReadsItsValue, Woken
<1> QED
  BY <1>1, <1>2 DEF SignalInv

\* The types of the signal.
LEMMA SignalTypeStep == SignalTypeOK /\ [SignalNext]_signalVars => SignalTypeOK'
<1> SUFFICES ASSUME SignalTypeOK, [SignalNext]_signalVars
             PROVE  SignalTypeOK'
  OBVIOUS
<1> USE MaxEmitsAssumption DEF SignalTypeOK, Awaiters, Linked
<1>1. ASSUME NEW s \in Strong, ShareSignal(s)
     PROVE  SignalTypeOK'
  BY <1>1 DEF ShareSignal
<1>2. ASSUME NEW s \in Strong, DropSignal(s)
     PROVE  SignalTypeOK'
  <2>1. \/ chain' = <<>> /\ walk' = chain \o walk
        \/ chain' = chain /\ walk' = walk
    BY <1>2 DEF DropSignal, Released
  <2>2. <<>> \in Seq(Awaiters) /\ chain \o walk \in Seq(Awaiters)
    BY <1>2, ChainOps DEF DropSignal
  <2>3. chain' \in Seq(Awaiters) /\ walk' \in Seq(Awaiters)
    BY <2>1, <2>2
  <2> QED
    BY <1>2, <2>3 DEF DropSignal, Released
<1>3. ASSUME NEW e \in Emitters, Await(e)
     PROVE  SignalTypeOK'
  BY <1>3 DEF Await
<1>4. ASSUME NEW e \in Emitters, Subscribe(e)
     PROVE  SignalTypeOK'
  <2>1. <<>> \in Seq(Awaiters) /\ <<e>> \o chain \in Seq(Awaiters)
    BY ChainOps
  <2>2. (<<e>> \o chain) \o walk \in Seq(Awaiters)
    BY <2>1, ChainOps
  <2>3. \/ chain' = <<>> /\ walk' = (<<e>> \o chain) \o walk
        \/ chain' = <<e>> \o chain /\ walk' = walk
    BY <1>4 DEF Subscribe, Released
  <2>4. chain' \in Seq(Awaiters) /\ walk' \in Seq(Awaiters)
    BY <2>1, <2>2, <2>3
  <2> QED
    BY <1>4, <2>4 DEF Subscribe, Released
<1>5. ASSUME NEW e \in Emitters, HookUp(e)
     PROVE  SignalTypeOK'
  <2>1. \/ chain' = <<>> /\ walk' = <<e>>
        \/ chain' = <<e>> /\ walk' = walk
    BY <1>5 DEF HookUp
  <2>2. <<>> \in Seq(Awaiters) /\ <<e>> \in Seq(Awaiters)
    BY <1>5, ChainOps DEF HookUp
  <2>3. chain' \in Seq(Awaiters) /\ walk' \in Seq(Awaiters)
    BY <2>1, <2>2
  <2> QED
    BY <1>5, <2>3 DEF HookUp
<1>6. ASSUME NEW e \in Emitters, ResumeEmitter(e)
     PROVE  SignalTypeOK'
  BY <1>6 DEF ResumeEmitter
<1>7. ASSUME NEW c \in Callbacks, connect(c)
     PROVE  SignalTypeOK'
  BY <1>7 DEF connect
<1>8. ASSUME NEW how \in {"stored", "borrowed"}, Emit(how)
     PROVE  SignalTypeOK'
  BY <1>8 DEF Emit
<1>9. ASSUME Walk
     PROVE  SignalTypeOK'
  <2>1. /\ walk # <<>> /\ walk' = Tail(walk)
        /\ chain' = chain \/ chain' = <<Head(walk)>> \o chain
    BY <1>9 DEF Walk
  <2>2. Tail(walk) \in Seq(Awaiters) /\ <<Head(walk)>> \o chain \in Seq(Awaiters)
    BY <1>9, ChainOps DEF Walk
  <2>3. chain' \in Seq(Awaiters) /\ walk' \in Seq(Awaiters)
    BY <2>1, <2>2
  <2> QED
    BY <1>9, <2>3 DEF Walk
<1>10. ASSUME EmitReturns
     PROVE  SignalTypeOK'
  BY <1>10 DEF EmitReturns
<1>11. CASE UNCHANGED signalVars
  BY <1>11 DEF signalVars
<1> QED
  BY <1>1, <1>2, <1>3, <1>4, <1>5, <1>6, <1>7, <1>8, <1>9, <1>10, <1>11 DEF SignalNext

\* A call of the collector waits for those it wakes.
LEMMA EmissionStep == SignalInv /\ ~QueuedResume /\ [SignalNext]_signalVars => Emission'
<1> SUFFICES ASSUME SignalInv /\ ~QueuedResume, [SignalNext]_signalVars
             PROVE  Emission'
  OBVIOUS
<1> USE MaxEmitsAssumption DEF SignalTypeOK, Awaiters, Linked, SignalInv, Emission,
     ReadsItsValue, Woken
<1>1. ASSUME NEW s \in Strong, ShareSignal(s)
     PROVE  Emission'
  BY <1>1 DEF ShareSignal
<1>2. ASSUME NEW s \in Strong, DropSignal(s)
     PROVE  Emission'
  BY <1>2 DEF DropSignal, Released, Locking
<1>3. ASSUME NEW e \in Emitters, Await(e)
     PROVE  Emission'
  BY <1>3 DEF Await
<1>4. ASSUME NEW e \in Emitters, Subscribe(e)
     PROVE  Emission'
  BY <1>4 DEF Subscribe, Released, Locking
<1>5. ASSUME NEW e \in Emitters, HookUp(e)
     PROVE  Emission'
  BY <1>5 DEF HookUp
<1>6. ASSUME NEW e \in Emitters, ResumeEmitter(e)
     PROVE  Emission'
  BY <1>6 DEF ResumeEmitter
<1>7. ASSUME NEW c \in Callbacks, connect(c)
     PROVE  Emission'
  BY <1>7 DEF connect
<1>8. ASSUME NEW how \in {"stored", "borrowed"}, Emit(how)
     PROVE  Emission'
  BY <1>8 DEF Emit
<1>9. ASSUME Walk
     PROVE  Emission'
  BY <1>9 DEF Walk
<1>10. ASSUME EmitReturns
     PROVE  Emission'
  BY <1>10 DEF EmitReturns
<1>11. CASE UNCHANGED signalVars
  BY <1>11 DEF signalVars
<1> QED
  BY <1>1, <1>2, <1>3, <1>4, <1>5, <1>6, <1>7, <1>8, <1>9, <1>10, <1>11 DEF SignalNext

\* The value stays while it is read.
LEMMA ReadsStep == SignalInv /\ ~QueuedResume /\ [SignalNext]_signalVars => ReadsItsValue'
<1> SUFFICES ASSUME SignalInv /\ ~QueuedResume, [SignalNext]_signalVars
             PROVE  ReadsItsValue'
  OBVIOUS
<1> USE MaxEmitsAssumption DEF SignalTypeOK, Awaiters, Linked, SignalInv, Emission,
     ReadsItsValue, Woken
<1>1. ASSUME NEW s \in Strong, ShareSignal(s)
     PROVE  ReadsItsValue'
  BY <1>1 DEF ShareSignal
<1>2. ASSUME NEW s \in Strong, DropSignal(s)
     PROVE  ReadsItsValue'
  BY <1>2 DEF DropSignal, Released, Locking
<1>3. ASSUME NEW e \in Emitters, Await(e)
     PROVE  ReadsItsValue'
  BY <1>3 DEF Await
<1>4. ASSUME NEW e \in Emitters, Subscribe(e)
     PROVE  ReadsItsValue'
  BY <1>4 DEF Subscribe, Released, Locking
<1>5. ASSUME NEW e \in Emitters, HookUp(e)
     PROVE  ReadsItsValue'
  BY <1>5 DEF HookUp
<1>6. ASSUME NEW e \in Emitters, ResumeEmitter(e)
     PROVE  ReadsItsValue'
  BY <1>6 DEF ResumeEmitter
<1>7. ASSUME NEW c \in Callbacks, connect(c)
     PROVE  ReadsItsValue'
  BY <1>7 DEF connect
<1>8. ASSUME NEW how \in {"stored", "borrowed"}, Emit(how)
     PROVE  ReadsItsValue'
  BY <1>8 DEF Emit
<1>9. ASSUME Walk
     PROVE  ReadsItsValue'
  BY <1>9 DEF Walk
<1>10. ASSUME EmitReturns
     PROVE  ReadsItsValue'
  BY <1>10 DEF EmitReturns
<1>11. CASE UNCHANGED signalVars
  BY <1>11 DEF signalVars
<1> QED
  BY <1>1, <1>2, <1>3, <1>4, <1>5, <1>6, <1>7, <1>8, <1>9, <1>10, <1>11 DEF SignalNext

\* For any number of emitters, callbacks and references: an emitter reads the value it was
\* woken by, which still exists, if the caller of the collector resumes those it woke before
\* it goes on.
THEOREM ValueIsRead == ~QueuedResume => (SignalSpec => []ReadsItsValue)
<1> SUFFICES ASSUME ~QueuedResume
             PROVE  SignalSpec => []ReadsItsValue
  OBVIOUS
<1>1. SignalInv /\ [SignalNext]_signalVars => SignalInv'
  BY SignalTypeStep, EmissionStep, ReadsStep DEF SignalInv
<1>2. SignalInv => ReadsItsValue
  BY DEF SignalInv
<1> QED
  BY SignalStart, <1>1, <1>2, PTL DEF SignalSpec
\* One more awaiter in front of the others.
LEMMA LinkOne ==
    ASSUME NEW S, NEW s \in Seq(S), NEW e \in S, IsInjective(s), ~Contains(s, e)
    PROVE  /\ IsInjective(<<e>> \o s)
           /\ \A a : Contains(<<e>> \o s, a) <=> a = e \/ Contains(s, a)
<1> DEFINE r == <<e>> \o s
<1>1. /\ r \in Seq(S) /\ Len(r) = Len(s) + 1 /\ Len(s) \in Nat
      /\ r[1] = e /\ \A i \in 2 .. Len(r) : r[i] = s[i - 1]
  OBVIOUS
<1>2. DOMAIN r = 1 .. Len(r) /\ DOMAIN s = 1 .. Len(s)
  BY <1>1
<1> HIDE DEF r
<1>3. IsInjective(r)
  <2> SUFFICES ASSUME NEW i \in 1 .. Len(r), NEW j \in 1 .. Len(r), r[i] = r[j]
               PROVE  i = j
    BY <1>2 DEF IsInjective
  <2>1. ASSUME NEW k \in 2 .. Len(r)
        PROVE  k - 1 \in 1 .. Len(s) /\ r[k] = s[k - 1] /\ r[k] # e
    BY <1>1 DEF Contains
  <2>2. \A k, l \in 1 .. Len(s) : s[k] = s[l] => k = l
    BY <1>2 DEF IsInjective
  <2>3. CASE i = 1 \/ j = 1
    BY <1>1, <2>1, <2>3
  <2>4. CASE i # 1 /\ j # 1
    <3>1. i \in 2 .. Len(r) /\ j \in 2 .. Len(r)
      BY <2>4, <1>1
    <3>2. i - 1 = j - 1
      BY <3>1, <2>1, <2>2
    <3> QED
      BY <3>1, <3>2
  <2> QED
    BY <2>3, <2>4
<1>4. ASSUME NEW a
      PROVE  Contains(r, a) <=> a = e \/ Contains(s, a)
  <2>1. ASSUME Contains(r, a) PROVE a = e \/ Contains(s, a)
    <3>1. PICK i \in 1 .. Len(r) : r[i] = a
      BY <2>1 DEF Contains
    <3>2. CASE i = 1
      BY <3>1, <3>2, <1>1
    <3>3. CASE i # 1
      <4>1. i - 1 \in 1 .. Len(s) /\ s[i - 1] = a
        BY <3>1, <3>3, <1>1
      <4> QED
        BY <4>1 DEF Contains
    <3> QED
      BY <3>2, <3>3
  <2>2. ASSUME a = e PROVE Contains(r, a)
    BY <2>2, <1>1 DEF Contains
  <2>3. ASSUME Contains(s, a) PROVE Contains(r, a)
    <3>1. PICK i \in 1 .. Len(s) : s[i] = a
      BY <2>3 DEF Contains
    <3>2. i + 1 \in 1 .. Len(r) /\ r[i + 1] = a
      BY <3>1, <1>1
    <3> QED
      BY <3>2 DEF Contains
  <2> QED
    BY <2>1, <2>2, <2>3
<1> QED
  BY <1>3, <1>4 DEF r

\* The one at the head of what is walked is taken out.
LEMMA TakeOne ==
    ASSUME NEW S, NEW c \in Seq(S), NEW w \in Seq(S), w # <<>>, IsInjective(c \o w)
    PROVE  /\ IsInjective(c \o Tail(w))
           /\ ~Contains(c \o Tail(w), Head(w))
           /\ \A a : Contains(c \o w, a) <=> a = Head(w) \/ Contains(c \o Tail(w), a)
<1> DEFINE s == c \o w
           r == c \o Tail(w)
           n == Len(c) + 1
<1>1. /\ Len(c) \in Nat /\ n \in Nat /\ Len(w) \in Nat /\ Len(w) >= 1
      /\ Len(s) = Len(c) + Len(w) /\ Len(r) = Len(s) - 1
  OBVIOUS
<1>2. /\ \A i \in 1 .. Len(s) : s[i] = IF i < n THEN c[i] ELSE w[i - Len(c)]
      /\ \A i \in 1 .. Len(r) : r[i] = IF i < n THEN c[i] ELSE w[i - Len(c) + 1]
  OBVIOUS
<1>3. /\ s[n] = Head(w) /\ n \in 1 .. Len(s)
      /\ DOMAIN s = 1 .. Len(s) /\ DOMAIN r = 1 .. Len(r)
  OBVIOUS
<1> DEFINE up(i) == IF i < n THEN i ELSE i + 1
<1>4. ASSUME NEW i \in 1 .. Len(r)
      PROVE  up(i) \in 1 .. Len(s) /\ up(i) # n /\ r[i] = s[up(i)]
  BY <1>1, <1>2
<1> HIDE DEF s, r, n
<1>5. \A i, j \in 1 .. Len(s) : s[i] = s[j] => i = j
  BY <1>3 DEF IsInjective, s
<1>6. IsInjective(r)
  <2> SUFFICES ASSUME NEW i \in 1 .. Len(r), NEW j \in 1 .. Len(r), r[i] = r[j]
               PROVE  i = j
    BY <1>3 DEF IsInjective
  <2>1. up(i) = up(j)
    BY <1>4, <1>5
  <2> QED
    BY <2>1, <1>1
<1>7. ~Contains(r, Head(w))
  BY <1>3, <1>4, <1>5 DEF Contains
<1>8. ASSUME NEW a
      PROVE  Contains(s, a) <=> a = Head(w) \/ Contains(r, a)
  <2>1. ASSUME Contains(s, a), a # Head(w) PROVE Contains(r, a)
    <3>1. PICK i \in 1 .. Len(s) : s[i] = a
      BY <2>1 DEF Contains
    <3>2. i # n
      BY <3>1, <2>1, <1>3
    <3>3. CASE i < n
      <4>1. i \in 1 .. Len(r) /\ up(i) = i
        BY <3>1, <3>3, <1>1 DEF n
      <4> QED
        BY <4>1, <3>1, <1>4 DEF Contains
    <3>4. CASE i > n
      <4>1. i - 1 \in 1 .. Len(r) /\ up(i - 1) = i
        BY <3>1, <3>4, <1>1, <1>3
      <4> QED
        BY <4>1, <3>1, <1>4 DEF Contains
    <3> QED
      BY <3>2, <3>3, <3>4, <1>1
  <2>2. ASSUME a = Head(w) PROVE Contains(s, a)
    BY <2>2, <1>3 DEF Contains
  <2>3. ASSUME Contains(r, a) PROVE Contains(s, a)
    <3>1. PICK i \in 1 .. Len(r) : r[i] = a
      BY <2>3 DEF Contains
    <3> QED
      BY <3>1, <1>4 DEF Contains
  <2> QED
    BY <2>1, <2>2, <2>3
<1> QED
  BY <1>6, <1>7, <1>8 DEF s, r

\* As long as the signal has no state, nobody is linked.
Unborn == life = "unborn" =>
    /\ chain = <<>> /\ walk = <<>> /\ holders = {}
    /\ \A a \in Awaiters : link[a] = "off"

LinkInv == SignalTypeOK /\ Unborn /\ LinkedOnce

\* Nobody is linked at first, and the state is there before anybody is.
LEMMA UnbornStep == SignalTypeOK /\ Unborn /\ [SignalNext]_signalVars => Unborn'
<1> SUFFICES ASSUME SignalTypeOK, Unborn, [SignalNext]_signalVars
             PROVE  Unborn'
  OBVIOUS
<1> USE DEF SignalTypeOK, Unborn, Awaiters, Linked
<1>1. ASSUME NEW s \in Strong, ShareSignal(s)
     PROVE  Unborn'
  BY <1>1 DEF ShareSignal
<1>2. ASSUME NEW s \in Strong, DropSignal(s)
     PROVE  Unborn'
  BY <1>2 DEF DropSignal, Released
<1>3. ASSUME NEW e \in Emitters, Await(e)
     PROVE  Unborn'
  BY <1>3 DEF Await
<1>4. ASSUME NEW e \in Emitters, Subscribe(e)
     PROVE  Unborn'
  BY <1>4 DEF Subscribe, Released
<1>5. ASSUME NEW e \in Emitters, HookUp(e)
     PROVE  Unborn'
  BY <1>5 DEF HookUp
<1>6. ASSUME NEW e \in Emitters, ResumeEmitter(e)
     PROVE  Unborn'
  BY <1>6 DEF ResumeEmitter
<1>7. ASSUME NEW c \in Callbacks, connect(c)
     PROVE  Unborn'
  BY <1>7 DEF connect
<1>8. ASSUME NEW how \in {"stored", "borrowed"}, Emit(how)
     PROVE  Unborn'
  BY <1>8 DEF Emit
<1>9. ASSUME Walk
     PROVE  Unborn'
  BY <1>9 DEF Walk
<1>10. ASSUME EmitReturns
     PROVE  Unborn'
  BY <1>10 DEF EmitReturns
<1>11. CASE UNCHANGED signalVars
  BY <1>11 DEF signalVars
<1> QED
  BY <1>1, <1>2, <1>3, <1>4, <1>5, <1>6, <1>7, <1>8, <1>9, <1>10, <1>11 DEF SignalNext

\* An awaiter is linked where there is none of it, and leaves the walk for good or to be
\* linked again.
LEMMA LinkStep == LinkInv /\ [SignalNext]_signalVars => LinkedOnce'
<1> SUFFICES ASSUME LinkInv, [SignalNext]_signalVars
             PROVE  LinkedOnce'
  OBVIOUS
<1> DEFINE all == chain \o walk
<1>0. /\ chain \in Seq(Awaiters) /\ walk \in Seq(Awaiters) /\ all \in Seq(Awaiters)
      /\ link \in [Awaiters -> {"off", "locking", "linked", "woken", "ended"}]
      /\ IsInjective(all) /\ \A a \in Awaiters : link[a] = "linked" <=> Contains(all, a)
  BY ChainOps DEF LinkInv, SignalTypeOK, LinkedOnce
<1> HIDE DEF LinkInv
<1> SUFFICES /\ IsInjective(all')
             /\ \A a \in Awaiters : link'[a] = "linked" <=> Contains(all', a)
  BY DEF LinkedOnce
<1>a. ASSUME all' = all, \A a \in Awaiters : link'[a] = "linked" <=> link[a] = "linked"
      PROVE  /\ IsInjective(all')
             /\ \A a \in Awaiters : link'[a] = "linked" <=> Contains(all', a)
  BY <1>a, <1>0
<1>b. ASSUME NEW e \in Awaiters, all' = <<e>> \o all, link[e] # "linked",
             link' = [link EXCEPT ![e] = "linked"]
      PROVE  /\ IsInjective(all')
             /\ \A a \in Awaiters : link'[a] = "linked" <=> Contains(all', a)
  <2>1. IsInjective(<<e>> \o all)
        /\ \A a : Contains(<<e>> \o all, a) <=> a = e \/ Contains(all, a)
    BY <1>b, <1>0, LinkOne
  <2> QED
    BY <1>b, <1>0, <2>1
<1>n. <<>> \o all = all
  <2>1. all \in Seq(Awaiters)
    BY <1>0, ConcatProperties
  <2> QED
    BY <2>1
<1> HIDE DEF all
<1>1. ASSUME NEW s \in Strong, ShareSignal(s)
     PROVE  LinkedOnce'
  BY <1>1, <1>a DEF ShareSignal, LinkedOnce, all
<1>2. ASSUME NEW s \in Strong, DropSignal(s)
     PROVE  LinkedOnce'
  <2>1. \/ chain' = <<>> /\ walk' = all
        \/ chain' = chain /\ walk' = walk
    BY <1>2 DEF DropSignal, Released, all
  <2>2. all' = all
    <3>1. CASE chain' = <<>> /\ walk' = all
      BY <3>1, <1>n DEF all
    <3>2. CASE chain' = chain /\ walk' = walk
      BY <3>2 DEF all
    <3> QED
      BY <2>1, <3>1, <3>2
  <2> QED
    BY <1>2, <1>a, <2>2 DEF DropSignal, LinkedOnce, all
<1>3. ASSUME NEW e \in Emitters, Await(e)
     PROVE  LinkedOnce'
  <2>1. all' = all /\ \A a \in Awaiters : link'[a] = "linked" <=> link[a] = "linked"
    BY <1>3, <1>0 DEF Await, Linked, all, Awaiters
  <2> QED
    BY <1>a, <2>1 DEF LinkedOnce, all
<1>4. ASSUME NEW e \in Emitters, Subscribe(e)
     PROVE  LinkedOnce'
  <2>1. \/ chain' = <<>> /\ walk' = (<<e>> \o chain) \o walk
        \/ chain' = <<e>> \o chain /\ walk' = walk
    BY <1>4 DEF Subscribe, Released
  <2>2. e \in Awaiters
    BY DEF Awaiters
  <2>3. all' = <<e>> \o all
    <3>1. (<<e>> \o chain) \o walk = <<e>> \o all
      BY <1>0, <2>2, ChainOps, ConcatAssociative DEF all
    <3>2. (<<e>> \o chain) \o walk \in Seq(Awaiters)
      BY <1>0, <2>2, ChainOps
    <3>3. \A t \in Seq(Awaiters) : <<>> \o t = t
      OBVIOUS
    <3>4. all' = (<<e>> \o chain) \o walk
      BY <2>1, <3>2, <3>3 DEF all
    <3> QED
      BY <3>1, <3>4
  <2> QED
    BY <1>4, <1>b, <2>2, <2>3 DEF Subscribe, Linked, LinkedOnce, all
<1>5. ASSUME NEW e \in Emitters, HookUp(e)
     PROVE  LinkedOnce'
  <2>1. e \in Awaiters /\ chain = <<>> /\ walk = <<>>
    BY <1>5 DEF Awaiters, HookUp, LinkInv, Unborn
  <2>2. \/ chain' = <<>> /\ walk' = <<e>>
        \/ chain' = <<e>> /\ walk' = <<>>
    BY <1>5, <2>1 DEF HookUp
  <2>3. all' = <<e>> \o all
    <3>1. /\ <<>> \o <<>> = <<>>
          /\ \A t \in Seq(Awaiters) : <<>> \o t = t /\ t \o <<>> = t
          /\ <<e>> \in Seq(Awaiters)
      BY <2>1, ChainOps
    <3>2. all' = <<e>>
      BY <2>2, <3>1 DEF all
    <3> QED
      BY <2>1, <3>1, <3>2 DEF all
  <2> QED
    BY <1>5, <1>b, <2>1, <2>3 DEF HookUp, Linked, LinkedOnce, all
<1>6. ASSUME NEW e \in Emitters, ResumeEmitter(e)
     PROVE  LinkedOnce'
  <2>1. all' = all /\ \A a \in Awaiters : link'[a] = "linked" <=> link[a] = "linked"
    BY <1>6, <1>0 DEF ResumeEmitter, Linked, all, Awaiters
  <2> QED
    BY <1>a, <2>1 DEF LinkedOnce, all
<1>7. ASSUME NEW c \in Callbacks, connect(c)
     PROVE  LinkedOnce'
  <2>1. c \in Awaiters
    BY DEF Awaiters
  <2>2. all' = <<c>> \o all
    <3>1. (<<c>> \o chain) \o walk = <<c>> \o all
      BY <1>0, <2>1, ChainOps, ConcatAssociative DEF all
    <3> QED
      BY <1>7, <3>1 DEF connect, all
  <2> QED
    BY <1>7, <1>b, <2>1, <2>2 DEF connect, Linked, LinkedOnce, all
<1>8. ASSUME NEW how \in {"stored", "borrowed"}, Emit(how)
     PROVE  LinkedOnce'
  <2>1. chain' = <<>> /\ walk' = chain /\ walk = <<>>
    BY <1>8 DEF Emit
  <2>2. chain \in Seq(Awaiters) /\ <<>> \o chain = chain /\ chain \o <<>> = chain
    BY <1>0
  <2>3. all' = all
    BY <2>1, <2>2 DEF all
  <2> QED
    BY <1>8, <1>a, <2>3 DEF Emit, LinkedOnce, all
<1>9. ASSUME Walk
     PROVE  LinkedOnce'
  <2> DEFINE h == Head(walk)
             rest == chain \o Tail(walk)
  <2>1. /\ walk # <<>> /\ walk' = Tail(walk) /\ h \in Awaiters /\ Tail(walk) \in Seq(Awaiters)
        /\ rest \in Seq(Awaiters)
    BY <1>9, <1>0, ChainOps DEF Walk
  <2>2. /\ IsInjective(rest) /\ ~Contains(rest, h)
        /\ \A a : Contains(all, a) <=> a = h \/ Contains(rest, a)
    BY <1>0, <2>1, TakeOne DEF all
  <2>3. link[h] = "linked"
    BY <1>0, <2>1, <2>2
  <2>4. CASE chain' = chain /\ link' = [link EXCEPT ![h] = "woken"]
    <3>1. all' = rest
      BY <2>1, <2>4 DEF all
    <3> QED
      BY <1>0, <2>1, <2>2, <2>4, <3>1 DEF LinkedOnce, all
  <2>5. CASE chain' = chain /\ link' = [link EXCEPT ![h] = "ended"]
    <3>1. all' = rest
      BY <2>1, <2>5 DEF all
    <3> QED
      BY <1>0, <2>1, <2>2, <2>5, <3>1 DEF LinkedOnce, all
  <2>6. CASE chain' = <<h>> \o chain /\ link' = link
    <3>1. all' = <<h>> \o rest
      <4>1. (<<h>> \o chain) \o Tail(walk) = <<h>> \o rest
        <5>1. <<h>> \in Seq(Awaiters) /\ chain \in Seq(Awaiters) /\ Tail(walk) \in Seq(Awaiters)
          BY <1>0, <2>1, ChainOps
        <5> QED
          BY ONLY <5>1, ConcatAssociative
      <4> QED
        BY <2>1, <2>6, <4>1 DEF all
    <3>2. /\ IsInjective(<<h>> \o rest)
          /\ \A a : Contains(<<h>> \o rest, a) <=> a = h \/ Contains(rest, a)
      BY <2>1, <2>2, LinkOne
    <3> QED
      BY <1>0, <2>2, <2>6, <3>1, <3>2 DEF LinkedOnce, all
  <2> QED
    BY <1>9, <2>4, <2>5, <2>6 DEF Walk, Linked
<1>10. ASSUME EmitReturns
     PROVE  LinkedOnce'
  BY <1>10, <1>a DEF EmitReturns, LinkedOnce, all
<1>11. CASE UNCHANGED signalVars
  BY <1>11, <1>a DEF signalVars, LinkedOnce, all
<1> QED
  BY <1>1, <1>2, <1>3, <1>4, <1>5, <1>6, <1>7, <1>8, <1>9, <1>10, <1>11 DEF SignalNext,
     LinkedOnce, all

\* For any number of emitters, callbacks and references, and also when what was woken is
\* only queued: whoever is linked is once in the chain or in what is being walked.
THEOREM LinksAreUnique == SignalSpec => []LinkedOnce
<1>1. SignalInit => LinkInv
  <2> SUFFICES ASSUME SignalInit
               PROVE  LinkInv
    OBVIOUS
  <2>1. SignalTypeOK
    BY SignalStart DEF SignalInv
  <2>2. chain \o walk = <<>> /\ \A a \in Awaiters : link[a] = "off"
    BY DEF SignalInit
  <2>3. LinkedOnce
    BY <2>2 DEF LinkedOnce, IsInjective, Contains
  <2>4. Unborn
    BY DEF SignalInit, Unborn
  <2> QED
    BY <2>1, <2>3, <2>4 DEF LinkInv
<1>2. LinkInv /\ [SignalNext]_signalVars => LinkInv'
  BY SignalTypeStep, UnbornStep, LinkStep DEF LinkInv
<1>3. LinkInv => LinkedOnce
  BY DEF LinkInv
<1> QED
  BY <1>1, <1>2, <1>3, PTL DEF SignalSpec

-----------------------------------------------------------------------------
(* Queues: sequences and sets *)

Elems(s) == {s[i] : i \in 1 .. Len(s)}
NoneTwice(s) == \A i, j \in 1 .. Len(s) : s[i] = s[j] => i = j

\* Who is first leaves.
LEMMA FirstLeaves ==
    ASSUME NEW S, NEW s \in Seq(S), s # <<>>, NoneTwice(s)
    PROVE  /\ Tail(s) \in Seq(S) /\ Head(s) \in S /\ Head(s) \in Elems(s)
           /\ Elems(Tail(s)) = Elems(s) \ {Head(s)}
           /\ NoneTwice(Tail(s))
<1>1. /\ Tail(s) \in Seq(S) /\ Head(s) \in S
      /\ Len(Tail(s)) = Len(s) - 1
      /\ \A i \in 1 .. Len(Tail(s)) : Tail(s)[i] = s[i + 1]
  BY HeadTailProperties
<1>2. Len(s) \in Nat \ {0}
  BY EmptySeq
<1>3. Head(s) = s[1] /\ 1 \in 1 .. Len(s)
  BY <1>2
<1>4. Head(s) \in Elems(s)
  BY <1>3 DEF Elems
<1>5. NoneTwice(Tail(s))
  <2> SUFFICES ASSUME NEW i \in 1 .. Len(Tail(s)), NEW j \in 1 .. Len(Tail(s)),
        Tail(s)[i] = Tail(s)[j]
               PROVE  i = j
    BY DEF NoneTwice
  <2>1. i + 1 \in 1 .. Len(s) /\ j + 1 \in 1 .. Len(s) /\ s[i + 1] = s[j + 1]
    BY <1>1, <1>2
  <2>2. i + 1 = j + 1
    BY <2>1 DEF NoneTwice
  <2> QED
    BY <2>2
<1>6. ASSUME NEW x \in Elems(Tail(s))
      PROVE  x \in Elems(s) \ {Head(s)}
  <2>1. PICK i \in 1 .. Len(Tail(s)) : x = Tail(s)[i]
    BY DEF Elems
  <2>2. i + 1 \in 1 .. Len(s) /\ i + 1 # 1 /\ x = s[i + 1]
    BY <1>1, <1>2, <2>1
  <2>3. x # s[1]
    BY <1>3, <2>2 DEF NoneTwice
  <2> QED
    BY <1>3, <2>2, <2>3 DEF Elems
<1>7. ASSUME NEW x \in Elems(s), x # Head(s)
      PROVE  x \in Elems(Tail(s))
  <2>1. PICK i \in 1 .. Len(s) : x = s[i]
    BY DEF Elems
  <2>2. i # 1
    BY <1>3, <1>7, <2>1
  <2>3. i - 1 \in 1 .. Len(Tail(s)) /\ (i - 1) + 1 = i
    BY <1>1, <1>2, <2>2
  <2>4. Tail(s)[i - 1] = x
    BY <1>1, <2>1, <2>3
  <2> QED
    BY <2>3, <2>4 DEF Elems
<1> QED
  BY <1>1, <1>4, <1>5, <1>6, <1>7

\* A new one joins.
LEMMA LastJoins ==
    ASSUME NEW S, NEW s \in Seq(S), NoneTwice(s), NEW x \in S, x \notin Elems(s)
    PROVE  /\ Append(s, x) \in Seq(S)
           /\ Elems(Append(s, x)) = Elems(s) \cup {x}
           /\ NoneTwice(Append(s, x))
<1>1. /\ Append(s, x) \in Seq(S)
      /\ Len(Append(s, x)) = Len(s) + 1
      /\ \A i \in 1 .. Len(s) : Append(s, x)[i] = s[i]
      /\ Append(s, x)[Len(s) + 1] = x
  BY AppendProperties
<1>2. Len(s) \in Nat
  BY LenProperties
<1>3. \A i \in 1 .. Len(Append(s, x)) : i \in 1 .. Len(s) \/ i = Len(s) + 1
  BY <1>1, <1>2
<1>4. \A i \in 1 .. Len(s) : s[i] # x
  BY DEF Elems
<1>5. NoneTwice(Append(s, x))
  <2> SUFFICES ASSUME NEW i \in 1 .. Len(Append(s, x)), NEW j \in 1 .. Len(Append(s, x)),
                      Append(s, x)[i] = Append(s, x)[j]
               PROVE  i = j
    BY DEF NoneTwice
  <2>1. CASE i \in 1 .. Len(s) /\ j \in 1 .. Len(s)
    BY <1>1, <2>1 DEF NoneTwice
  <2>2. CASE i = Len(s) + 1 \/ j = Len(s) + 1
    BY <1>1, <1>3, <1>4, <2>2
  <2> QED
    BY <1>3, <2>1, <2>2
<1>6. \A i \in 1 .. Len(s) : i \in 1 .. Len(Append(s, x))
  BY <1>1, <1>2
<1>7. Len(s) + 1 \in 1 .. Len(Append(s, x))
  BY <1>1, <1>2
<1>8. ASSUME NEW y \in Elems(Append(s, x))
      PROVE  y \in Elems(s) \cup {x}
  BY <1>1, <1>3 DEF Elems
<1>9. ASSUME NEW y \in Elems(s) \cup {x}
      PROVE  y \in Elems(Append(s, x))
  <2>1. CASE y = x
    BY <1>1, <1>7, <2>1 DEF Elems
  <2>2. CASE y \in Elems(s)
    <3>1. PICK i \in 1 .. Len(s) : y = s[i]
      BY <2>2 DEF Elems
    <3> QED
      BY <1>1, <1>6, <3>1 DEF Elems
  <2> QED
    BY <2>1, <2>2
<1> QED
  BY <1>1, <1>5, <1>8, <1>9

-----------------------------------------------------------------------------

(* Queues: who waits, and whose promise is in a hand *)

Producers == [i \in 1 .. Len(blocked) |-> blocked[i].push]
Waiting == Elems(awaiters)
Blocked == Elems(Producers)
Held == {x \in Pops \cup Items : \E t \in Threads : hand[t].of = x}

BlockedType == [item : Items \cup {movedFrom}, push : Items]

HandTypes ==
    {Nothing} \cup [of : Pops, with : Items \cup {"exception"}]
              \cup [of : Items, with : {"done", "exception"}]

\* The types, without the histories.
QueueTypes ==
    /\ limit \in Nat
    /\ items \in Seq(Items \cup {movedFrom})
    /\ awaiters \in Seq(Pops)
    /\ blocked \in Seq(BlockedType)
    /\ pops \in [Pops -> Items \cup {movedFrom, "none", "pending", "refused", "exception",
                                     "canceled"}]
    /\ pushes \in [Items -> {"none", "pending", "done", "exception", "canceled"}]
    /\ hand \in [Threads -> HandTypes]

\* A pop waits as long as its promise is in the queue or in a hand, and it is in one place.
PopsOnce ==
    /\ NoneTwice(awaiters)
    /\ \A k \in Pops : pops[k] = "pending" <=> k \in Waiting \cup Held
    /\ Waiting \cap Held = {}

PushesOnce ==
    /\ NoneTwice(Producers)
    /\ \A v \in Items : pushes[v] = "pending" <=> v \in Blocked \cup Held
    /\ Blocked \cap Held = {}

\* No promise is in two hands.
HandsOnce ==
    \A t, u \in Threads : hand[t].of = hand[u].of /\ hand[t] # Nothing => t = u

QueueInv == QueueTypes /\ PopsOnce /\ PushesOnce /\ HandsOnce /\ NobodyWaitsInVain

\* What a hand holds.
LEMMA HandIsTyped ==
    ASSUME QueueTypes, NEW t \in Threads
    PROVE  \/ hand[t] = Nothing /\ hand[t].of = "nobody"
           \/ hand[t] # Nothing /\ hand[t].of \in Pops
                 /\ hand[t].with \in Items \cup {"exception"}
           \/ hand[t] # Nothing /\ hand[t].of \in Items
                 /\ hand[t].with \in {"done", "exception"}
<1>1. \/ hand[t] = Nothing
      \/ hand[t] \in [of : Pops, with : Items \cup {"exception"}]
      \/ hand[t] \in [of : Items, with : {"done", "exception"}]
  BY DEF QueueTypes, HandTypes
<1> QED
  BY <1>1, ItemsAssumption DEF Nothing

\* A promise is taken out of its queue.
LEMMA HandTakes ==
    ASSUME QueueTypes, HandsOnce, NEW t \in Threads, hand[t] = Nothing,
           NEW x \in Pops \cup Items, x \notin Held, NEW o, TakeOut(t, x, o)
    PROVE  Held' = Held \cup {x} /\ HandsOnce'
<1>1. hand'[t] = [of |-> x, with |-> o] /\ \A u \in Threads : u # t => hand'[u] = hand[u]
  BY DEF TakeOut, QueueTypes
<1>2. \A u \in Threads : hand[u].of # x
  BY DEF Held
<1>3. hand[t].of \notin Pops \cup Items
  BY ItemsAssumption DEF Nothing
<1>4. Held' = Held \cup {x}
  BY <1>1, <1>3 DEF Held
<1>5. HandsOnce'
  BY <1>1, <1>2 DEF HandsOnce
<1> QED
  BY <1>4, <1>5

\* It is resolved.
LEMMA HandGives ==
    ASSUME QueueTypes, HandsOnce, NEW t \in Threads, hand[t] # Nothing,
           hand' = [hand EXCEPT ![t] = Nothing]
    PROVE  Held' = Held \ {hand[t].of} /\ HandsOnce' /\ hand[t].of \in Held
<1>1. hand'[t] = Nothing /\ \A u \in Threads : u # t => hand'[u] = hand[u]
  BY DEF QueueTypes
<1>2. Nothing.of \notin Pops \cup Items
  BY ItemsAssumption DEF Nothing
<1>3. \A u \in Threads : u # t => hand[u].of # hand[t].of
  BY DEF HandsOnce
<1>4. hand[t].of \in Held
  BY HandIsTyped DEF Held
<1>5. Held' = Held \ {hand[t].of}
  BY <1>1, <1>2, <1>3 DEF Held
<1>6. HandsOnce'
  <2>1. \A u \in Threads : hand[u] # Nothing => hand[u].of # Nothing.of
    BY <1>2, HandIsTyped
  <2> QED
    BY <1>1, <2>1 DEF HandsOnce
<1> QED
  BY <1>4, <1>5, <1>6

\* The promises of blocked producers, in their order.
LEMMA ProducersTyped ==
    ASSUME QueueTypes
    PROVE  /\ Producers \in Seq(Items) /\ Len(Producers) = Len(blocked)
           /\ \A i \in 1 .. Len(blocked) : Producers[i] = blocked[i].push
<1>1. blocked \in Seq(BlockedType) /\ \A r \in BlockedType : r.push \in Items
  BY DEF QueueTypes, BlockedType
<1>2. Len(blocked) \in Nat /\ blocked \in [1 .. Len(blocked) -> BlockedType]
  BY <1>1, LenProperties
<1>3. \A i \in 1 .. Len(blocked) : blocked[i].push \in Items
  BY <1>1, <1>2
<1> QED
  BY <1>2, <1>3 DEF Producers

\* Who was blocked first is let go.
LEMMA ProducerLeaves ==
    ASSUME QueueTypes, NoneTwice(Producers), blocked # <<>>, blocked' = Tail(blocked)
    PROVE  /\ Head(blocked).push \in Items /\ Head(blocked).push \in Blocked
           /\ Head(blocked).item \in Items \cup {movedFrom}
           /\ Blocked' = Blocked \ {Head(blocked).push} /\ NoneTwice(Producers)'
<1>1. blocked \in Seq(BlockedType)
  BY DEF QueueTypes
<1>2. /\ Head(blocked) \in BlockedType /\ Tail(blocked) \in Seq(BlockedType)
      /\ Len(Tail(blocked)) = Len(blocked) - 1
      /\ \A i \in 1 .. Len(Tail(blocked)) : Tail(blocked)[i] = blocked[i + 1]
  BY <1>1, HeadTailProperties
<1>3. Len(blocked) \in Nat \ {0}
  BY <1>1, EmptySeq
<1>4. Head(blocked) = blocked[1]
  BY <1>1
<1>5. Producers # <<>> /\ Producers \in Seq(Items) /\ Head(Producers) = Head(blocked).push
  BY <1>3, <1>4, ProducersTyped
<1>6. /\ Len(Tail(Producers)) = Len(Producers) - 1
      /\ \A i \in 1 .. Len(Tail(Producers)) : Tail(Producers)[i] = Producers[i + 1]
      /\ Tail(Producers) \in Seq(Items)
  BY <1>5, HeadTailProperties
<1>7. Tail(Producers) = [i \in 1 .. Len(blocked) - 1 |-> Tail(Producers)[i]]
  BY <1>6, ProducersTyped, LenProperties
<1>8. \A i \in 1 .. Len(blocked) - 1 : Tail(Producers)[i] = Tail(blocked)[i].push
  BY <1>2, <1>3, <1>6, ProducersTyped
<1>9. Producers' = Tail(Producers)
  BY <1>2, <1>7, <1>8 DEF Producers
<1>10. /\ Head(Producers) \in Elems(Producers) /\ NoneTwice(Tail(Producers))
       /\ Elems(Tail(Producers)) = Elems(Producers) \ {Head(Producers)}
  BY <1>5, FirstLeaves
<1>11. Head(blocked).push \in Items /\ Head(blocked).item \in Items \cup {movedFrom}
  BY <1>2 DEF BlockedType
<1> QED
  BY <1>5, <1>9, <1>10, <1>11 DEF Blocked

\* A producer is blocked.
LEMMA ProducerJoins ==
    ASSUME QueueTypes, NoneTwice(Producers),
           NEW r \in BlockedType, r.push \notin Blocked,
           blocked' = Append(blocked, r)
    PROVE  Blocked' = Blocked \cup {r.push} /\ NoneTwice(Producers)'
<1>1. blocked \in Seq(BlockedType) /\ r \in BlockedType
  BY DEF QueueTypes
<1>2. r.push \in Items
  BY DEF BlockedType
<1>3. Len(blocked) \in Nat
  BY <1>1, LenProperties
<1>4. /\ Len(Append(blocked, r)) = Len(blocked) + 1
      /\ \A i \in 1 .. Len(blocked) : Append(blocked, r)[i] = blocked[i]
      /\ Append(blocked, r)[Len(blocked) + 1] = r
  BY <1>1, AppendProperties
<1>5. /\ Append(Producers, r.push) \in Seq(Items)
      /\ Len(Append(Producers, r.push)) = Len(blocked) + 1
      /\ \A i \in 1 .. Len(blocked) : Append(Producers, r.push)[i] = Producers[i]
      /\ Append(Producers, r.push)[Len(blocked) + 1] = r.push
  BY <1>2, ProducersTyped, AppendProperties
<1>6. Append(Producers, r.push) = [i \in 1 .. Len(blocked) + 1 |-> Append(Producers, r.push)[i]]
  BY <1>5
<1>7. \A i \in 1 .. Len(blocked) + 1 :
          Append(Producers, r.push)[i] = Append(blocked, r)[i].push
  <2>1. \A i \in 1 .. Len(blocked) + 1 : i \in 1 .. Len(blocked) \/ i = Len(blocked) + 1
    BY <1>3
  <2> QED
    BY <1>4, <1>5, <2>1, ProducersTyped
<1>8. Producers' = Append(Producers, r.push)
  BY <1>4, <1>6, <1>7 DEF Producers
<1> QED
  BY <1>2, <1>8, ProducersTyped, LastJoins DEF Blocked

\* The first pop that waits is taken out of the queue.
LEMMA AwaiterTaken ==
    ASSUME QueueInv, NEW t \in Threads, hand[t] = Nothing, awaiters # <<>>,
           awaiters' = Tail(awaiters), NEW o, TakeOut(t, Head(awaiters), o)
    PROVE  /\ Head(awaiters) \in Pops /\ Head(awaiters) \in Waiting
           /\ Waiting' = Waiting \ {Head(awaiters)} /\ NoneTwice(awaiters')
           /\ Held' = Held \cup {Head(awaiters)} /\ HandsOnce'
<1>1. awaiters \in Seq(Pops) /\ NoneTwice(awaiters) /\ QueueTypes /\ HandsOnce
  BY DEF QueueInv, QueueTypes, PopsOnce
<1>2. /\ Head(awaiters) \in Pops /\ Head(awaiters) \in Waiting
      /\ Waiting' = Waiting \ {Head(awaiters)} /\ NoneTwice(awaiters')
  BY <1>1, FirstLeaves DEF Waiting
<1>3. Head(awaiters) \notin Held
  BY <1>2 DEF QueueInv, PopsOnce
<1> QED
  BY <1>1, <1>2, <1>3, HandTakes

\* So is the first producer that is blocked.
LEMMA ProducerTaken ==
    ASSUME QueueInv, NEW t \in Threads, hand[t] = Nothing, blocked # <<>>,
           blocked' = Tail(blocked), NEW o, TakeOut(t, Head(blocked).push, o)
    PROVE  /\ Head(blocked).push \in Items /\ Head(blocked).push \in Blocked
           /\ Blocked' = Blocked \ {Head(blocked).push} /\ NoneTwice(Producers')
           /\ Held' = Held \cup {Head(blocked).push} /\ HandsOnce'
<1>1. NoneTwice(Producers) /\ QueueTypes /\ HandsOnce
  BY DEF QueueInv, PushesOnce
<1>2. /\ Head(blocked).push \in Items /\ Head(blocked).push \in Blocked
      /\ Blocked' = Blocked \ {Head(blocked).push} /\ NoneTwice(Producers')
  BY <1>1, ProducerLeaves
<1>3. Head(blocked).push \notin Held
  BY <1>2 DEF QueueInv, PushesOnce
<1> QED
  BY <1>1, <1>2, <1>3, HandTakes

\* Whoever waits in the two lists is a pop or a push, and no pop is a push.
LEMMA PopsAndItems ==
    ASSUME QueueTypes
    PROVE  /\ Waiting \subseteq Pops /\ Blocked \subseteq Items
          /\ Held \subseteq Pops \cup Items
           /\ Pops \cap Items = {}
<1>1. \A i \in 1 .. Len(awaiters) : awaiters[i] \in Pops
  BY LenProperties DEF QueueTypes
<1>2. \A i \in 1 .. Len(Producers) : Producers[i] \in Items
  BY ProducersTyped, LenProperties
<1> QED
  BY <1>1, <1>2, ItemsAssumption DEF Waiting, Blocked, Elems, Held

\* A promise goes from its queue into a hand, and from there to its future.
LEMMA PromisesStep == QueueInv /\ [QueueNext]_queueVars
      => PopsOnce' /\ PushesOnce' /\ HandsOnce'
<1> SUFFICES ASSUME QueueInv, [QueueNext]_queueVars
             PROVE  PopsOnce' /\ PushesOnce' /\ HandsOnce'
  OBVIOUS
<1> USE DEF QueueInv, QueueTypes, PopsOnce, PushesOnce
<1>1. ASSUME NEW t \in Threads, NEW v \in Items, PushToAwaiter(t, v)
     PROVE  PopsOnce' /\ PushesOnce' /\ HandsOnce'
  <2>1. Blocked' = Blocked /\ NoneTwice(Producers')
    BY <1>1 DEF PushToAwaiter, Blocked, Producers
  <2>2. Head(awaiters) \in Pops /\ Head(awaiters) \in Waiting
        /\ Waiting' = Waiting \ {Head(awaiters)} /\ NoneTwice(awaiters')
        /\ Held' = Held \cup {Head(awaiters)} /\ HandsOnce'
    BY <1>1, AwaiterTaken DEF PushToAwaiter, Idle
  <2>3. PopsOnce'
    BY <1>1, <2>1, <2>2, PopsAndItems DEF PushToAwaiter
  <2>4. PushesOnce'
    BY <1>1, <2>1, <2>2, PopsAndItems DEF PushToAwaiter
  <2> QED
    BY <2>1, <2>2, <2>3, <2>4
<1>2. ASSUME NEW t \in Threads, NEW v \in Items, PushToQueue(t, v)
     PROVE  PopsOnce' /\ PushesOnce' /\ HandsOnce'
  <2>1. Waiting' = Waiting /\ NoneTwice(awaiters')
    BY <1>2 DEF PushToQueue, Waiting
  <2>2. Blocked' = Blocked /\ NoneTwice(Producers')
    BY <1>2 DEF PushToQueue, Blocked, Producers
  <2>3. Held' = Held /\ HandsOnce'
    BY <1>2 DEF PushToQueue, Held, HandsOnce
  <2>4. PopsOnce'
    BY <1>2, <2>1, <2>2, <2>3, PopsAndItems DEF PushToQueue, Enqueue
  <2>5. PushesOnce'
    BY <1>2, <2>1, <2>2, <2>3, PopsAndItems DEF PushToQueue, Enqueue
  <2> QED
    BY <2>1, <2>2, <2>3, <2>4, <2>5
<1>3. ASSUME NEW t \in Threads, NEW v \in Items, PushBlocked(t, v)
     PROVE  PopsOnce' /\ PushesOnce' /\ HandsOnce'
  <2>1. Waiting' = Waiting /\ NoneTwice(awaiters')
    BY <1>3 DEF PushBlocked, Waiting
  <2>2. Held' = Held /\ HandsOnce'
    BY <1>3 DEF PushBlocked, Held, HandsOnce
  <2>3. v \notin Blocked /\ v \notin Held
    BY <1>3 DEF PushBlocked, Enqueue
  <2>4. PICK r \in BlockedType :
          r.push = v /\ blocked' = Append(blocked, r)
    BY <1>3 DEF PushBlocked, BlockedType
  <2>5. Blocked' = Blocked \cup {v} /\ NoneTwice(Producers')
    BY <2>3, <2>4, ProducerJoins
  <2>6. PopsOnce'
    BY <1>3, <2>1, <2>2, <2>3, <2>4, <2>5, PopsAndItems DEF PushBlocked
  <2>7. PushesOnce'
    BY <1>3, <2>1, <2>2, <2>3, <2>4, <2>5, PopsAndItems DEF PushBlocked
  <2> QED
    BY <2>1, <2>2, <2>3, <2>4, <2>5, <2>6, <2>7
<1>4. ASSUME NEW t \in Threads, NEW k \in Pops, PopWait(t, k)
     PROVE  PopsOnce' /\ PushesOnce' /\ HandsOnce'
  <2>1. Blocked' = Blocked /\ NoneTwice(Producers')
    BY <1>4 DEF PopWait, Blocked, Producers
  <2>2. Held' = Held /\ HandsOnce'
    BY <1>4 DEF PopWait, Held, HandsOnce
  <2>3. k \notin Waiting /\ k \notin Held
    BY <1>4 DEF PopWait
  <2>4. awaiters \in Seq(Pops) /\ awaiters' = Append(awaiters, k)
    BY <1>4 DEF PopWait, QueueTypes
  <2>5. Waiting' = Waiting \cup {k} /\ NoneTwice(awaiters')
    BY <2>3, <2>4, LastJoins DEF Waiting
  <2>6. PopsOnce'
    BY <1>4, <2>1, <2>2, <2>3, <2>4, <2>5, PopsAndItems DEF PopWait
  <2>7. PushesOnce'
    BY <1>4, <2>1, <2>2, <2>3, <2>4, <2>5, PopsAndItems DEF PopWait
  <2> QED
    BY <2>1, <2>2, <2>3, <2>4, <2>5, <2>6, <2>7
<1>5. ASSUME NEW t \in Threads, NEW k \in Pops, PopRefused(t, k)
     PROVE  PopsOnce' /\ PushesOnce' /\ HandsOnce'
  <2>1. Waiting' = Waiting /\ NoneTwice(awaiters')
    BY <1>5 DEF PopRefused, Waiting
  <2>2. Blocked' = Blocked /\ NoneTwice(Producers')
    BY <1>5 DEF PopRefused, Blocked, Producers
  <2>3. Held' = Held /\ HandsOnce'
    BY <1>5 DEF PopRefused, Held, HandsOnce
  <2>4. PopsOnce'
    BY <1>5, <2>1, <2>2, <2>3, PopsAndItems DEF PopRefused
  <2>5. PushesOnce'
    BY <1>5, <2>1, <2>2, <2>3, PopsAndItems DEF PopRefused
  <2> QED
    BY <2>1, <2>2, <2>3, <2>4, <2>5
<1>6. ASSUME NEW t \in Threads, NEW k \in Pops, PopItem(t, k)
     PROVE  PopsOnce' /\ PushesOnce' /\ HandsOnce'
  <2>1. Head(items) \in Items \cup {movedFrom}
    BY <1>6, HeadTailProperties DEF PopItem, QueueTypes
  <2>2. pops' = [pops EXCEPT ![k] = Head(items)] /\ pops[k] = "none" /\ pushes' = pushes
    BY <1>6 DEF PopItem
  <2>3. Head(items) # "pending"
    BY <2>1, ItemsAssumption
  <2>4. CASE blocked = <<>>
    <3>1. Waiting' = Waiting /\ NoneTwice(awaiters')
      BY <1>6, <2>4 DEF PopItem, Waiting
    <3>2. Blocked' = Blocked /\ NoneTwice(Producers')
      BY <1>6, <2>4 DEF PopItem, Blocked, Producers
    <3>3. Held' = Held /\ HandsOnce'
      BY <1>6, <2>4 DEF PopItem, Held, HandsOnce
    <3>4. PopsOnce'
      BY <1>6, <3>1, <3>2, <3>3, <2>2, <2>3, PopsAndItems DEF PopItem
    <3>5. PushesOnce'
      BY <1>6, <3>1, <3>2, <3>3, <2>2, <2>3, PopsAndItems DEF PopItem
    <3> QED
      BY <3>1, <3>2, <3>3, <3>4, <3>5
  <2>5. CASE blocked # <<>>
    <3>1. Waiting' = Waiting /\ NoneTwice(awaiters')
      BY <1>6 DEF PopItem, Waiting
    <3>2. Head(blocked).push \in Items /\ Head(blocked).push \in Blocked
          /\ Blocked' = Blocked \ {Head(blocked).push} /\ NoneTwice(Producers')
          /\ Held' = Held \cup {Head(blocked).push} /\ HandsOnce'
      BY <1>6, <2>5, ProducerTaken DEF PopItem, Idle
    <3>3. PopsOnce'
      BY <1>6, <3>1, <3>2, <2>2, <2>3, PopsAndItems DEF PopItem
    <3>4. PushesOnce'
      BY <1>6, <3>1, <3>2, <2>2, <2>3, PopsAndItems DEF PopItem
    <3> QED
      BY <3>1, <3>2, <3>3, <3>4
  <2> QED
    BY <2>4, <2>5
<1>7. ASSUME NEW t \in Threads, unblock_pop(t)
     PROVE  PopsOnce' /\ PushesOnce' /\ HandsOnce'
  <2>1. Blocked' = Blocked /\ NoneTwice(Producers')
    BY <1>7 DEF unblock_pop, Blocked, Producers
  <2>2. Head(awaiters) \in Pops /\ Head(awaiters) \in Waiting
        /\ Waiting' = Waiting \ {Head(awaiters)} /\ NoneTwice(awaiters')
        /\ Held' = Held \cup {Head(awaiters)} /\ HandsOnce'
    BY <1>7, AwaiterTaken DEF unblock_pop, Idle
  <2>3. PopsOnce'
    BY <1>7, <2>1, <2>2, PopsAndItems DEF unblock_pop
  <2>4. PushesOnce'
    BY <1>7, <2>1, <2>2, PopsAndItems DEF unblock_pop
  <2> QED
    BY <2>1, <2>2, <2>3, <2>4
<1>8. ASSUME NEW t \in Threads, unblock_push(t)
     PROVE  PopsOnce' /\ PushesOnce' /\ HandsOnce'
  <2>1. Waiting' = Waiting /\ NoneTwice(awaiters')
    BY <1>8 DEF unblock_push, Waiting
  <2>2. Head(blocked).push \in Items /\ Head(blocked).push \in Blocked
        /\ Blocked' = Blocked \ {Head(blocked).push} /\ NoneTwice(Producers')
        /\ Held' = Held \cup {Head(blocked).push} /\ HandsOnce'
    BY <1>8, ProducerTaken DEF unblock_push, Idle
  <2>3. PopsOnce'
    BY <1>8, <2>1, <2>2, PopsAndItems DEF unblock_push
  <2>4. PushesOnce'
    BY <1>8, <2>1, <2>2, PopsAndItems DEF unblock_push
  <2> QED
    BY <2>1, <2>2, <2>3, <2>4
<1>9. ASSUME NEW t \in Threads, Resolve(t)
     PROVE  PopsOnce' /\ PushesOnce' /\ HandsOnce'
  <2>1. Waiting' = Waiting /\ NoneTwice(awaiters')
    BY <1>9 DEF Resolve, Waiting
  <2>2. Blocked' = Blocked /\ NoneTwice(Producers')
    BY <1>9 DEF Resolve, Blocked, Producers
  <2>3. Held' = Held \ {hand[t].of} /\ HandsOnce' /\ hand[t].of \in Held
    BY <1>9, HandGives DEF Resolve
  <2>4. CASE hand[t].of \in Pops
    <3>1. hand[t].with # "pending"
      BY <2>4, HandIsTyped, ItemsAssumption
    <3>2. pops' = [pops EXCEPT ![hand[t].of] = hand[t].with] /\ pushes' = pushes
      BY <1>9, <2>4 DEF Resolve
    <3>3. PopsOnce'
      BY <2>1, <2>3, <2>4, <3>1, <3>2, PopsAndItems
    <3>4. PushesOnce'
      BY <2>2, <2>3, <2>4, <3>2, PopsAndItems
    <3> QED
      BY <2>3, <3>3, <3>4
  <2>5. CASE hand[t].of \in Items
    <3>1. hand[t].with # "pending"
      BY <2>5, HandIsTyped, ItemsAssumption
    <3>2. pushes' = [pushes EXCEPT ![hand[t].of] = hand[t].with] /\ pops' = pops
      BY <1>9, <2>5, PopsAndItems DEF Resolve
    <3>3. PopsOnce'
      BY <2>1, <2>3, <2>5, <3>2, PopsAndItems
    <3>4. PushesOnce'
      BY <2>2, <2>3, <2>5, <3>1, <3>2, PopsAndItems
    <3> QED
      BY <2>3, <3>3, <3>4
  <2> QED
    BY <2>3, <2>4, <2>5 DEF Held
<1>10. ASSUME Destroy
     PROVE  PopsOnce' /\ PushesOnce' /\ HandsOnce'
  <2>1. awaiters' = <<>> /\ blocked' = <<>> /\ hand' = hand
        /\ \A t \in Threads : hand[t] = Nothing
    BY <1>10 DEF Destroy, Idle
  <2>2. Held = {} /\ Held' = {} /\ HandsOnce'
    BY <2>1, ItemsAssumption DEF Held, HandsOnce, Nothing
  <2>3. Waiting' = {} /\ NoneTwice(awaiters')
    BY <2>1 DEF Waiting, Elems, NoneTwice
  <2>4. Blocked' = {} /\ NoneTwice(Producers')
    BY <2>1 DEF Blocked, Producers, Elems, NoneTwice
  <2>5. Waiting = Range(awaiters)
    BY LenProperties DEF Waiting, Elems, Range, QueueTypes
  <2>6. \A v \in Items : v \in Blocked <=> \E b \in Range(blocked) : b.push = v
    <3>1. Len(Producers) = Len(blocked)
          /\ \A i \in 1 .. Len(blocked) : Producers[i] = blocked[i].push
      BY ProducersTyped
    <3>2. DOMAIN blocked = 1 .. Len(blocked)
      BY LenProperties DEF QueueTypes
    <3>3. Range(blocked) = {blocked[i] : i \in 1 .. Len(blocked)}
      BY <3>2 DEF Range
    <3>4. \A v \in Items : v \in Blocked <=> \E i \in 1 .. Len(blocked) : v = Producers[i]
      BY <3>1 DEF Blocked, Elems
    <3>5. \A v \in Items : v \in Blocked <=> \E i \in 1 .. Len(blocked) : v = blocked[i].push
      BY ONLY <3>1, <3>4
    <3> QED
      BY <3>3, <3>5
  <2>7. PopsOnce'
    BY <1>10, <2>2, <2>3, <2>5 DEF Destroy
  <2>8. PushesOnce'
    BY <1>10, <2>2, <2>4, <2>6 DEF Destroy
  <2> QED
    BY <2>2, <2>7, <2>8
<1>11. CASE UNCHANGED queueVars
  <2>1. Waiting' = Waiting /\ NoneTwice(awaiters')
    BY <1>11 DEF queueVars, Waiting
  <2>2. Blocked' = Blocked /\ NoneTwice(Producers')
    BY <1>11 DEF queueVars, Blocked, Producers
  <2>3. Held' = Held /\ HandsOnce'
    BY <1>11 DEF queueVars, Held, HandsOnce
  <2>4. PopsOnce'
    BY <1>11, <2>1, <2>2, <2>3, PopsAndItems DEF queueVars
  <2>5. PushesOnce'
    BY <1>11, <2>1, <2>2, <2>3, PopsAndItems DEF queueVars
  <2> QED
    BY <2>1, <2>2, <2>3, <2>4, <2>5
<1> QED
  BY <1>1, <1>2, <1>3, <1>4, <1>5, <1>6, <1>7, <1>8, <1>9, <1>10, <1>11 DEF QueueNext

\* The types of the queue.
LEMMA QueueTypeStep == QueueTypes /\ [QueueNext]_queueVars => QueueTypes'
<1> SUFFICES ASSUME QueueTypes, [QueueNext]_queueVars
             PROVE  QueueTypes'
  OBVIOUS
<1> USE DEF QueueTypes
<1>1. ASSUME NEW t \in Threads, NEW v \in Items, PushToAwaiter(t, v)
     PROVE  QueueTypes'
  <2>1. awaiters' \in Seq(Pops) /\ Head(awaiters) \in Pops
    BY <1>1, HeadTailProperties DEF PushToAwaiter
  <2>2. hand' \in [Threads -> HandTypes]
    BY <1>1, <2>1 DEF PushToAwaiter, TakeOut, HandTypes
  <2> QED
    BY <1>1, <2>1, <2>2 DEF PushToAwaiter
<1>2. ASSUME NEW t \in Threads, NEW v \in Items, PushToQueue(t, v)
     PROVE  QueueTypes'
  <2>1. items' \in Seq(Items \cup {movedFrom})
    BY <1>2, AppendProperties DEF PushToQueue, Enqueue
  <2> QED
    BY <1>2, <2>1 DEF PushToQueue
<1>3. ASSUME NEW t \in Threads, NEW v \in Items, PushBlocked(t, v)
     PROVE  QueueTypes'
  <2>1. items' \in Seq(Items \cup {movedFrom})
    BY <1>3, AppendProperties DEF PushBlocked, Enqueue
  <2>2. PICK r \in BlockedType : blocked' = Append(blocked, r)
    BY <1>3 DEF PushBlocked, BlockedType
  <2>3. blocked' \in Seq(BlockedType)
    BY <2>2, AppendProperties
  <2> QED
    BY <1>3, <2>1, <2>3 DEF PushBlocked
<1>4. ASSUME NEW t \in Threads, NEW k \in Pops, PopWait(t, k)
     PROVE  QueueTypes'
  <2>1. awaiters' \in Seq(Pops)
    BY <1>4, AppendProperties DEF PopWait
  <2> QED
    BY <1>4, <2>1 DEF PopWait
<1>5. ASSUME NEW t \in Threads, NEW k \in Pops, PopRefused(t, k)
     PROVE  QueueTypes'
  BY <1>5 DEF PopRefused
<1>6. ASSUME NEW t \in Threads, NEW k \in Pops, PopItem(t, k)
     PROVE  QueueTypes'
  <2>1. Head(items) \in Items \cup {movedFrom} /\ Tail(items) \in Seq(Items \cup {movedFrom})
    BY <1>6, HeadTailProperties DEF PopItem
  <2>2. pops' \in [Pops -> Items \cup {movedFrom, "none", "pending", "refused", "exception",
                                     "canceled"}]
    BY <1>6, <2>1 DEF PopItem
  <2>3. Popped(items) = Tail(items)
    BY <1>6 DEF PopItem, Popped
  <2>4. CASE blocked = <<>>
    BY <1>6, <2>1, <2>2, <2>3, <2>4 DEF PopItem
  <2>5. CASE blocked # <<>>
    <3>1. Tail(blocked) \in Seq(BlockedType) /\ Head(blocked) \in BlockedType
      BY <2>5, HeadTailProperties
    <3>2. Head(blocked).push \in Items /\ Head(blocked).item \in Items \cup {movedFrom}
      BY <3>1 DEF BlockedType
    <3>3. items' \in Seq(Items \cup {movedFrom})
      <4>1. Append(Tail(items), Head(blocked).item) \in Seq(Items \cup {movedFrom})
        BY <2>1, <3>2, AppendProperties
      <4> QED
        BY <1>6, <2>3, <2>5, <4>1 DEF PopItem
    <3>4. hand' \in [Threads -> HandTypes]
      BY <1>6, <2>5, <3>2 DEF PopItem, TakeOut, HandTypes
    <3>5. blocked' \in Seq(BlockedType)
      BY <1>6, <2>5, <3>1 DEF PopItem
    <3> QED
      BY <1>6, <2>2, <3>3, <3>4, <3>5 DEF PopItem
  <2> QED
    BY <2>4, <2>5
<1>7. ASSUME NEW t \in Threads, unblock_pop(t)
     PROVE  QueueTypes'
  <2>1. awaiters' \in Seq(Pops) /\ Head(awaiters) \in Pops
    BY <1>7, HeadTailProperties DEF unblock_pop
  <2>2. hand' \in [Threads -> HandTypes]
    BY <1>7, <2>1 DEF unblock_pop, TakeOut, HandTypes
  <2> QED
    BY <1>7, <2>1, <2>2 DEF unblock_pop
<1>8. ASSUME NEW t \in Threads, unblock_push(t)
     PROVE  QueueTypes'
  <2>1. blocked' \in Seq(BlockedType) /\ Head(blocked) \in BlockedType
    BY <1>8, HeadTailProperties DEF unblock_push
  <2>2. hand' \in [Threads -> HandTypes]
    BY <1>8, <2>1 DEF unblock_push, TakeOut, HandTypes, BlockedType
  <2> QED
    BY <1>8, <2>1, <2>2 DEF unblock_push
<1>9. ASSUME NEW t \in Threads, Resolve(t)
     PROVE  QueueTypes'
  <2>1. hand' \in [Threads -> HandTypes]
    BY <1>9 DEF Resolve, HandTypes
  <2>2. pops' \in [Pops -> Items \cup {movedFrom, "none", "pending", "refused", "exception",
                                     "canceled"}]
    BY <1>9, HandIsTyped, PopsAndItems DEF Resolve
  <2>3. pushes' \in [Items -> {"none", "pending", "done", "exception", "canceled"}]
    BY <1>9, HandIsTyped, PopsAndItems DEF Resolve
  <2> QED
    BY <1>9, <2>1, <2>2, <2>3 DEF Resolve
<1>10. ASSUME Destroy
     PROVE  QueueTypes'
  <2>1. /\ <<>> \in Seq(Pops) /\ <<>> \in Seq(Items \cup {movedFrom})
        /\ <<>> \in Seq(BlockedType)
    BY EmptySeq
  <2> QED
    BY <1>10, <2>1 DEF Destroy
<1>11. CASE UNCHANGED queueVars
  BY <1>11 DEF queueVars
<1> QED
  BY <1>1, <1>2, <1>3, <1>4, <1>5, <1>6, <1>7, <1>8, <1>9, <1>10, <1>11 DEF QueueNext

\* What the first blocked producer brings is an item, or was moved from.
LEMMA ProducerItem ==
    ASSUME QueueTypes, blocked # <<>>
    PROVE  Head(blocked).item \in Items \cup {movedFrom}
<1>1. Head(blocked) \in BlockedType
  BY HeadTailProperties DEF QueueTypes
<1> QED
  BY <1>1 DEF BlockedType

\* Items and those who wait are not together, nor blocked producers and room.
LEMMA VainStep == QueueInv /\ [QueueNext]_queueVars => NobodyWaitsInVain'
<1> SUFFICES ASSUME QueueInv, [QueueNext]_queueVars
             PROVE  NobodyWaitsInVain'
  OBVIOUS
<1> USE DEF QueueInv, QueueTypes, NobodyWaitsInVain, Full, Limited, Unlimited
<1>1. ASSUME NEW t \in Threads, NEW v \in Items, PushToAwaiter(t, v)
     PROVE  NobodyWaitsInVain'
  BY <1>1 DEF PushToAwaiter
<1>2. ASSUME NEW t \in Threads, NEW v \in Items, PushToQueue(t, v)
     PROVE  NobodyWaitsInVain'
  <2>1. Len(items') = Len(items) + 1 /\ Len(items) \in Nat /\ awaiters = <<>>
        /\ blocked' = blocked
    BY <1>2, AppendProperties, LenProperties DEF PushToQueue, Enqueue
  <2>2. limit' = limit /\ awaiters' = awaiters /\ ~Full(items')
    BY <1>2 DEF PushToQueue
  <2>3. blocked = <<>>
    BY <2>1, <2>2
  <2> QED
    BY <2>1, <2>2, <2>3
<1>3. ASSUME NEW t \in Threads, NEW v \in Items, PushBlocked(t, v)
     PROVE  NobodyWaitsInVain'
  <2>1. awaiters' = <<>> /\ limit' = limit /\ Full(items')
    BY <1>3 DEF PushBlocked, Enqueue
  <2> QED
    BY <2>1
<1>4. ASSUME NEW t \in Threads, NEW k \in Pops, PopWait(t, k)
     PROVE  NobodyWaitsInVain'
  BY <1>4 DEF PopWait
<1>5. ASSUME NEW t \in Threads, NEW k \in Pops, PopRefused(t, k)
     PROVE  NobodyWaitsInVain'
  BY <1>5 DEF PopRefused
<1>6. ASSUME NEW t \in Threads, NEW k \in Pops, PopItem(t, k)
     PROVE  NobodyWaitsInVain'
  <2>1. awaiters' = awaiters /\ awaiters = <<>> /\ limit' = limit
    BY <1>6 DEF PopItem
  <2>2. CASE blocked = <<>>
    BY <1>6, <2>1, <2>2 DEF PopItem
  <2>3. CASE blocked # <<>>
    <3>1. Tail(items) \in Seq(Items \cup {movedFrom}) /\ Len(Tail(items)) = Len(items) - 1
      BY <1>6, HeadTailProperties DEF PopItem
    <3>2. Head(blocked).item \in Items \cup {movedFrom}
      BY <2>3, ProducerItem
    <3>3. items' = Append(Tail(items), Head(blocked).item)
      BY <1>6, <2>3 DEF PopItem, Popped
    <3>4. Len(items') = Len(items)
      BY <3>1, <3>2, <3>3, AppendProperties, LenProperties
    <3> QED
      BY <2>1, <2>3, <3>4
  <2> QED
    BY <2>2, <2>3
<1>7. ASSUME NEW t \in Threads, unblock_pop(t)
     PROVE  NobodyWaitsInVain'
  BY <1>7 DEF unblock_pop
<1>8. ASSUME NEW t \in Threads, unblock_push(t)
     PROVE  NobodyWaitsInVain'
  BY <1>8 DEF unblock_push
<1>9. ASSUME NEW t \in Threads, Resolve(t)
     PROVE  NobodyWaitsInVain'
  BY <1>9 DEF Resolve
<1>10. ASSUME Destroy
     PROVE  NobodyWaitsInVain'
  BY <1>10 DEF Destroy
<1>11. CASE UNCHANGED queueVars
  BY <1>11 DEF queueVars
<1> QED
  BY <1>1, <1>2, <1>3, <1>4, <1>5, <1>6, <1>7, <1>8, <1>9, <1>10, <1>11 DEF QueueNext

\* In one place means: in one place of one queue, or in one hand.
LEMMA InvariantSuffices == QueueInv => PromisesKept
<1> SUFFICES ASSUME QueueInv
             PROVE  OnePromise
  BY DEF QueueInv, PromisesKept
<1> DEFINE Places(x, queue) ==
               {<<"queue", i>> : i \in {i \in DOMAIN queue : queue[i] = x}}
               \cup {<<"hand", t>> : t \in {t \in Threads : hand[t].of = x}}
           Once(x, queue) == \E p \in Places(x, queue) : Places(x, queue) = {p}
<1>1. ASSUME NEW S, NEW queue \in Seq(S), NoneTwice(queue), Elems(queue) \cap Held = {},
             NEW x \in Pops \cup Items
      PROVE  IF x \in Elems(queue) \cup Held THEN Once(x, queue) ELSE Places(x, queue) = {}
  <2>1. DOMAIN queue = 1 .. Len(queue)
    BY LenProperties
  <2>2. ASSUME x \in Elems(queue)
        PROVE  Once(x, queue)
    <3>1. PICK i \in DOMAIN queue : queue[i] = x
      BY <2>1, <2>2 DEF Elems
    <3>2. {j \in DOMAIN queue : queue[j] = x} = {i}
      BY <1>1, <2>1, <3>1 DEF NoneTwice
    <3>3. {t \in Threads : hand[t].of = x} = {}
      BY <2>2, <1>1 DEF Held
    <3>4. Places(x, queue) = {<<"queue", i>>}
      BY <3>2, <3>3
    <3> QED
      BY <3>4
  <2>3. ASSUME x \in Held
        PROVE  Once(x, queue)
    <3>1. PICK t \in Threads : hand[t].of = x
      BY <2>3 DEF Held
    <3>2. {u \in Threads : hand[u].of = x} = {t}
      <4>1. hand[t] # Nothing
        BY <3>1, ItemsAssumption DEF Nothing
      <4> QED
        BY <3>1, <4>1 DEF QueueInv, HandsOnce
    <3>3. {j \in DOMAIN queue : queue[j] = x} = {}
      BY <2>1, <2>3, <1>1 DEF Elems
    <3>4. Places(x, queue) = {<<"hand", t>>}
      BY <3>2, <3>3
    <3> QED
      BY <3>4
  <2>4. ASSUME x \notin Elems(queue), x \notin Held
        PROVE  Places(x, queue) = {}
    <3>1. {j \in DOMAIN queue : queue[j] = x} = {}
      BY <2>1, <2>4 DEF Elems
    <3>2. {t \in Threads : hand[t].of = x} = {}
      BY <2>4 DEF Held
    <3> QED
      BY <3>1, <3>2
  <2> QED
    BY <2>2, <2>3, <2>4
<1> HIDE DEF Places, Once
<1>2. QueueTypes
  BY DEF QueueInv
<1>3. \A k \in Pops : IF pops[k] = "pending" THEN Once(k, awaiters) ELSE Places(k, awaiters) = {}
  <2>1. awaiters \in Seq(Pops) /\ NoneTwice(awaiters) /\ Elems(awaiters) \cap Held = {}
    BY DEF QueueInv, QueueTypes, PopsOnce, Waiting
  <2>2. \A k \in Pops : pops[k] = "pending" <=> k \in Elems(awaiters) \cup Held
    BY DEF QueueInv, PopsOnce, Waiting
  <2> QED
    BY <1>1, <2>1, <2>2
<1>4. \A v \in Items : IF pushes[v] = "pending" THEN Once(v, Producers) ELSE Places(v,
      Producers) = {}
  <2>1. Producers \in Seq(Items) /\ NoneTwice(Producers) /\ Elems(Producers) \cap Held = {}
    BY <1>2, ProducersTyped DEF QueueInv, PushesOnce, Blocked
  <2>2. \A v \in Items : pushes[v] = "pending" <=> v \in Elems(Producers) \cup Held
    BY DEF QueueInv, PushesOnce, Blocked
  <2> QED
    BY <1>1, <2>1, <2>2
<1>5. DOMAIN blocked = 1 .. Len(blocked)
  BY LenProperties DEF QueueInv, QueueTypes
<1>6. Producers = [i \in DOMAIN blocked |-> blocked[i].push]
  BY <1>5 DEF Producers
<1>7. \A v \in Items :
          IF pushes[v] = "pending" THEN Once(v, [i \in DOMAIN blocked |-> blocked[i].push])
          ELSE Places(v, [i \in DOMAIN blocked |-> blocked[i].push]) = {}
  BY <1>4, <1>6
<1> QED
  BY <1>3, <1>7, Zenon DEF OnePromise, Places, Once

\* At first the queue is empty and nobody waits.
LEMMA QueueStart == QueueInit => QueueInv
<1> SUFFICES ASSUME QueueInit
             PROVE  QueueInv
  OBVIOUS
<1> USE ItemsAssumption, LimitsAssumption DEF QueueInit
<1>1. limit \in Nat
  BY DEF Unlimited
<1>2. QueueTypes
  BY <1>1, EmptySeq DEF QueueTypes, HandTypes
<1>3. Held = {} /\ HandsOnce
  BY DEF Held, HandsOnce, Nothing
<1>4. Waiting = {} /\ NoneTwice(awaiters)
  BY DEF Waiting, Elems, NoneTwice
<1>5. Blocked = {} /\ NoneTwice(Producers)
  BY DEF Blocked, Producers, Elems, NoneTwice
<1>6. NobodyWaitsInVain
  BY DEF NobodyWaitsInVain
<1> QED
  BY <1>2, <1>3, <1>4, <1>5, <1>6 DEF QueueInv, PopsOnce, PushesOnce

\* For any number of items, pops, threads and any limit: no item is left behind that somebody
\* waits for, no producer is blocked while there is room, and every future that is pending
\* has one promise, in a queue or in the hand of one thread.
THEOREM PromisesAreKept == QueueSpec => []PromisesKept
<1>1. QueueInv /\ [QueueNext]_queueVars => QueueInv'
  BY QueueTypeStep, PromisesStep, VainStep DEF QueueInv
<1> QED
  BY QueueStart, <1>1, InvariantSuffices, PTL DEF QueueSpec

-----------------------------------------------------------------------------
(* Queues: what is served, in its order *)

\* What the future of a pop may hold.
Values == Items \cup {movedFrom, "none", "pending", "refused", "exception", "canceled"}

\* What a pop is given, for hands H and futures P ...
AnswerFrom(H, P, k) ==
    IF \E t \in Threads : H[t].of = k THEN H[CHOOSE t \in Threads : H[t].of = k].with ELSE P[k]

\* ... before and after a step.
LEMMA AnswerIsFrom ==
    ASSUME NEW k
    PROVE  AnswerOf(k) = AnswerFrom(hand, pops, k) /\ AnswerOf(k)' = AnswerFrom(hand', pops', k)
BY DEF AnswerOf, AnswerFrom

\* What a pop is given is with its promise ...
LEMMA WithPromise ==
    ASSUME NEW H \in [Threads -> HandTypes], NEW P, NEW k \in Pops, NEW t \in Threads, H[t].of = k,
           \A r, u \in Threads : H[r].of = H[u].of /\ H[r] # Nothing => r = u
    PROVE  AnswerFrom(H, P, k) = H[t].with /\ H[t].with \in Values
<1>1. \/ H[t] = Nothing
      \/ H[t] \in [of : Pops, with : Items \cup {"exception"}]
      \/ H[t] \in [of : Items, with : {"done", "exception"}]
  BY DEF HandTypes
<1>2. H[t] # Nothing /\ H[t].with \in Values
  BY <1>1, ItemsAssumption DEF Nothing, Values
<1>3. \A u \in Threads : H[u].of = k => u = t
  BY <1>2
<1> DEFINE w == CHOOSE u \in Threads : H[u].of = k
<1>4. w = t
  BY <1>3
<1>5. AnswerFrom(H, P, k) = H[w].with
  BY DEF AnswerFrom
<1> QED
  BY <1>2, <1>4, <1>5

\* ... or in its future.
LEMMA InFuture ==
    ASSUME NEW H, NEW P, NEW k \in Pops, \A t \in Threads : H[t].of # k
    PROVE  AnswerFrom(H, P, k) = P[k]
BY DEF AnswerFrom

\* Both, and it is a value.
LEMMA AnswersNow ==
    ASSUME QueueTypes, HandsOnce, NEW k \in Pops
    PROVE  /\ AnswerOf(k) \in Values
           /\ (k \notin Held => AnswerOf(k) = pops[k])
           /\ \A t \in Threads : hand[t].of = k => AnswerOf(k) = hand[t].with
<1>1. /\ hand \in [Threads -> HandTypes] /\ pops[k] \in Values
      /\ \A r, u \in Threads : hand[r].of = hand[u].of /\ hand[r] # Nothing => r = u
  <2>1. hand \in [Threads -> HandTypes] /\ pops[k] \in Values
    BY DEF QueueTypes, Values
  <2> QED
    BY <2>1 DEF HandsOnce
<1>2. ASSUME NEW t \in Threads, hand[t].of = k
      PROVE  AnswerOf(k) = hand[t].with /\ hand[t].with \in Values
  BY <1>1, <1>2, WithPromise, AnswerIsFrom
<1>3. ASSUME k \notin Held
      PROVE  AnswerOf(k) = pops[k] /\ pops[k] \in Values
  BY <1>1, <1>3, InFuture, AnswerIsFrom DEF Held
<1> QED
  BY <1>2, <1>3 DEF Held

\* The same after a step.
LEMMA AnswersAfter ==
    ASSUME QueueTypes', HandsOnce', NEW k \in Pops
    PROVE  /\ AnswerOf(k)' \in Values
           /\ (k \notin Held' => AnswerOf(k)' = pops'[k])
           /\ \A t \in Threads : hand'[t].of = k => AnswerOf(k)' = hand'[t].with
<1>1. /\ hand' \in [Threads -> HandTypes] /\ pops'[k] \in Values
      /\ \A r, u \in Threads : hand'[r].of = hand'[u].of /\ hand'[r] # Nothing => r = u
  BY DEF QueueTypes, HandsOnce, Values
<1>2. ASSUME NEW t \in Threads, hand'[t].of = k
      PROVE  AnswerOf(k)' = hand'[t].with /\ hand'[t].with \in Values
  BY <1>1, <1>2, WithPromise, AnswerIsFrom
<1>3. ASSUME k \notin Held'
      PROVE  AnswerOf(k)' = pops'[k] /\ pops'[k] \in Values
  BY <1>1, <1>3, InFuture, AnswerIsFrom DEF Held
<1> QED
  BY <1>2, <1>3 DEF Held

\* A thread takes the promise x: nobody else is answered otherwise.
LEMMA TakenAnswers ==
    ASSUME QueueTypes, HandsOnce, QueueTypes', HandsOnce', NEW t \in Threads, hand[t] = Nothing,
           NEW x \in Pops \cup Items, NEW o, TakeOut(t, x, o), NEW k \in Pops
    PROVE  /\ k = x => AnswerOf(k)' = o
           /\ k # x /\ (k \notin Held => pops'[k] = pops[k]) => AnswerOf(k)' = AnswerOf(k)
<1>1. hand'[t] = [of |-> x, with |-> o] /\ \A u \in Threads : u # t => hand'[u] = hand[u]
  BY DEF TakeOut, QueueTypes
<1>2. k = x => AnswerOf(k)' = o
  <2>1. hand'[t].of = x /\ hand'[t].with = o
    BY <1>1
  <2> QED
    BY <2>1, AnswersAfter
<1>3. ASSUME k # x, k \notin Held => pops'[k] = pops[k]
      PROVE  AnswerOf(k)' = AnswerOf(k)
  <2>1. hand[t].of # k /\ hand'[t].of # k
    BY <1>1, <1>3, ItemsAssumption DEF Nothing
  <2>2. CASE k \in Held
    <3>1. PICK u \in Threads : hand[u].of = k
      BY <2>2 DEF Held
    <3>2. hand'[u] = hand[u]
      BY <1>1, <2>1, <3>1
    <3> QED
      BY <3>1, <3>2, AnswersNow, AnswersAfter
  <2>3. CASE k \notin Held
    <3>1. k \notin Held'
      BY <1>1, <2>1, <2>3 DEF Held
    <3> QED
      BY <1>3, <2>3, <3>1, AnswersNow, AnswersAfter
  <2> QED
    BY <2>2, <2>3
<1> QED
  BY <1>2, <1>3

\* Nobody takes one.
LEMMA OtherAnswers ==
    ASSUME QueueTypes, HandsOnce, QueueTypes', HandsOnce', hand' = hand, NEW k \in Pops,
           k \notin Held => pops'[k] = pops[k]
    PROVE  AnswerOf(k)' = AnswerOf(k)
<1>1. Held' = Held
  BY DEF Held
<1>2. CASE k \in Held
  <2>1. PICK u \in Threads : hand[u].of = k
    BY <1>2 DEF Held
  <2> QED
    BY <2>1, AnswersNow, AnswersAfter
<1>3. CASE k \notin Held
  BY <1>1, <1>3, AnswersNow, AnswersAfter
<1> QED
  BY <1>2, <1>3

\* A promise is resolved: the answer stays.
LEMMA ResolvedAnswers ==
    ASSUME QueueTypes, HandsOnce, QueueTypes', HandsOnce', NEW t \in Threads, Resolve(t),
           NEW k \in Pops
    PROVE  AnswerOf(k)' = AnswerOf(k)
<1>1. hand'[t] = Nothing /\ \A u \in Threads : u # t => hand'[u] = hand[u]
  BY DEF Resolve, QueueTypes
<1>2. hand'[t].of # k
  BY <1>1, ItemsAssumption DEF Nothing
<1>3. CASE hand[t].of = k
  <2>1. \A u \in Threads : u # t => hand[u].of # k
    BY <1>3 DEF HandsOnce, Resolve
  <2>2. k \notin Held'
    BY <1>1, <1>2, <2>1 DEF Held
  <2>3. pops'[k] = hand[t].with
    BY <1>3 DEF Resolve, QueueTypes
  <2> QED
    BY <1>3, <2>2, <2>3, AnswersNow, AnswersAfter
<1>4. CASE hand[t].of # k
  <2>1. pops'[k] = pops[k]
    BY <1>4 DEF Resolve, QueueTypes
  <2>2. CASE k \in Held
    <3>1. PICK u \in Threads : hand[u].of = k
      BY <2>2 DEF Held
    <3>2. hand'[u] = hand[u]
      BY <1>1, <1>4, <3>1
    <3> QED
      BY <3>1, <3>2, AnswersNow, AnswersAfter
  <2>3. CASE k \notin Held
    <3>1. k \notin Held'
      BY <1>1, <1>2, <2>3 DEF Held
    <3> QED
      BY <2>1, <2>3, <3>1, AnswersNow, AnswersAfter
  <2> QED
    BY <2>2, <2>3
<1> QED
  BY <1>3, <1>4

-----------------------------------------------------------------------------
(* Queues: order *)

\* The items of s are those of p, and come for the first time in the order of p.
Ordered(s, p) ==
    /\ NoneTwice(p)
    /\ \A x \in Items : x \in Elems(s) <=> x \in Elems(p)
    /\ \A i, j \in 1 .. Len(p) : i < j =>
           \E a \in 1 .. Len(s) : s[a] = p[i] /\ \A b \in 1 .. a : s[b] # p[j]

\* What comes again, or is no item, changes nothing.
LEMMA OrderedStill ==
    ASSUME NEW s \in Seq(Values), NEW p \in Seq(Items), Ordered(s, p),
           NEW x \in Values, x \notin Items \/ x \in Elems(p)
    PROVE  Ordered(Append(s, x), p)
<1> DEFINE r == Append(s, x)
<1>1. /\ r \in Seq(Values) /\ Len(r) = Len(s) + 1 /\ Len(s) \in Nat
      /\ \A i \in 1 .. Len(s) : r[i] = s[i]
      /\ r[Len(s) + 1] = x
  BY AppendProperties
<1> HIDE DEF r
<1>2. Elems(r) = Elems(s) \cup {x}
  <2>1. \A i \in 1 .. Len(r) : i \in 1 .. Len(s) \/ i = Len(s) + 1
    BY <1>1
  <2>2. \A i \in 1 .. Len(s) : i \in 1 .. Len(r)
    BY <1>1
  <2>3. Len(s) + 1 \in 1 .. Len(r)
    BY <1>1
  <2> QED
    BY <1>1, <2>1, <2>2, <2>3 DEF Elems
<1>3. ASSUME NEW i \in 1 .. Len(p), NEW j \in 1 .. Len(p), i < j
      PROVE  \E a \in 1 .. Len(r) : r[a] = p[i] /\ \A b \in 1 .. a : r[b] # p[j]
  <2>1. PICK a \in 1 .. Len(s) : s[a] = p[i] /\ \A b \in 1 .. a : s[b] # p[j]
    BY <1>3 DEF Ordered
  <2>2. a \in 1 .. Len(r) /\ \A b \in 1 .. a : b \in 1 .. Len(s)
    BY <1>1
  <2> QED
    BY <1>1, <2>1, <2>2
<1> QED
  BY <1>2, <1>3 DEF Ordered, r

\* A new item comes last.
LEMMA OrderedMore ==
    ASSUME NEW s \in Seq(Values), NEW p \in Seq(Items), Ordered(s, p),
           NEW v \in Items, v \notin Elems(p)
    PROVE  Ordered(Append(s, v), Append(p, v))
<1> DEFINE r == Append(s, v)
           q == Append(p, v)
<1>1. /\ r \in Seq(Values) /\ Len(r) = Len(s) + 1 /\ Len(s) \in Nat
      /\ \A i \in 1 .. Len(s) : r[i] = s[i]
      /\ r[Len(s) + 1] = v
  BY AppendProperties DEF Values
<1>2. /\ q \in Seq(Items) /\ Len(q) = Len(p) + 1 /\ Len(p) \in Nat
      /\ \A i \in 1 .. Len(p) : q[i] = p[i]
      /\ q[Len(p) + 1] = v
  BY AppendProperties
<1>3. NoneTwice(q) /\ Elems(q) = Elems(p) \cup {v}
  BY LastJoins DEF Ordered
<1> HIDE DEF r, q
<1>4. Elems(r) = Elems(s) \cup {v}
  <2>1. \A i \in 1 .. Len(r) : i \in 1 .. Len(s) \/ i = Len(s) + 1
    BY <1>1
  <2>2. \A i \in 1 .. Len(s) : i \in 1 .. Len(r)
    BY <1>1
  <2>3. Len(s) + 1 \in 1 .. Len(r)
    BY <1>1
  <2> QED
    BY <1>1, <2>1, <2>2, <2>3 DEF Elems
<1>5. ASSUME NEW i \in 1 .. Len(q), NEW j \in 1 .. Len(q), i < j
      PROVE  \E a \in 1 .. Len(r) : r[a] = q[i] /\ \A b \in 1 .. a : r[b] # q[j]
  <2>0. i \in 1 .. Len(p) /\ q[i] = p[i]
    BY <1>2, <1>5
  <2>1. CASE j \in 1 .. Len(p)
    <3>1. PICK a \in 1 .. Len(s) : s[a] = p[i] /\ \A b \in 1 .. a : s[b] # p[j]
      BY <1>5, <2>0, <2>1 DEF Ordered
    <3>2. a \in 1 .. Len(r) /\ \A b \in 1 .. a : b \in 1 .. Len(s)
      BY <1>1
    <3> QED
      BY <1>1, <1>2, <2>0, <2>1, <3>1, <3>2
  <2>2. CASE j = Len(p) + 1
    <3>1. p[i] \in Items /\ p[i] \in Elems(p)
      BY <2>0 DEF Elems
    <3>2. PICK a \in 1 .. Len(s) : s[a] = p[i]
      <4>1. p[i] \in Elems(s)
        BY <3>1 DEF Ordered
      <4> QED
        BY <4>1 DEF Elems
    <3>3. v \notin Elems(s)
      BY DEF Ordered
    <3>4. a \in 1 .. Len(r) /\ \A b \in 1 .. a : b \in 1 .. Len(s) /\ s[b] # v
      BY <1>1, <3>3 DEF Elems
    <3> QED
      BY <1>1, <1>2, <2>0, <2>2, <3>2, <3>4
  <2> QED
    BY <1>2, <2>1, <2>2
<1> QED
  BY <1>3, <1>4, <1>5 DEF Ordered, r, q

\* What the first n pops of A got, and then what is queued.
DeliveredOf(n, A, ks, q) == [i \in 1 .. n + Len(q) |-> IF i <= n THEN A[ks[i]] ELSE q[i - n]]

\* s has these elements.
IsDelivered(s, n, A, ks, q) ==
    /\ Len(s) = n + Len(q)
    /\ \A i \in 1 .. n : s[i] = A[ks[i]]
    /\ \A j \in 1 .. Len(q) : s[n + j] = q[j]

\* What each pop is given, how many were answered, and what was delivered to them and is queued.
Given == [k \in Pops |-> AnswerOf(k)]
Answered == Len(asked) - Len(awaiters)
Delivered == DeliveredOf(Answered, Given, asked, items)

\* What is delivered has them ...
LEMMA DeliveredIs ==
    ASSUME NEW n \in Nat, NEW A \in [Pops -> Values], NEW ks \in Seq(Pops), n <= Len(ks),
           NEW q \in Seq(Values)
    PROVE  /\ DeliveredOf(n, A, ks, q) \in Seq(Values)
           /\ IsDelivered(DeliveredOf(n, A, ks, q), n, A, ks, q)
<1> DEFINE d == DeliveredOf(n, A, ks, q)
<1>1. Len(q) \in Nat /\ n + Len(q) \in Nat
  BY LenProperties
<1>2. \A i \in 1 .. n + Len(q) : (IF i <= n THEN A[ks[i]] ELSE q[i - n]) \in Values
  <2>1. ASSUME NEW i \in 1 .. n + Len(q)
        PROVE  (IF i <= n THEN A[ks[i]] ELSE q[i - n]) \in Values
    <3>1. CASE i <= n
      <4>1. i \in 1 .. Len(ks)
        BY <3>1
      <4> QED
        BY <3>1, <4>1
    <3>2. CASE ~(i <= n)
      <4>1. i - n \in 1 .. Len(q)
        BY <1>1, <3>2
      <4> QED
        BY <3>2, <4>1
    <3> QED
      BY <3>1, <3>2
  <2> QED
    BY <2>1
<1>3. d \in Seq(Values) /\ Len(d) = n + Len(q)
  BY <1>1, <1>2 DEF DeliveredOf
<1>4. ASSUME NEW i \in 1 .. n
      PROVE  d[i] = A[ks[i]]
  <2>1. i \in 1 .. n + Len(q) /\ i <= n
    BY <1>1
  <2> QED
    BY <2>1 DEF DeliveredOf
<1>5. ASSUME NEW j \in 1 .. Len(q)
      PROVE  d[n + j] = q[j]
  <2>1. n + j \in 1 .. n + Len(q) /\ ~(n + j <= n) /\ (n + j) - n = j
    BY <1>1
  <2> QED
    BY <2>1 DEF DeliveredOf
<1> QED
  BY <1>3, <1>4, <1>5 DEF IsDelivered

\* ... and nothing else has.
LEMMA DeliveredOnly ==
    ASSUME NEW n \in Nat, NEW A \in [Pops -> Values], NEW ks \in Seq(Pops), n <= Len(ks),
           NEW q \in Seq(Values), NEW s \in Seq(Values), IsDelivered(s, n, A, ks, q)
    PROVE  DeliveredOf(n, A, ks, q) = s
<1> DEFINE d == DeliveredOf(n, A, ks, q)
<1>1. /\ d \in Seq(Values) /\ Len(d) = n + Len(q)
      /\ \A i \in 1 .. n : d[i] = A[ks[i]]
      /\ \A j \in 1 .. Len(q) : d[n + j] = q[j]
  BY DeliveredIs DEF IsDelivered
<1>s. /\ Len(s) = n + Len(q)
      /\ \A i \in 1 .. n : s[i] = A[ks[i]]
      /\ \A j \in 1 .. Len(q) : s[n + j] = q[j]
  BY DEF IsDelivered
<1> HIDE DEF d
<1>2. ASSUME NEW i \in 1 .. Len(d)
      PROVE  d[i] = s[i]
  <2>1. CASE i <= n
    <3>1. i \in 1 .. n
      BY <2>1
    <3> QED
      BY <1>1, <1>s, <3>1
  <2>2. CASE ~(i <= n)
    <3>1. i - n \in 1 .. Len(q) /\ n + (i - n) = i
      BY <1>1, <2>2, LenProperties
    <3>2. d[n + (i - n)] = q[i - n] /\ s[n + (i - n)] = q[i - n]
      BY <1>1, <1>s, <3>1
    <3> QED
      BY <3>1, <3>2
  <2> QED
    BY <2>1, <2>2
<1>3. d = s
  BY <1>1, <1>s, <1>2, SeqEqual
<1> QED
  BY <1>3 DEF d

\* Something is queued.
LEMMA DeliversQueued ==
    ASSUME NEW n \in Nat, NEW A \in [Pops -> Values], NEW ks \in Seq(Pops), n <= Len(ks),
           NEW q \in Seq(Values), NEW x \in Values
    PROVE  DeliveredOf(n, A, ks, Append(q, x)) = Append(DeliveredOf(n, A, ks, q), x)
<1> DEFINE d == DeliveredOf(n, A, ks, q)
           r == Append(q, x)
           s == Append(d, x)
<1>1. /\ d \in Seq(Values) /\ Len(d) = n + Len(q) /\ Len(q) \in Nat
      /\ \A i \in 1 .. n : d[i] = A[ks[i]]
      /\ \A j \in 1 .. Len(q) : d[n + j] = q[j]
  BY DeliveredIs, LenProperties DEF IsDelivered
<1> HIDE DEF d
<1>2. /\ r \in Seq(Values) /\ Len(r) = Len(q) + 1 /\ r[Len(q) + 1] = x
      /\ \A i \in 1 .. Len(q) : r[i] = q[i]
  BY AppendProperties
<1>3. /\ s \in Seq(Values) /\ Len(s) = Len(d) + 1 /\ s[Len(d) + 1] = x
      /\ \A i \in 1 .. Len(d) : s[i] = d[i]
  <2>1. d \in Seq(Values)
    BY <1>1
  <2> QED
    BY ONLY <2>1, x \in Values, AppendProperties
<1> HIDE DEF r, s
<1>4. ASSUME NEW i \in 1 .. n
      PROVE  s[i] = A[ks[i]]
  <2>1. i \in 1 .. Len(d)
    BY <1>1
  <2> QED
    BY <1>1, <1>3, <2>1
<1>5. ASSUME NEW j \in 1 .. Len(r)
      PROVE  s[n + j] = r[j]
  <2>1. CASE j = Len(q) + 1
    <3>1. n + j = Len(d) + 1
      BY <1>1, <2>1
    <3> QED
      BY <1>2, <1>3, <2>1, <3>1
  <2>2. CASE j \in 1 .. Len(q)
    <3>1. n + j \in 1 .. Len(d)
      BY <1>1, <2>2
    <3> QED
      BY <1>1, <1>2, <1>3, <2>2, <3>1
  <2> QED
    BY <1>1, <1>2, <2>1, <2>2
<1>6. Len(s) = n + Len(r)
  BY <1>1, <1>2, <1>3
<1>7. DeliveredOf(n, A, ks, r) = s
  <2>1. IsDelivered(s, n, A, ks, r)
    BY <1>4, <1>5, <1>6 DEF IsDelivered
  <2> QED
    BY <1>2, <1>3, <2>1, DeliveredOnly
<1> QED
  BY <1>7 DEF r, s, d

\* The first one that waits gets v.
LEMMA DeliversDirectly ==
    ASSUME NEW n \in Nat, NEW A \in [Pops -> Values], NEW B \in [Pops -> Values],
           NEW ks \in Seq(Pops),
           n + 1 <= Len(ks), NEW v \in Values, B[ks[n + 1]] = v,
           \A i \in 1 .. n : B[ks[i]] = A[ks[i]]
    PROVE  DeliveredOf(n + 1, B, ks, <<>>) = Append(DeliveredOf(n, A, ks, <<>>), v)
<1> DEFINE e == <<>>
           d == DeliveredOf(n, A, ks, e)
           s == Append(d, v)
<1>1. e \in Seq(Values) /\ Len(e) = 0 /\ n <= Len(ks)
  BY LenProperties
<1> HIDE DEF e
<1>2. d \in Seq(Values) /\ Len(d) = n /\ \A i \in 1 .. n : d[i] = A[ks[i]]
  <2>1. e \in Seq(Values) /\ n <= Len(ks)
    BY <1>1
  <2>2. d \in Seq(Values) /\ Len(d) = n + Len(e) /\ \A i \in 1 .. n : d[i] = A[ks[i]]
    BY <2>1, DeliveredIs DEF IsDelivered
  <2> QED
    BY <1>1, <2>2
<1> HIDE DEF d
<1>3. /\ s \in Seq(Values) /\ Len(s) = Len(d) + 1 /\ s[Len(d) + 1] = v
      /\ \A i \in 1 .. Len(d) : s[i] = d[i]
  BY <1>2, AppendProperties
<1> HIDE DEF s
<1>4. \A i \in 1 .. n + 1 : i \in 1 .. n \/ i = n + 1
  OBVIOUS
<1>5. \A i \in 1 .. n + 1 : s[i] = B[ks[i]]
  BY <1>2, <1>3, <1>4
<1>6. n + 1 \in Nat /\ Len(s) = (n + 1) + Len(e) /\ \A j \in 1 .. Len(e) : s[(n + 1) + j] = e[j]
  BY <1>1, <1>2, <1>3
<1>7. DeliveredOf(n + 1, B, ks, e) = s
  <2>1. IsDelivered(s, n + 1, B, ks, e)
    BY <1>5, <1>6 DEF IsDelivered
  <2> QED
    BY <1>1, <1>3, <1>6, <2>1, DeliveredOnly
<1> QED
  BY <1>7 DEF s, d, e

\* A pop gets what is queued first.
LEMMA DeliversPopped ==
    ASSUME NEW A \in [Pops -> Values], NEW B \in [Pops -> Values], NEW ks \in Seq(Pops),
           NEW k \in Pops,
           NEW q \in Seq(Values), q # <<>>, B[k] = Head(q),
           \A i \in 1 .. Len(ks) : B[ks[i]] = A[ks[i]]
    PROVE  DeliveredOf(Len(ks) + 1, B, Append(ks, k), Tail(q)) = DeliveredOf(Len(ks), A, ks, q)
<1> DEFINE n == Len(ks)
           s == DeliveredOf(n, A, ks, q)
           ms == Append(ks, k)
           r == Tail(q)
<1>1. n \in Nat /\ n <= Len(ks) /\ Len(q) \in Nat \ {0} /\ Head(q) = q[1] /\ Len(q) >= 1
  BY LenProperties, EmptySeq
<1>2. /\ r \in Seq(Values) /\ Len(r) = Len(q) - 1 /\ \A j \in 1 .. Len(r) : r[j] = q[j + 1]
  BY HeadTailProperties
<1>3. /\ ms \in Seq(Pops) /\ Len(ms) = n + 1 /\ ms[n + 1] = k /\ \A i \in 1 .. n : ms[i] = ks[i]
  BY AppendProperties
<1> HIDE DEF n, ms, r
<1>4. /\ s \in Seq(Values) /\ Len(s) = n + Len(q)
      /\ \A i \in 1 .. n : s[i] = A[ks[i]]
      /\ \A j \in 1 .. Len(q) : s[n + j] = q[j]
  <2>1. s \in Seq(Values) /\ IsDelivered(s, n, A, ks, q)
    BY <1>1, DeliveredIs
  <2> QED
    BY <2>1 DEF IsDelivered
<1> HIDE DEF s
<1>5. ASSUME NEW i \in 1 .. n + 1
      PROVE  s[i] = B[ms[i]]
  <2>1. CASE i \in 1 .. n
    BY <1>3, <1>4, <2>1 DEF n
  <2>2. CASE i = n + 1
    <3>1. 1 \in 1 .. Len(q)
      BY <1>1
    <3>2. s[n + 1] = q[1]
      BY <1>4, <3>1
    <3> QED
      BY <1>1, <1>3, <2>2, <3>2
  <2> QED
    BY <1>1, <2>1, <2>2
<1>6. ASSUME NEW j \in 1 .. Len(r)
      PROVE  s[(n + 1) + j] = r[j]
  <2>1. j + 1 \in 1 .. Len(q) /\ (n + 1) + j = n + (j + 1)
    BY <1>1, <1>2
  <2>2. s[n + (j + 1)] = q[j + 1]
    BY <1>4, <2>1
  <2> QED
    BY <1>2, <2>1, <2>2
<1>7. n + 1 \in Nat /\ n + 1 <= Len(ms) /\ Len(s) = (n + 1) + Len(r)
  BY <1>1, <1>2, <1>3, <1>4
<1>8. DeliveredOf(n + 1, B, ms, r) = s
  <2>1. r \in Seq(Values) /\ ms \in Seq(Pops) /\ s \in Seq(Values)
    BY <1>2, <1>3, <1>4
  <2>2. IsDelivered(s, n + 1, B, ms, r)
    BY <1>5, <1>6, <1>7 DEF IsDelivered
  <2> QED
    BY <1>7, <2>1, <2>2, DeliveredOnly
<1> QED
  BY <1>8 DEF n, ms, r, s

-----------------------------------------------------------------------------
(* Queues: the invariant *)

\* Who was asked has a future, what was pushed was answered, and copies are of what was pushed.
History ==
    /\ asked \in Seq(Pops) /\ NoneTwice(asked)
    /\ pushed \in Seq(Items)
    /\ \A i \in 1 .. Len(asked) : pops[asked[i]] # "none"
    /\ \A v \in Elems(pushed) : pushes[v] # "none"
    /\ \A i \in 1 .. Len(blocked) : blocked[i].item \in Elems(pushed) \cup {movedFrom}

\* The last ones who asked are those who wait.
Latest == ~destroyed =>
    /\ Len(awaiters) <= Len(asked)
    /\ \A i \in 1 .. Len(awaiters) : asked[Answered + i] = awaiters[i]

Delivering == ~destroyed => Ordered(Delivered, pushed) /\ (~Limited => Delivered = pushed)

\* After the destructor nothing is going on.
Over == destroyed => awaiters = <<>> /\ (\A t \in Threads : hand[t] = Nothing) /\ Fifo

OrderInv == QueueInv /\ History /\ Latest /\ Delivering /\ Over

\* What the invariant says of the sequences.
LEMMA Sequences ==
    ASSUME OrderInv, ~destroyed
    PROVE  /\ QueueTypes /\ HandsOnce
           /\ asked \in Seq(Pops) /\ pushed \in Seq(Items) /\ awaiters \in Seq(Pops)
           /\ items \in Seq(Values) /\ Given \in [Pops -> Values]
           /\ Answered \in Nat /\ Len(asked) \in Nat /\ Len(awaiters) \in Nat
           /\ Answered + Len(awaiters) = Len(asked) /\ Answered <= Len(asked)
           /\ Delivered \in Seq(Values) /\ Len(Delivered) = Answered + Len(items)
           /\ \A i \in 1 .. Answered : Delivered[i] = AnswerOf(asked[i])
           /\ \A j \in 1 .. Len(items) : Delivered[Answered + j] = items[j]
           /\ \A i \in 1 .. Len(asked) : asked[i] \in Pops
<1>1. /\ QueueTypes /\ HandsOnce /\ asked \in Seq(Pops) /\ pushed \in Seq(Items)
      /\ awaiters \in Seq(Pops)
      /\ Len(awaiters) <= Len(asked) /\ items \in Seq(Items \cup {movedFrom})
  BY DEF OrderInv, QueueInv, QueueTypes, History, Latest
<1>2. items \in Seq(Values)
  BY <1>1, SeqMonotonic DEF Values
<1>3. Given \in [Pops -> Values] /\ \A k \in Pops : Given[k] = AnswerOf(k)
  BY <1>1, AnswersNow DEF Given
<1>4. /\ Len(asked) \in Nat /\ Len(awaiters) \in Nat /\ Answered \in Nat
      /\ Answered + Len(awaiters) = Len(asked) /\ Answered <= Len(asked)
  BY <1>1, LenProperties DEF Answered
<1>5. \A i \in 1 .. Len(asked) : asked[i] \in Pops
  BY <1>1
<1>6. /\ Delivered \in Seq(Values) /\ Len(Delivered) = Answered + Len(items)
      /\ \A i \in 1 .. Answered : Delivered[i] = Given[asked[i]]
      /\ \A j \in 1 .. Len(items) : Delivered[Answered + j] = items[j]
  <2>1. Delivered \in Seq(Values) /\ IsDelivered(Delivered, Answered, Given, asked, items)
    BY <1>1, <1>2, <1>3, <1>4, DeliveredIs DEF Delivered
  <2> QED
    BY <2>1 DEF IsDelivered
<1>7. \A i \in 1 .. Answered : i \in 1 .. Len(asked) /\ Given[asked[i]] = AnswerOf(asked[i])
  BY <1>3, <1>4, <1>5
<1> QED
  BY <1>1, <1>2, <1>3, <1>4, <1>5, <1>6, <1>7

\* One is removed.
LEMMA OneRemoved ==
    ASSUME NEW S, NEW s \in Seq(S), NoneTwice(s), NEW i \in 1 .. Len(s)
    PROVE  /\ RemoveAt(s, i) \in Seq(S) /\ Len(RemoveAt(s, i)) = Len(s) - 1
           /\ \A j \in 1 .. Len(s) - 1 : RemoveAt(s, i)[j] = IF j < i THEN s[j] ELSE s[j + 1]
           /\ NoneTwice(RemoveAt(s, i))
<1> DEFINE a == SubSeq(s, 1, i - 1)
           b == SubSeq(s, i + 1, Len(s))
           r == RemoveAt(s, i)
<1>1. Len(s) \in Nat /\ i \in Nat /\ i >= 1 /\ i <= Len(s)
  BY LenProperties
<1>2. a \in Seq(S) /\ Len(a) = i - 1 /\ \A j \in 1 .. i - 1 : a[j] = s[j]
  BY <1>1
<1>3. b \in Seq(S) /\ Len(b) = Len(s) - i /\ \A j \in 1 .. Len(s) - i : b[j] = s[i + j]
  BY <1>1
<1>4. r = a \o b
  BY DEF RemoveAt
<1> HIDE DEF a, b, r
<1>5. /\ r \in Seq(S) /\ Len(r) = Len(s) - 1
      /\ \A j \in 1 .. Len(s) - 1 : r[j] = IF j <= i - 1 THEN a[j] ELSE b[j - (i - 1)]
  <2>1. a \in Seq(S) /\ b \in Seq(S)
    BY <1>2, <1>3
  <2>2. /\ a \o b \in Seq(S)
        /\ Len(a \o b) = Len(a) + Len(b)
        /\ \A j \in 1 .. Len(a) + Len(b) :
               (a \o b)[j] = IF j <= Len(a) THEN a[j] ELSE b[j - Len(a)]
    BY ONLY <2>1, ConcatProperties
  <2>3. Len(a) = i - 1 /\ Len(a) + Len(b) = Len(s) - 1
    BY <1>1, <1>2, <1>3
  <2> QED
    BY <1>4, <2>2, <2>3
<1>6. ASSUME NEW j \in 1 .. Len(s) - 1
      PROVE  r[j] = IF j < i THEN s[j] ELSE s[j + 1]
  <2>1. CASE j < i
    BY <1>1, <1>2, <1>5, <2>1
  <2>2. CASE ~(j < i)
    <3>1. j - (i - 1) \in 1 .. Len(s) - i /\ i + (j - (i - 1)) = j + 1 /\ ~(j <= i - 1)
      BY <1>1, <2>2
    <3>2. b[j - (i - 1)] = s[j + 1]
      BY <1>3, <3>1
    <3> QED
      BY <1>5, <2>2, <3>1, <3>2
  <2> QED
    BY <2>1, <2>2
<1>7. ASSUME NEW j \in 1 .. Len(r), NEW k \in 1 .. Len(r), r[j] = r[k]
      PROVE  j = k
  <2> DEFINE x == IF j < i THEN j ELSE j + 1
             y == IF k < i THEN k ELSE k + 1
  <2>1. x \in 1 .. Len(s) /\ y \in 1 .. Len(s)
    BY <1>1, <1>5
  <2>2. s[x] = s[y]
    BY <1>5, <1>6, <1>7
  <2>3. x = y
    BY <2>1, <2>2 DEF NoneTwice
  <2> QED
    BY <1>1, <2>3
<1> QED
  BY <1>5, <1>6, <1>7 DEF r, NoneTwice

\* The pop that waits first has asked first among those who wait.
LEMMA FirstWaiting ==
    ASSUME OrderInv, ~destroyed, awaiters # <<>>
    PROVE  /\ Answered + 1 \in 1 .. Len(asked) /\ asked[Answered + 1] = Head(awaiters)
           /\ Head(awaiters) \in Pops
           /\ \A i \in 1 .. Len(asked) : asked[i] = Head(awaiters) => i = Answered + 1
           /\ \A i \in 1 .. Answered : asked[i] # Head(awaiters)
           /\ items = <<>>
<1>1. /\ awaiters \in Seq(Pops) /\ Len(awaiters) \in Nat /\ Len(awaiters) >= 1
      /\ Head(awaiters) = awaiters[1]
      /\ Head(awaiters) \in Pops
  BY Sequences, EmptySeq, HeadTailProperties
<1>2. Answered + 1 \in 1 .. Len(asked) /\ asked[Answered + 1] = awaiters[1]
  BY <1>1, Sequences DEF OrderInv, Latest
<1>3. \A i \in 1 .. Len(asked) : asked[i] = Head(awaiters) => i = Answered + 1
  BY <1>1, <1>2 DEF OrderInv, History, NoneTwice
<1>4. \A i \in 1 .. Answered : i \in 1 .. Len(asked) /\ i # Answered + 1
  BY Sequences
<1>5. items = <<>>
  BY DEF OrderInv, QueueInv, NobodyWaitsInVain
<1> QED
  BY <1>1, <1>2, <1>3, <1>4, <1>5

\* The first part of the invariant is kept for itself.
LEMMA QueueKept == QueueInv /\ [QueueNext]_queueVars => QueueInv'
BY QueueTypeStep, PromisesStep, VainStep DEF QueueInv

\* What is given, after a step.
LEMMA GivenAfter ==
    ASSUME QueueTypes', HandsOnce'
    PROVE  Given' \in [Pops -> Values] /\ \A k \in Pops : Given'[k] = AnswerOf(k)'
<1>1. \A k \in Pops : AnswerOf(k)' \in Values
  BY AnswersAfter
<1> QED
  BY <1>1 DEF Given

\* An item that is pushed is a new one.
LEMMA ItemJoins ==
    ASSUME OrderInv, ~destroyed, NEW v \in Items, pushes[v] = "none"
    PROVE  /\ v \notin Elems(pushed)
           /\ Append(pushed, v) \in Seq(Items)
           /\ Elems(Append(pushed, v)) = Elems(pushed) \cup {v}
<1>1. pushed \in Seq(Items) /\ v \notin Elems(pushed)
  BY DEF OrderInv, History
<1>2. NoneTwice(pushed)
  BY DEF OrderInv, Delivering, Ordered
<1> QED
  BY <1>1, <1>2, LastJoins

\* A pop that asks is a new one.
LEMMA PopJoins ==
    ASSUME OrderInv, NEW k \in Pops, pops[k] = "none"
    PROVE  /\ \A i \in 1 .. Len(asked) : asked[i] # k
           /\ Append(asked, k) \in Seq(Pops) /\ NoneTwice(Append(asked, k))
           /\ Len(Append(asked, k)) = Len(asked) + 1 /\ Append(asked, k)[Len(asked) + 1] = k
           /\ \A i \in 1 .. Len(asked) : Append(asked, k)[i] = asked[i]
           /\ \A i \in 1 .. Len(Append(asked, k)) : i \in 1 .. Len(asked) \/ i = Len(asked) + 1
           /\ k \notin Held /\ k \notin Waiting
<1>1. asked \in Seq(Pops) /\ NoneTwice(asked) /\ \A i \in 1 .. Len(asked) : asked[i] # k
  BY DEF OrderInv, History
<1>2. k \notin Elems(asked)
  BY <1>1 DEF Elems
<1>3. /\ Append(asked, k) \in Seq(Pops) /\ NoneTwice(Append(asked, k))
      /\ Len(Append(asked, k)) = Len(asked) + 1 /\ Append(asked, k)[Len(asked) + 1] = k
      /\ \A i \in 1 .. Len(asked) : Append(asked, k)[i] = asked[i]
  BY <1>1, <1>2, LastJoins, AppendProperties
<1>4. \A i \in 1 .. Len(Append(asked, k)) : i \in 1 .. Len(asked) \/ i = Len(asked) + 1
  BY <1>1, <1>3, LenProperties
<1>5. k \notin Held /\ k \notin Waiting
  BY DEF OrderInv, QueueInv, PopsOnce
<1> QED
  BY <1>1, <1>3, <1>4, <1>5

\* The pop that leaves the queue unanswered is the one that is removed.
LEMMA UnblockedLeaves ==
    ASSUME OrderInv, NEW t \in Threads, unblock_pop(t)
    PROVE  /\ asked' \in Seq(Pops) /\ NoneTwice(asked') /\ Len(asked') = Len(asked) - 1
           /\ \A j \in 1 .. Len(asked') :
                  asked'[j] = IF j < Answered + 1 THEN asked[j] ELSE asked[j + 1]
<1>1. ~destroyed /\ awaiters # <<>>
  BY DEF unblock_pop, Idle
<1>2. asked \in Seq(Pops) /\ NoneTwice(asked) /\ DOMAIN asked = 1 .. Len(asked)
  BY LenProperties DEF OrderInv, History
<1>3. /\ Answered + 1 \in 1 .. Len(asked) /\ asked[Answered + 1] = Head(awaiters)
      /\ \A i \in 1 .. Len(asked) : asked[i] = Head(awaiters) => i = Answered + 1
  BY <1>1, FirstWaiting
<1> DEFINE c == CHOOSE i \in DOMAIN asked : asked[i] = Head(awaiters)
<1>4. c = Answered + 1
  BY <1>2, <1>3
<1>5. asked' = RemoveAt(asked, c)
  BY DEF unblock_pop
<1> HIDE DEF c
<1>6. asked' = RemoveAt(asked, Answered + 1)
  BY <1>4, <1>5
<1> QED
  BY <1>2, <1>3, <1>6, OneRemoved

\* Each asks once, nobody takes an answer back, and only copies are put aside.
LEMMA HistoryStep == OrderInv /\ [QueueNext]_queueVars => History'
<1> SUFFICES ASSUME OrderInv, [QueueNext]_queueVars
             PROVE  History'
  OBVIOUS
<1>0. /\ asked \in Seq(Pops) /\ NoneTwice(asked) /\ pushed \in Seq(Items)
      /\ \A i \in 1 .. Len(asked) : asked[i] \in Pops /\ pops[asked[i]] # "none"
      /\ \A v \in Elems(pushed) : v \in Items /\ pushes[v] # "none"
      /\ \A i \in 1 .. Len(blocked) : blocked[i].item \in Elems(pushed) \cup {movedFrom}
      /\ blocked \in Seq(BlockedType) /\ QueueTypes
  BY DEF OrderInv, History, QueueInv, QueueTypes, Elems
<1>a. /\ pops \in [Pops -> Values]
      /\ pushes \in [Items -> {"none", "pending", "done", "exception", "canceled"}]
  BY <1>0 DEF QueueTypes, Values
<1>b. ASSUME blocked # <<>>
      PROVE  \A i \in 1 .. Len(Tail(blocked)) :
                 Tail(blocked)[i].item \in Elems(pushed) \cup {movedFrom}
  <2>1. /\ Len(Tail(blocked)) = Len(blocked) - 1
        /\ \A i \in 1 .. Len(Tail(blocked)) : Tail(blocked)[i] = blocked[i + 1]
    BY <1>0, <1>b, HeadTailProperties
  <2>2. \A i \in 1 .. Len(Tail(blocked)) : i + 1 \in 1 .. Len(blocked)
    BY <1>0, <2>1, LenProperties
  <2> QED
    BY <1>0, <2>1, <2>2
<1>c. ASSUME NEW v \in Items, ~destroyed, pushes[v] = "none", pushed' = Append(pushed, v),
             \/ blocked' = blocked
             \/ \E r \in BlockedType : blocked' = Append(blocked, r) /\ r.item \in {v, movedFrom},
             asked' = asked, pops' = pops,
             \E o \in {"done", "pending"} : pushes' = [pushes EXCEPT ![v] = o]
      PROVE  History'
  <2>1. pushed' \in Seq(Items) /\ Elems(pushed') = Elems(pushed) \cup {v}
    BY <1>c, ItemJoins
  <2>2. \A x \in Elems(pushed) \cup {v} : pushes'[x] # "none"
    BY <1>0, <1>a, <1>c
  <2>3. ASSUME NEW i \in 1 .. Len(blocked')
        PROVE  blocked'[i].item \in Elems(pushed) \cup {v, movedFrom}
    <3>1. CASE blocked' = blocked
      BY <1>0, <2>3, <3>1
    <3>2. CASE blocked' # blocked
      <4>1. PICK r \in BlockedType : blocked' = Append(blocked, r) /\ r.item \in {v, movedFrom}
        BY <1>c, <3>2
      <4>2. /\ Len(blocked') = Len(blocked) + 1 /\ blocked'[Len(blocked) + 1] = r
            /\ Len(blocked) \in Nat
            /\ \A j \in 1 .. Len(blocked) : blocked'[j] = blocked[j]
        BY <1>0, <4>1, AppendProperties, LenProperties
      <4>3. i \in 1 .. Len(blocked) \/ i = Len(blocked) + 1
        BY <2>3, <4>2
      <4> QED
        BY <1>0, <4>1, <4>2, <4>3
    <3> QED
      BY <3>1, <3>2
  <2> QED
    BY <1>0, <1>c, <2>1, <2>2, <2>3 DEF History
<1>d. ASSUME NEW k \in Pops, pops[k] = "none", asked' = Append(asked, k), pushed' = pushed,
             pushes' = pushes,
             blocked' = blocked \/ (blocked # <<>> /\ blocked' = Tail(blocked)),
             NEW o \in Values \ {"none"}, pops' = [pops EXCEPT ![k] = o]
      PROVE  History'
  <2>1. /\ asked' \in Seq(Pops) /\ NoneTwice(asked')
        /\ \A i \in 1 .. Len(asked) : asked[i] # k /\ asked'[i] = asked[i]
        /\ asked'[Len(asked) + 1] = k
        /\ \A i \in 1 .. Len(asked') : i \in 1 .. Len(asked) \/ i = Len(asked) + 1
    BY <1>d, PopJoins
  <2>2. \A i \in 1 .. Len(asked') : pops'[asked'[i]] # "none"
    BY <1>0, <1>a, <1>d, <2>1
  <2>3. \A i \in 1 .. Len(blocked') : blocked'[i].item \in Elems(pushed) \cup {movedFrom}
    BY <1>0, <1>b, <1>d
  <2> QED
    BY <1>0, <1>d, <2>1, <2>2, <2>3 DEF History
<1>1. ASSUME NEW t \in Threads, NEW v \in Items, PushToAwaiter(t, v)
     PROVE  History'
  BY <1>1, <1>c DEF PushToAwaiter, Idle
<1>2. ASSUME NEW t \in Threads, NEW v \in Items, PushToQueue(t, v)
     PROVE  History'
  BY <1>2, <1>c DEF PushToQueue, Enqueue, Idle
<1>3. ASSUME NEW t \in Threads, NEW v \in Items, PushBlocked(t, v)
     PROVE  History'
  <2>1. PICK rest \in {v, movedFrom} : blocked' = Append(blocked, [item |-> rest, push |-> v])
    BY <1>3 DEF PushBlocked
  <2>2. /\ [item |-> rest, push |-> v] \in BlockedType
        /\ [item |-> rest, push |-> v].item \in {v, movedFrom}
    BY DEF BlockedType
  <2>3. \E r \in BlockedType : blocked' = Append(blocked, r) /\ r.item \in {v, movedFrom}
    BY <2>1, <2>2
  <2> QED
    BY <1>3, <1>c, <2>3 DEF PushBlocked, Enqueue, Idle
<1>4. ASSUME NEW t \in Threads, NEW k \in Pops, PopWait(t, k)
     PROVE  History'
  <2>1. "pending" \in Values \ {"none"}
    BY DEF Values
  <2> QED
    BY <1>4, <1>d, <2>1 DEF PopWait
<1>5. ASSUME NEW t \in Threads, NEW k \in Pops, PopRefused(t, k)
     PROVE  History'
  BY <1>5, <1>0, <1>a DEF PopRefused, History
<1>6. ASSUME NEW t \in Threads, NEW k \in Pops, PopItem(t, k)
     PROVE  History'
  <2>1. Head(items) \in Values \ {"none"}
    <3>1. Head(items) \in Items \cup {movedFrom}
      BY <1>6, <1>0, HeadTailProperties DEF PopItem, QueueTypes
    <3> QED
      BY <3>1, ItemsAssumption DEF Values
  <2> QED
    BY <1>6, <1>d, <2>1 DEF PopItem
<1>7. ASSUME NEW t \in Threads, unblock_pop(t)
     PROVE  History'
  <2>1. /\ asked' \in Seq(Pops) /\ NoneTwice(asked') /\ Len(asked') = Len(asked) - 1
        /\ \A j \in 1 .. Len(asked') :
               asked'[j] = IF j < Answered + 1 THEN asked[j] ELSE asked[j + 1]
    BY <1>7, UnblockedLeaves
  <2>2. \A j \in 1 .. Len(asked') : j \in 1 .. Len(asked) /\ j + 1 \in 1 .. Len(asked)
    BY <1>0, <2>1, LenProperties
  <2>3. \A j \in 1 .. Len(asked') : pops[asked'[j]] # "none"
    BY <1>0, <2>1, <2>2
  <2> QED
    BY <1>7, <1>0, <2>1, <2>3 DEF unblock_pop, History
<1>8. ASSUME NEW t \in Threads, unblock_push(t)
     PROVE  History'
  BY <1>8, <1>0, <1>b DEF unblock_push, History
<1>9. ASSUME NEW t \in Threads, Resolve(t)
     PROVE  History'
  <2>1. hand[t].with # "none"
    BY <1>9, <1>0, HandIsTyped, ItemsAssumption DEF Resolve
  <2>2. /\ \A k \in Pops : pops[k] # "none" => pops'[k] # "none"
        /\ \A v \in Items : pushes[v] # "none" => pushes'[v] # "none"
    BY <1>9, <1>a, <2>1 DEF Resolve
  <2> QED
    BY <1>9, <1>0, <2>2 DEF Resolve, History
<1>10. ASSUME Destroy
     PROVE  History'
  <2>1. /\ \A k \in Pops : pops[k] # "none" => pops'[k] # "none"
        /\ \A v \in Items : pushes[v] # "none" => pushes'[v] # "none"
    BY <1>10 DEF Destroy
  <2>2. Len(blocked') = 0
    BY <1>10 DEF Destroy
  <2> QED
    BY <1>10, <1>0, <2>1, <2>2 DEF Destroy, History
<1>11. CASE UNCHANGED queueVars
  BY <1>11, <1>0 DEF queueVars, History
<1> QED
  BY <1>1, <1>2, <1>3, <1>4, <1>5, <1>6, <1>7, <1>8, <1>9, <1>10, <1>11 DEF QueueNext

\* A queue that is there was there before.
LEMMA NotBefore == [QueueNext]_queueVars /\ ~destroyed' => ~destroyed
<1> SUFFICES ASSUME [QueueNext]_queueVars, ~destroyed'
             PROVE  destroyed' = destroyed
  OBVIOUS
<1>1. ASSUME NEW t \in Threads, NEW v \in Items,
             PushToAwaiter(t, v) \/ PushToQueue(t, v) \/ PushBlocked(t, v)
      PROVE  destroyed' = destroyed
  BY <1>1 DEF PushToAwaiter, PushToQueue, PushBlocked
<1>2. ASSUME NEW t \in Threads, NEW k \in Pops, PopWait(t, k) \/ PopRefused(t, k) \/ PopItem(t, k)
      PROVE  destroyed' = destroyed
  BY <1>2 DEF PopWait, PopRefused, PopItem
<1>3. ASSUME NEW t \in Threads, unblock_pop(t) \/ unblock_push(t) \/ Resolve(t)
      PROVE  destroyed' = destroyed
  BY <1>3 DEF unblock_pop, unblock_push, Resolve
<1>4. ~Destroy
  BY DEF Destroy
<1>5. CASE UNCHANGED queueVars
  BY <1>5 DEF queueVars
<1> QED
  BY <1>1, <1>2, <1>3, <1>4, <1>5 DEF QueueNext

\* Who asks waits behind the others, who waits first leaves first.
LEMMA LatestStep == OrderInv /\ [QueueNext]_queueVars => Latest'
<1> SUFFICES ASSUME OrderInv, [QueueNext]_queueVars, ~destroyed, ~destroyed'
             PROVE  /\ Len(awaiters') <= Len(asked')
                    /\ \A i \in 1 .. Len(awaiters') : asked'[Answered' + i] = awaiters'[i]
  BY NotBefore DEF Latest
<1>0. /\ asked \in Seq(Pops) /\ awaiters \in Seq(Pops)
      /\ Answered \in Nat /\ Len(asked) \in Nat /\ Len(awaiters) \in Nat
      /\ Answered + Len(awaiters) = Len(asked) /\ Answered <= Len(asked)
      /\ \A i \in 1 .. Len(awaiters) : asked[Answered + i] = awaiters[i]
  BY Sequences DEF OrderInv, Latest
<1>a. ASSUME asked' = asked, awaiters' = awaiters
      PROVE  /\ Len(awaiters') <= Len(asked')
             /\ \A i \in 1 .. Len(awaiters') : asked'[Answered' + i] = awaiters'[i]
  <2>1. Answered' = Answered
    BY <1>a DEF Answered
  <2> QED
    BY <1>0, <1>a, <2>1
<1>b. ASSUME awaiters # <<>>, awaiters' = Tail(awaiters)
      PROVE  /\ Len(awaiters') = Len(awaiters) - 1 /\ Len(awaiters) >= 1
             /\ \A i \in 1 .. Len(awaiters') :
                    awaiters'[i] = awaiters[i + 1] /\ i + 1 \in 1 .. Len(awaiters)
  <2>1. Len(awaiters) \in Nat \ {0}
    BY <1>0, <1>b, EmptySeq
  <2> QED
    BY <1>0, <1>b, <2>1, HeadTailProperties
<1>1. ASSUME NEW t \in Threads, NEW v \in Items, PushToAwaiter(t, v)
      PROVE  /\ Len(awaiters') <= Len(asked')
             /\ \A i \in 1 .. Len(awaiters') : asked'[Answered' + i] = awaiters'[i]
  <2>1. asked' = asked /\ awaiters # <<>> /\ awaiters' = Tail(awaiters)
    BY <1>1 DEF PushToAwaiter
  <2>2. Answered' = Answered + 1
    BY <1>0, <1>b, <2>1 DEF Answered
  <2>3. \A i \in 1 .. Len(awaiters') : Answered' + i = Answered + (i + 1)
    BY <1>0, <2>2
  <2> QED
    BY <1>0, <1>b, <2>1, <2>2, <2>3
<1>2. ASSUME NEW t \in Threads, NEW k \in Pops, PopWait(t, k)
      PROVE  /\ Len(awaiters') <= Len(asked')
             /\ \A i \in 1 .. Len(awaiters') : asked'[Answered' + i] = awaiters'[i]
  <2>1. asked' = Append(asked, k) /\ awaiters' = Append(awaiters, k)
    BY <1>2 DEF PopWait
  <2>2. /\ Len(asked') = Len(asked) + 1 /\ asked'[Len(asked) + 1] = k
        /\ \A i \in 1 .. Len(asked) : asked'[i] = asked[i]
    BY <1>0, <2>1, AppendProperties
  <2>3. /\ Len(awaiters') = Len(awaiters) + 1 /\ awaiters'[Len(awaiters) + 1] = k
        /\ \A i \in 1 .. Len(awaiters) : awaiters'[i] = awaiters[i]
    BY <1>0, <2>1, AppendProperties
  <2>4. Answered' = Answered
    BY <1>0, <2>2, <2>3 DEF Answered
  <2>5. ASSUME NEW i \in 1 .. Len(awaiters')
        PROVE  asked'[Answered + i] = awaiters'[i]
    <3>1. CASE i \in 1 .. Len(awaiters)
      <4>1. Answered + i \in 1 .. Len(asked)
        BY <1>0, <3>1
      <4> QED
        BY <1>0, <2>2, <2>3, <3>1, <4>1
    <3>2. CASE i = Len(awaiters) + 1
      <4>1. Answered + i = Len(asked) + 1
        BY <1>0, <3>2
      <4> QED
        BY <2>2, <2>3, <3>2, <4>1
    <3> QED
      BY <1>0, <2>3, <3>1, <3>2
  <2> QED
    BY <1>0, <2>2, <2>3, <2>4, <2>5
<1>3. ASSUME NEW t \in Threads, NEW k \in Pops, PopItem(t, k)
      PROVE  /\ Len(awaiters') <= Len(asked')
             /\ \A i \in 1 .. Len(awaiters') : asked'[Answered' + i] = awaiters'[i]
  <2>1. awaiters = <<>> /\ awaiters' = <<>> /\ asked' = Append(asked, k)
    BY <1>3 DEF PopItem, OrderInv, QueueInv, NobodyWaitsInVain
  <2>2. Len(asked') = Len(asked) + 1 /\ Len(awaiters') = 0
    BY <1>0, <2>1, AppendProperties
  <2> QED
    BY <1>0, <2>2
<1>4. ASSUME NEW t \in Threads, unblock_pop(t)
      PROVE  /\ Len(awaiters') <= Len(asked')
             /\ \A i \in 1 .. Len(awaiters') : asked'[Answered' + i] = awaiters'[i]
  <2>1. awaiters # <<>> /\ awaiters' = Tail(awaiters)
    BY <1>4 DEF unblock_pop
  <2>2. /\ Len(asked') = Len(asked) - 1
        /\ \A j \in 1 .. Len(asked') :
               asked'[j] = IF j < Answered + 1 THEN asked[j] ELSE asked[j + 1]
    BY <1>4, UnblockedLeaves
  <2>3. Answered' = Answered
    BY <1>0, <1>b, <2>1, <2>2 DEF Answered
  <2>4. ASSUME NEW i \in 1 .. Len(awaiters')
        PROVE  asked'[Answered + i] = awaiters'[i]
    <3>1. Answered + i \in 1 .. Len(asked') /\ ~(Answered + i < Answered + 1)
          /\ (Answered + i) + 1 = Answered + (i + 1)
      BY <1>0, <1>b, <2>1, <2>2, <2>4
    <3>2. asked'[Answered + i] = asked[Answered + (i + 1)]
      BY <2>2, <3>1
    <3> QED
      BY <1>0, <1>b, <2>1, <2>4, <3>2
  <2>5. Len(awaiters') <= Len(asked')
    BY <1>0, <1>b, <2>1, <2>2
  <2> QED
    BY <2>3, <2>4, <2>5
<1> QED
  BY <1>a, <1>1, <1>2, <1>3, <1>4 DEF QueueNext, PushToQueue, PushBlocked, PopRefused, unblock_push,
     Resolve, Destroy, queueVars

\* What is pushed is delivered in that order, and before it is copied.
LEMMA DeliveringStep == OrderInv /\ [QueueNext]_queueVars => Delivering'
<1> DEFINE Result == Ordered(Delivered, pushed) /\ (~Limited => Delivered = pushed)
<1> SUFFICES ASSUME OrderInv, [QueueNext]_queueVars, ~destroyed, ~destroyed'
             PROVE  Result'
  BY NotBefore DEF Delivering
<1>0. /\ asked \in Seq(Pops) /\ pushed \in Seq(Items) /\ awaiters \in Seq(Pops)
      /\ items \in Seq(Values) /\ Given \in [Pops -> Values]
      /\ Answered \in Nat /\ Len(asked) \in Nat /\ Len(awaiters) \in Nat
      /\ Answered + Len(awaiters) = Len(asked) /\ Answered <= Len(asked)
      /\ Delivered \in Seq(Values) /\ \A i \in 1 .. Len(asked) : asked[i] \in Pops
      /\ \A k \in Pops : Given[k] = AnswerOf(k)
  BY Sequences DEF Given
<1>t. /\ QueueTypes /\ HandsOnce /\ QueueTypes' /\ HandsOnce'
      /\ Given' \in [Pops -> Values] /\ \A k \in Pops : Given'[k] = AnswerOf(k)'
  <2>1. QueueTypes /\ HandsOnce /\ QueueTypes' /\ HandsOnce'
    BY QueueKept DEF OrderInv, QueueInv
  <2> QED
    BY <2>1, GivenAfter
<1>r. Result
  BY DEF OrderInv, Delivering
<1> HIDE DEF Result
<1>s. ASSUME Delivered' = Delivered, pushed' = pushed, limit' = limit
      PROVE  Result'
  BY <1>r, <1>s DEF Result, Limited
<1>m. ASSUME NEW v \in Items, pushes[v] = "none", pushed' = Append(pushed, v), limit' = limit,
             Delivered' = Append(Delivered, v)
      PROVE  Result'
  <2>1. v \notin Elems(pushed)
    BY <1>m, ItemJoins
  <2>2. Ordered(Append(Delivered, v), Append(pushed, v))
    BY <1>0, <1>r, <2>1, OrderedMore DEF Result
  <2> QED
    BY <1>m, <1>r, <2>2 DEF Result, Limited
<1>u. ASSUME asked' = asked, awaiters' = awaiters, items' = items,
             \A k \in Pops : AnswerOf(k)' = AnswerOf(k)
      PROVE  Delivered' = Delivered
  <2>1. Given' = Given /\ Answered' = Answered
    BY <1>u DEF Given, Answered
  <2> QED
    BY <1>u, <2>1 DEF Delivered
<1>k. ASSUME asked' \in Seq(Pops), Answered <= Len(asked'), items' = items, Answered' = Answered,
             \A i \in 1 .. Answered : asked'[i] = asked[i] /\ Given'[asked[i]] = Given[asked[i]]
      PROVE  Delivered' = Delivered
  <2>1. /\ Len(Delivered) = Answered + Len(items)
        /\ \A i \in 1 .. Answered : Delivered[i] = Given[asked[i]]
        /\ \A j \in 1 .. Len(items) : Delivered[Answered + j] = items[j]
    <3>1. \A i \in 1 .. Answered : i \in 1 .. Len(asked) /\ Delivered[i] = AnswerOf(asked[i])
      BY <1>0, Sequences
    <3> QED
      BY <1>0, <3>1, Sequences
  <2>2. \A i \in 1 .. Answered : Delivered[i] = Given'[asked'[i]]
    BY <1>k, <2>1
  <2>3. DeliveredOf(Answered, Given', asked', items) = Delivered
    <3>1. /\ Answered \in Nat /\ Given' \in [Pops -> Values] /\ asked' \in Seq(Pops)
          /\ Answered <= Len(asked') /\ items \in Seq(Values) /\ Delivered \in Seq(Values)
      BY <1>0, <1>t, <1>k
    <3>2. IsDelivered(Delivered, Answered, Given', asked', items)
      BY <2>1, <2>2 DEF IsDelivered
    <3> QED
      BY <3>1, <3>2, DeliveredOnly
  <2> QED
    BY <1>k, <2>3 DEF Delivered
<1>1. ASSUME NEW t \in Threads, NEW v \in Items, PushToAwaiter(t, v)
      PROVE  Result'
  <2>1. /\ awaiters # <<>> /\ awaiters' = Tail(awaiters) /\ TakeOut(t, Head(awaiters), v)
        /\ hand[t] = Nothing
        /\ pushes[v] = "none" /\ pushed' = Append(pushed, v) /\ items' = items /\ limit' = limit
        /\ asked' = asked /\ pops' = pops
    BY <1>1 DEF PushToAwaiter, Idle
  <2>2. /\ Answered + 1 \in 1 .. Len(asked) /\ asked[Answered + 1] = Head(awaiters)
        /\ Head(awaiters) \in Pops
        /\ \A i \in 1 .. Answered : asked[i] # Head(awaiters)
        /\ items = <<>>
    BY <2>1, FirstWaiting
  <2>3. Answered' = Answered + 1
    <3>1. Len(Tail(awaiters)) = Len(awaiters) - 1
      BY <1>0, <2>1, HeadTailProperties
    <3> QED
      BY <1>0, <2>1, <3>1 DEF Answered
  <2>4. \A k \in Pops : AnswerOf(k)' = IF k = Head(awaiters) THEN v ELSE AnswerOf(k)
    BY <1>t, <2>1, <2>2, TakenAnswers
  <2>5. Given'[asked[Answered + 1]] = v
    BY <1>t, <2>2, <2>4
  <2>6. \A i \in 1 .. Answered : Given'[asked[i]] = Given[asked[i]]
    <3>1. \A i \in 1 .. Answered : i \in 1 .. Len(asked)
      BY <1>0
    <3> QED
      BY <1>0, <1>t, <2>2, <2>4, <3>1
  <2>7. v \in Values /\ Answered + 1 <= Len(asked)
    BY <2>2 DEF Values
  <2>8. DeliveredOf(Answered + 1, Given', asked, <<>>)
          = Append(DeliveredOf(Answered, Given, asked, <<>>), v)
    BY <1>0, <1>t, <2>5, <2>6, <2>7, DeliversDirectly
  <2>9. Delivered' = Append(Delivered, v)
    BY <2>1, <2>2, <2>3, <2>8 DEF Delivered
  <2> QED
    BY <1>m, <2>1, <2>9
<1>2. ASSUME NEW t \in Threads, NEW v \in Items, PushToQueue(t, v) \/ PushBlocked(t, v)
      PROVE  Result'
  <2>1. /\ pushes[v] = "none" /\ pushed' = Append(pushed, v) /\ limit' = limit
        /\ items' = Append(items, v) /\ hand' = hand
        /\ awaiters' = awaiters /\ asked' = asked /\ pops' = pops
    BY <1>2 DEF PushToQueue, PushBlocked, Enqueue
  <2>2. Given' = Given /\ Answered' = Answered
    <3>1. \A k \in Pops : AnswerOf(k)' = AnswerOf(k)
      BY <1>t, <2>1, OtherAnswers
    <3> QED
      BY <2>1, <3>1 DEF Given, Answered
  <2>3. DeliveredOf(Answered, Given, asked, Append(items, v)) = Append(Delivered, v)
    <3>1. v \in Values
      BY DEF Values
    <3> QED
      BY <1>0, <3>1, DeliversQueued DEF Delivered
  <2>4. Delivered' = Append(Delivered, v)
    BY <2>1, <2>2, <2>3 DEF Delivered
  <2> QED
    BY <1>m, <2>1, <2>4
<1>3. ASSUME NEW t \in Threads, NEW k \in Pops, PopWait(t, k)
      PROVE  Result'
  <2>1. /\ pops[k] = "none" /\ asked' = Append(asked, k) /\ awaiters' = Append(awaiters, k)
        /\ pops' = [pops EXCEPT ![k] = "pending"] /\ hand' = hand /\ items' = items
        /\ pushed' = pushed /\ limit' = limit
    BY <1>3 DEF PopWait
  <2>2. /\ \A i \in 1 .. Len(asked) : asked[i] # k /\ asked'[i] = asked[i]
        /\ asked' \in Seq(Pops) /\ Len(asked') = Len(asked) + 1
    BY <2>1, PopJoins
  <2>3. Answered' = Answered
    <3>1. Len(awaiters') = Len(awaiters) + 1
      BY <1>0, <2>1, AppendProperties
    <3> QED
      BY <1>0, <2>2, <3>1 DEF Answered
  <2>4. \A m \in Pops : m # k => AnswerOf(m)' = AnswerOf(m)
    BY <1>t, <2>1, OtherAnswers DEF QueueTypes
  <2>5. \A i \in 1 .. Answered : asked'[i] = asked[i] /\ Given'[asked[i]] = Given[asked[i]]
    <3>1. \A i \in 1 .. Answered : i \in 1 .. Len(asked)
      BY <1>0
    <3> QED
      BY <1>0, <1>t, <2>2, <2>4, <3>1
  <2>6. Answered <= Len(asked')
    BY <1>0, <2>2
  <2> QED
    BY <1>s, <1>k, <2>1, <2>2, <2>3, <2>5, <2>6
<1>4. ASSUME NEW t \in Threads, NEW k \in Pops, PopRefused(t, k)
      PROVE  Result'
  <2>1. /\ pops[k] = "none" /\ pops' = [pops EXCEPT ![k] = "refused"]
        /\ UNCHANGED <<hand, items, awaiters, asked>>
        /\ pushed' = pushed /\ limit' = limit
    BY <1>4 DEF PopRefused
  <2>2. \A m \in Pops : m # k => AnswerOf(m)' = AnswerOf(m)
    BY <1>t, <2>1, OtherAnswers DEF QueueTypes
  <2>3. \A i \in 1 .. Answered : Given'[asked[i]] = Given[asked[i]]
    <3>1. \A i \in 1 .. Answered : i \in 1 .. Len(asked)
      BY <1>0
    <3>2. \A i \in 1 .. Len(asked) : asked[i] # k
      BY <2>1, PopJoins
    <3> QED
      BY <1>0, <1>t, <2>2, <3>1, <3>2
  <2>4. Answered' = Answered
    BY <2>1 DEF Answered
  <2> QED
    BY <1>0, <1>s, <1>k, <2>1, <2>3, <2>4
<1>5. ASSUME NEW t \in Threads, NEW k \in Pops, PopItem(t, k)
      PROVE  Result'
  <2>1. /\ pops[k] = "none" /\ items # <<>> /\ awaiters = <<>> /\ hand[t] = Nothing
        /\ pops' = [pops EXCEPT ![k] = Head(items)] /\ asked' = Append(asked, k)
        /\ awaiters' = awaiters /\ pushed' = pushed /\ limit' = limit
    BY <1>5 DEF PopItem, Idle, OrderInv, QueueInv, NobodyWaitsInVain
  <2>2. /\ \A i \in 1 .. Len(asked) : asked[i] # k
        /\ asked' \in Seq(Pops) /\ Len(asked') = Len(asked) + 1 /\ k \notin Held
    BY <2>1, PopJoins
  <2>3. Answered = Len(asked) /\ Answered' = Len(asked) + 1
    <3>1. Len(awaiters) = 0
      BY <2>1
    <3> QED
      BY <1>0, <2>1, <2>2, <3>1 DEF Answered
  <2>4. Tail(items) \in Seq(Values) /\ Popped(items) = Tail(items)
    BY <1>0, <2>1, HeadTailProperties DEF Popped
  <2>5. ASSUME \A m \in Pops : m # k => AnswerOf(m)' = AnswerOf(m), k \notin Held'
        PROVE  DeliveredOf(Answered', Given', asked', Tail(items)) = Delivered
    <3>1. Given'[k] = Head(items)
      <4>1. AnswerOf(k)' = pops'[k]
        BY <1>t, <2>5, AnswersAfter
      <4> QED
        BY <1>t, <2>1, <4>1 DEF QueueTypes
    <3>2. \A i \in 1 .. Len(asked) : Given'[asked[i]] = Given[asked[i]]
      BY <1>0, <1>t, <2>2, <2>5
    <3>3. DeliveredOf(Len(asked) + 1, Given', Append(asked, k), Tail(items))
            = DeliveredOf(Len(asked), Given, asked, items)
      BY <1>0, <1>t, <2>1, <3>1, <3>2, DeliversPopped
    <3> QED
      BY <2>1, <2>3, <3>3 DEF Delivered
  <2>6. CASE blocked = <<>>
    <3>1. items' = Tail(items) /\ hand' = hand
      BY <1>5, <2>4, <2>6 DEF PopItem
    <3>2. k \notin Held' /\ \A m \in Pops : m # k => AnswerOf(m)' = AnswerOf(m)
      <4>1. k \notin Held'
        BY <2>2, <3>1 DEF Held
      <4> QED
        BY <1>t, <2>1, <3>1, <4>1, OtherAnswers DEF QueueTypes
    <3>3. Delivered' = Delivered
      BY <2>5, <3>1, <3>2 DEF Delivered
    <3> QED
      BY <1>s, <2>1, <3>3
  <2>7. CASE blocked # <<>>
    <3> DEFINE x == Head(blocked).item
               w == Head(blocked).push
    <3>1. items' = Append(Tail(items), x) /\ TakeOut(t, w, "done")
      BY <1>5, <2>4, <2>7 DEF PopItem
    <3>2. /\ w \in Items /\ x \in Values
          /\ x \notin Items \/ x \in Elems(pushed)
      <4>1. blocked \in Seq(BlockedType)
        BY <1>t DEF QueueTypes
      <4>2. Head(blocked) \in BlockedType /\ Head(blocked) = blocked[1] /\ 1 \in 1 .. Len(blocked)
        BY <2>7, <4>1, HeadTailProperties, EmptySeq
      <4>3. blocked[1].item \in Elems(pushed) \cup {movedFrom}
        BY <4>2 DEF OrderInv, History
      <4> QED
        BY <4>2, <4>3, ItemsAssumption DEF BlockedType, Values
    <3> HIDE DEF x, w
    <3>3. k \notin Held' /\ \A m \in Pops : m # k => AnswerOf(m)' = AnswerOf(m)
      <4>1. \A m \in Pops : m # w
        BY <3>2, ItemsAssumption
      <4>2. hand'[t].of = w /\ \A u \in Threads : u # t => hand'[u] = hand[u]
        BY <1>t, <3>1 DEF TakeOut, QueueTypes
      <4>3. k \notin Held'
        BY <2>2, <4>1, <4>2 DEF Held
      <4>4. \A m \in Pops : m # k => pops'[m] = pops[m]
        BY <1>t, <2>1 DEF QueueTypes
      <4> QED
        BY <1>t, <2>1, <3>1, <3>2, <4>1, <4>3, <4>4, TakenAnswers
    <3>4. Delivered' = Append(Delivered, x)
      <4>1. DeliveredOf(Answered', Given', asked', Append(Tail(items), x))
              = Append(DeliveredOf(Answered', Given', asked', Tail(items)), x)
        <5>1. Answered' \in Nat /\ Answered' <= Len(asked')
          BY <1>0, <2>2, <2>3
        <5> QED
          BY <1>t, <2>2, <2>4, <3>2, <5>1, DeliversQueued
      <4> QED
        BY <2>5, <3>1, <3>3, <4>1 DEF Delivered
    <3>5. Ordered(Append(Delivered, x), pushed)
      BY <1>0, <1>r, <3>2, OrderedStill DEF Result
    <3>6. Limited
      BY <2>7 DEF OrderInv, QueueInv, NobodyWaitsInVain, Full
    <3> QED
      BY <2>1, <3>4, <3>5, <3>6 DEF Result, Limited
  <2> QED
    BY <2>6, <2>7
<1>6. ASSUME NEW t \in Threads, unblock_pop(t)
      PROVE  Result'
  <2>1. /\ awaiters # <<>> /\ awaiters' = Tail(awaiters) /\ TakeOut(t, Head(awaiters), "exception")
        /\ hand[t] = Nothing /\ pushed' = pushed /\ items' = items /\ limit' = limit /\ pops' = pops
    BY <1>6 DEF unblock_pop, Idle
  <2>2. /\ Answered + 1 \in 1 .. Len(asked) /\ Head(awaiters) \in Pops
        /\ \A i \in 1 .. Answered : asked[i] # Head(awaiters)
    BY <2>1, FirstWaiting
  <2>3. /\ asked' \in Seq(Pops) /\ Len(asked') = Len(asked) - 1
        /\ \A j \in 1 .. Len(asked') :
               asked'[j] = IF j < Answered + 1 THEN asked[j] ELSE asked[j + 1]
    BY <1>6, UnblockedLeaves
  <2>4. Answered' = Answered
    <3>1. Len(Tail(awaiters)) = Len(awaiters) - 1
      BY <1>0, <2>1, HeadTailProperties
    <3> QED
      BY <1>0, <2>1, <2>3, <3>1 DEF Answered
  <2>5. \A m \in Pops : m # Head(awaiters) => AnswerOf(m)' = AnswerOf(m)
    BY <1>t, <2>1, <2>2, TakenAnswers
  <2>6. \A i \in 1 .. Answered : asked'[i] = asked[i] /\ Given'[asked[i]] = Given[asked[i]]
    <3>1. \A i \in 1 .. Answered :
              i \in 1 .. Len(asked) /\ i \in 1 .. Len(asked') /\ i < Answered + 1
      BY <1>0, <2>2, <2>3
    <3> QED
      BY <1>0, <1>t, <2>2, <2>3, <2>5, <3>1
  <2>7. Answered <= Len(asked')
    BY <1>0, <2>2, <2>3
  <2> QED
    BY <1>s, <1>k, <2>1, <2>3, <2>4, <2>6, <2>7
<1>7. ASSUME NEW t \in Threads, unblock_push(t)
      PROVE  Result'
  <2>1. /\ blocked # <<>> /\ TakeOut(t, Head(blocked).push, "exception") /\ hand[t] = Nothing
        /\ UNCHANGED <<limit, items, awaiters, pops, pushed, asked>>
    BY <1>7 DEF unblock_push, Idle
  <2>2. Head(blocked).push \in Items
    <3>1. Head(blocked) \in BlockedType
      BY <1>t, <2>1, HeadTailProperties DEF QueueTypes
    <3> QED
      BY <3>1 DEF BlockedType
  <2>3. \A k \in Pops : AnswerOf(k)' = AnswerOf(k)
    BY <1>t, <2>1, <2>2, ItemsAssumption, TakenAnswers
  <2> QED
    BY <1>s, <1>u, <2>1, <2>3
<1>8. ASSUME NEW t \in Threads, Resolve(t)
      PROVE  Result'
  <2>1. \A k \in Pops : AnswerOf(k)' = AnswerOf(k)
    BY <1>8, <1>t, ResolvedAnswers
  <2> QED
    BY <1>8, <1>s, <1>u, <2>1 DEF Resolve
<1>9. ~Destroy
  BY DEF Destroy
<1>10. CASE UNCHANGED queueVars
  <2>1. \A k \in Pops : AnswerOf(k)' = AnswerOf(k)
    BY <1>10, <1>t, OtherAnswers DEF queueVars
  <2> QED
    BY <1>10, <1>s, <1>u, <2>1 DEF queueVars
<1> QED
  BY <1>1, <1>2, <1>3, <1>4, <1>5, <1>6, <1>7, <1>8, <1>9, <1>10 DEF QueueNext

\* A pop is answered with what was delivered to it, or it waits.
LEMMA WhoIsAnswered ==
    ASSUME OrderInv, ~destroyed, NEW i \in 1 .. Len(asked)
    PROVE  /\ asked[i] \in Pops
           /\ i <= Answered => AnswerOf(asked[i]) = Delivered[i] /\ asked[i] \notin Waiting
           /\ i > Answered => /\ asked[i] \in Waiting /\ asked[i] \notin Held
                              /\ AnswerOf(asked[i]) = "pending" /\ items = <<>>
<1>0. /\ asked \in Seq(Pops) /\ awaiters \in Seq(Pops) /\ QueueTypes /\ HandsOnce
      /\ Answered \in Nat /\ Len(asked) \in Nat /\ Len(awaiters) \in Nat
      /\ Answered + Len(awaiters) = Len(asked) /\ Answered <= Len(asked)
      /\ asked[i] \in Pops
      /\ \A j \in 1 .. Answered : Delivered[j] = AnswerOf(asked[j])
      /\ \A j \in 1 .. Len(awaiters) : asked[Answered + j] = awaiters[j]
  BY Sequences DEF OrderInv, Latest
<1>1. ASSUME i <= Answered
      PROVE  asked[i] \notin Waiting
  <2>1. \A j \in 1 .. Len(awaiters) : Answered + j \in 1 .. Len(asked) /\ Answered + j # i
    BY <1>0, <1>1
  <2>2. \A j \in 1 .. Len(awaiters) : asked[i] # awaiters[j]
    BY <1>0, <2>1 DEF OrderInv, History, NoneTwice
  <2> QED
    BY <2>2 DEF Waiting, Elems
<1>2. ASSUME i > Answered
      PROVE  /\ asked[i] \in Waiting /\ asked[i] \notin Held
             /\ AnswerOf(asked[i]) = "pending" /\ items = <<>>
  <2>1. i - Answered \in 1 .. Len(awaiters) /\ Answered + (i - Answered) = i
    BY <1>0, <1>2
  <2>2. asked[i] = awaiters[i - Answered]
    BY <1>0, <2>1
  <2>3. asked[i] \in Waiting
    BY <2>1, <2>2 DEF Waiting, Elems
  <2>4. pops[asked[i]] = "pending" /\ asked[i] \notin Held
    BY <1>0, <2>3 DEF OrderInv, QueueInv, PopsOnce
  <2>5. AnswerOf(asked[i]) = "pending"
    BY <1>0, <2>4, AnswersNow
  <2>6. Len(awaiters) # 0
    BY <1>0, <2>1
  <2>7. awaiters # <<>>
    BY <2>6
  <2> QED
    BY <2>3, <2>4, <2>5, <2>7 DEF OrderInv, QueueInv, NobodyWaitsInVain
<1>3. i <= Answered => AnswerOf(asked[i]) = Delivered[i]
  BY <1>0
<1> QED
  BY <1>0, <1>1, <1>2, <1>3

\* After the destructor: nothing moves, and who still waited was told that there is nothing.
LEMMA OverStep == OrderInv /\ [QueueNext]_queueVars => Over'
<1> SUFFICES ASSUME OrderInv, [QueueNext]_queueVars, destroyed'
             PROVE  awaiters' = <<>> /\ (\A t \in Threads : hand'[t] = Nothing) /\ Fifo'
  BY DEF Over
<1>t. QueueTypes /\ HandsOnce /\ QueueTypes' /\ HandsOnce'
  BY QueueKept DEF OrderInv, QueueInv
<1>0. /\ asked \in Seq(Pops) /\ DOMAIN asked = 1 .. Len(asked)
      /\ \A i \in 1 .. Len(asked) : asked[i] \in Pops
  BY LenProperties DEF OrderInv, History
<1>1. ASSUME destroyed, UNCHANGED <<hand, asked, pushed, limit, awaiters, pops, destroyed>>
      PROVE  awaiters' = <<>> /\ (\A t \in Threads : hand'[t] = Nothing) /\ Fifo'
  <2>1. awaiters = <<>> /\ (\A t \in Threads : hand[t] = Nothing) /\ Fifo
    BY <1>1 DEF OrderInv, Over
  <2>2. \A k \in Pops : AnswerOf(k)' = AnswerOf(k)
    BY <1>1, <1>t, OtherAnswers
  <2>3. Fifo'
    BY <1>0, <1>1, <2>1, <2>2 DEF Fifo, Limited
  <2> QED
    BY <1>1, <2>1, <2>3
<1>2. CASE Destroy
  <2>1. /\ awaiters' = <<>> /\ hand' = hand /\ \A t \in Threads : hand[t] = Nothing
        /\ pops' = [k \in Pops |-> IF k \in Range(awaiters) THEN "canceled" ELSE pops[k]]
        /\ UNCHANGED <<limit, asked, pushed>> /\ destroyed'
    BY <1>2 DEF Destroy, Idle
  <2>2. Held = {} /\ Held' = {}
    BY <2>1, ItemsAssumption DEF Held, Nothing
  <2>3. Range(awaiters) = Waiting
    BY <1>t, LenProperties DEF Waiting, Elems, Range, QueueTypes
  <2>4. CASE destroyed
    <3>1. awaiters = <<>>
      BY <2>4 DEF OrderInv, Over
    <3>2. Waiting = {}
      BY <3>1 DEF Waiting, Elems
    <3>3. pops' = pops
      BY <1>t, <2>1, <2>3, <3>2 DEF QueueTypes
    <3> QED
      BY <1>1, <2>1, <2>4, <3>1, <3>3
  <2>5. CASE ~destroyed
    <3>1. ASSUME ~Limited, NEW i \in 1 .. Len(asked)
          PROVE  AnswerOf(asked[i])' = IF i <= Len(pushed) THEN pushed[i] ELSE "canceled"
      <4>1. Delivered = pushed /\ Len(Delivered) = Answered + Len(items)
            /\ Answered \in Nat /\ Len(items) \in Nat
        BY <2>5, <3>1, Sequences, LenProperties DEF OrderInv, Delivering
      <4>2. /\ asked[i] \in Pops /\ AnswerOf(asked[i])' = pops'[asked[i]]
            /\ AnswerOf(asked[i]) = pops[asked[i]]
        <5>1. \A k \in Pops : AnswerOf(k)' = pops'[k] /\ AnswerOf(k) = pops[k]
          BY <1>t, <2>2, AnswersNow, AnswersAfter
        <5>2. AnswerOf(asked[i])' = AnswerFrom(hand', pops', asked[i])
          BY <2>1 DEF AnswerOf, AnswerFrom
        <5>3. \A k \in Pops : AnswerOf(k)' = AnswerFrom(hand', pops', k)
          BY AnswerIsFrom
        <5> QED
          BY <1>0, <5>1, <5>2, <5>3
      <4>3. CASE i <= Answered
        <5>1. AnswerOf(asked[i]) = pushed[i] /\ asked[i] \notin Waiting
          BY <2>5, <4>1, <4>3, WhoIsAnswered
        <5>2. i <= Len(pushed)
          BY <4>1, <4>3
        <5> QED
          BY <2>1, <2>3, <4>2, <5>1, <5>2
      <4>4. CASE i > Answered
        <5>1. asked[i] \in Waiting /\ items = <<>>
          BY <2>5, <4>4, WhoIsAnswered
        <5>2. ~(i <= Len(pushed))
          BY <4>1, <4>4, <5>1
        <5> QED
          BY <2>1, <2>3, <4>2, <5>1, <5>2
      <4> QED
        BY <4>1, <4>3, <4>4
    <3>2. Fifo'
      <4>1. ASSUME ~Limited', NEW i \in 1 .. Len(asked)
            PROVE  AnswerOf(asked[i])' = IF i <= Len(pushed') THEN pushed'[i]
                                        ELSE IF destroyed' THEN "canceled" ELSE "pending"
        <5>1. ~Limited
          BY <2>1, <4>1 DEF Limited
        <5>2. AnswerOf(asked[i])' = IF i <= Len(pushed) THEN pushed[i] ELSE "canceled"
          BY <3>1, <5>1
        <5> QED
          BY <2>1, <5>2
      <4> QED
        BY <1>0, <2>1, <4>1 DEF Fifo
    <3> QED
      BY <2>1, <3>2
  <2> QED
    BY <2>4, <2>5
<1>3. ASSUME ~Destroy
      PROVE  UNCHANGED queueVars /\ destroyed
  <2>1. \A t \in Threads : ~Resolve(t) \/ ~destroyed
    BY DEF OrderInv, Over, Resolve
  <2>2. ASSUME NEW t \in Threads, NEW v \in Items,
               PushToAwaiter(t, v) \/ PushToQueue(t, v) \/ PushBlocked(t, v)
        PROVE  FALSE
    BY <2>2 DEF PushToAwaiter, PushToQueue, PushBlocked, Idle
  <2>3. ASSUME NEW t \in Threads, NEW k \in Pops, PopWait(t, k) \/ PopRefused(t, k) \/ PopItem(t, k)
        PROVE  FALSE
    BY <2>3 DEF PopWait, PopRefused, PopItem, Idle
  <2>4. ASSUME NEW t \in Threads, unblock_pop(t) \/ unblock_push(t) \/ Resolve(t)
        PROVE  FALSE
    BY <2>1, <2>4 DEF unblock_pop, unblock_push, Resolve, Idle
  <2> QED
    BY <1>3, <2>2, <2>3, <2>4 DEF QueueNext, queueVars
<1> QED
  BY <1>1, <1>2, <1>3 DEF queueVars

\* What pops are given and what is queued is what is delivered, up to those who wait.
LEMMA ServedIs ==
    ASSUME OrderInv, ~destroyed
    PROVE  /\ DOMAIN Served = 1 .. Len(Served) /\ Len(Served) \in Nat
           /\ \A i \in 1 .. Len(Delivered) : i \in 1 .. Len(Served) /\ Served[i] = Delivered[i]
           /\ \A i \in 1 .. Len(Served) : i \in 1 .. Len(Delivered) \/ Served[i] = "pending"
<1> DEFINE f == [i \in DOMAIN asked |-> AnswerOf(asked[i])]
           n == Len(asked)
<1>0. /\ asked \in Seq(Pops) /\ DOMAIN asked = 1 .. n /\ n \in Nat /\ items \in Seq(Values)
      /\ Answered \in Nat /\ Answered <= n /\ Len(Delivered) = Answered + Len(items)
      /\ Len(items) \in Nat
      /\ \A j \in 1 .. Len(items) : Delivered[Answered + j] = items[j]
  BY Sequences, LenProperties
<1>1. f \in Seq(Values) /\ Len(f) = n /\ \A i \in 1 .. n : f[i] = AnswerOf(asked[i])
  <2>1. \A i \in 1 .. n : AnswerOf(asked[i]) \in Values
    BY Sequences, AnswersNow
  <2> QED
    BY <1>0, <2>1
<1>2. Served = f \o items
  BY DEF Served
<1> HIDE DEF f
<1>3. /\ f \o items \in Seq(Values) /\ Len(f \o items) = Len(f) + Len(items)
      /\ \A i \in 1 .. Len(f) + Len(items) :
             (f \o items)[i] = IF i <= Len(f) THEN f[i] ELSE items[i - Len(f)]
  <2>1. f \in Seq(Values) /\ items \in Seq(Values)
    BY <1>0, <1>1
  <2> QED
    BY ONLY <2>1, ConcatProperties
<1>4. /\ Served \in Seq(Values) /\ Len(Served) = n + Len(items)
      /\ \A i \in 1 .. n + Len(items) : Served[i] = IF i <= n THEN f[i] ELSE items[i - n]
  BY <1>1, <1>2, <1>3
<1>5. DOMAIN Served = 1 .. Len(Served) /\ Len(Served) \in Nat
  BY <1>4, LenProperties
<1>6. \A i \in 1 .. n : /\ i <= Answered => f[i] = Delivered[i]
                        /\ i > Answered => f[i] = "pending" /\ items = <<>>
  BY <1>1, WhoIsAnswered
<1>7. CASE Answered = n
  <2>1. ASSUME NEW i \in 1 .. n + Len(items)
        PROVE  Served[i] = Delivered[i]
    <3>1. CASE i <= n
      BY <1>0, <1>4, <1>6, <1>7, <3>1
    <3>2. CASE ~(i <= n)
      <4>1. i - n \in 1 .. Len(items) /\ Answered + (i - n) = i
        BY <1>0, <1>7, <3>2
      <4>2. Delivered[Answered + (i - n)] = items[i - n]
        BY <1>0, <4>1
      <4> QED
        BY <1>4, <3>2, <4>1, <4>2
    <3> QED
      BY <3>1, <3>2
  <2> QED
    BY <1>0, <1>4, <1>5, <1>7, <2>1
<1>8. CASE Answered # n
  <2>1. n \in 1 .. n /\ n > Answered
    <3>1. n \in Nat /\ Answered \in Nat /\ Answered <= n /\ Answered # n
      BY <1>0, <1>8
    <3> HIDE DEF n
    <3> QED
      BY ONLY <3>1
  <2>2. Len(items) = 0
    BY <1>6, <2>1
  <2>3. ASSUME NEW i \in 1 .. Len(Delivered)
        PROVE  i \in 1 .. Len(Served) /\ Served[i] = Delivered[i]
    <3>1. i \in 1 .. n /\ i <= Answered /\ i \in 1 .. n + Len(items)
      BY <1>0, <2>2
    <3> QED
      BY <1>4, <1>6, <3>1
  <2>4. ASSUME NEW i \in 1 .. Len(Served)
        PROVE  i \in 1 .. Len(Delivered) \/ Served[i] = "pending"
    <3>1. i \in 1 .. n
      BY <1>4, <2>2, <1>0
    <3>2. CASE i <= Answered
      BY <1>0, <2>2, <3>1, <3>2
    <3>3. CASE i > Answered
      BY <1>0, <1>4, <1>6, <2>2, <3>1, <3>3
    <3> QED
      BY <1>0, <3>1, <3>2, <3>3
  <2> QED
    BY <1>5, <2>3, <2>4
<1> QED
  BY <1>7, <1>8

\* Then what is pushed is what is popped, in that order.
LEMMA OrderSuffices == OrderInv => InItsOrder
<1> SUFFICES ASSUME OrderInv
             PROVE  Fifo /\ NothingLost
  BY DEF InItsOrder
<1>0. /\ asked \in Seq(Pops) /\ DOMAIN asked = 1 .. Len(asked)
      /\ pushed \in Seq(Items) /\ DOMAIN pushed = 1 .. Len(pushed)
  BY LenProperties DEF OrderInv, History
<1>1. Fifo
  <2>1. CASE destroyed
    BY <2>1 DEF OrderInv, Over
  <2>2. ASSUME ~destroyed, ~Limited, NEW i \in 1 .. Len(asked)
        PROVE  AnswerOf(asked[i]) = IF i <= Len(pushed) THEN pushed[i] ELSE "pending"
    <3>1. /\ Delivered = pushed /\ Len(Delivered) = Answered + Len(items)
          /\ Answered \in Nat /\ Len(items) \in Nat
      BY <2>2, Sequences, LenProperties DEF OrderInv, Delivering
    <3>2. CASE i <= Answered
      BY <2>2, <3>1, <3>2, WhoIsAnswered
    <3>3. CASE i > Answered
      <4>1. AnswerOf(asked[i]) = "pending" /\ items = <<>>
        BY <2>2, <3>3, WhoIsAnswered
      <4>2. ~(i <= Len(pushed))
        BY <3>1, <3>3, <4>1
      <4> QED
        BY <4>1, <4>2
    <3> QED
      BY <3>1, <3>2, <3>3
  <2> QED
    BY <1>0, <2>1, <2>2 DEF Fifo
<1>2. ASSUME ~destroyed
      PROVE  /\ IsInjective(pushed)
             /\ Range(Served) \cap Items = Range(pushed)
             /\ \A i, j \in DOMAIN pushed : i < j => Before(Served, pushed[i], pushed[j])
  <2>0. Ordered(Delivered, pushed)
    BY <1>2 DEF OrderInv, Delivering
  <2>1. /\ DOMAIN Served = 1 .. Len(Served) /\ Len(Served) \in Nat
        /\ \A i \in 1 .. Len(Delivered) : i \in 1 .. Len(Served) /\ Served[i] = Delivered[i]
        /\ \A i \in 1 .. Len(Served) : i \in 1 .. Len(Delivered) \/ Served[i] = "pending"
    BY <1>2, ServedIs
  <2>2. IsInjective(pushed)
    BY <1>0, <2>0 DEF IsInjective, Ordered, NoneTwice
  <2>3. \A x \in Items : x \in Range(Served) <=> x \in Elems(Delivered)
    BY <2>1, ItemsAssumption DEF Range, Elems
  <2>4. \A x : x \in Range(pushed) <=> x \in Elems(pushed)
    BY <1>0 DEF Range, Elems
  <2>5. Elems(pushed) \subseteq Items
    BY <1>0 DEF Elems
  <2>6. Range(Served) \cap Items = Range(pushed)
    BY <2>0, <2>3, <2>4, <2>5 DEF Ordered
  <2>7. ASSUME NEW i \in 1 .. Len(pushed), NEW j \in 1 .. Len(pushed), i < j
        PROVE  Before(Served, pushed[i], pushed[j])
    <3>1. PICK a \in 1 .. Len(Delivered) :
              Delivered[a] = pushed[i] /\ \A b \in 1 .. a : Delivered[b] # pushed[j]
      BY <2>0, <2>7 DEF Ordered
    <3>2. \A b \in 1 .. a : b \in 1 .. Len(Delivered)
      OBVIOUS
    <3>3. a \in DOMAIN Served /\ Served[a] = pushed[i] /\ \A b \in 1 .. a : Served[b] # pushed[j]
      BY <2>1, <3>1, <3>2
    <3> QED
      BY <3>3 DEF Before
  <2> QED
    BY <1>0, <2>2, <2>6, <2>7
<1>3. Kept \subseteq DOMAIN pushed
  BY DEF Kept
<1>4. \A i \in DOMAIN pushed : pushed[i] \in Range(pushed)
  BY DEF Range
<1> QED
  BY <1>1, <1>2, <1>3, <1>4 DEF NothingLost

\* At first nothing was asked, pushed or delivered.
LEMMA OrderStart == QueueInit => OrderInv
<1> SUFFICES ASSUME QueueInit
             PROVE  OrderInv
  OBVIOUS
<1>1. QueueInv
  BY QueueStart
<1>2. /\ asked = <<>> /\ pushed = <<>> /\ awaiters = <<>> /\ items = <<>> /\ blocked = <<>>
      /\ ~destroyed
  BY DEF QueueInit
<1>3. /\ <<>> \in Seq(Pops) /\ <<>> \in Seq(Items) /\ <<>> \in Seq(Values) /\ Len(<<>>) = 0
  BY EmptySeq
<1>4. History
  BY <1>2, <1>3 DEF History, NoneTwice, Elems
<1>5. Latest
  BY <1>2, <1>3 DEF Latest
<1>6. Answered = 0
  BY <1>2, <1>3 DEF Answered
<1>7. Delivered = <<>>
  <2>1. Given \in [Pops -> Values]
    BY <1>1, AnswersNow DEF Given, QueueInv
  <2>2. Delivered \in Seq(Values) /\ Len(Delivered) = 0
    <3>1. asked \in Seq(Pops) /\ items \in Seq(Values) /\ Len(asked) = 0 /\ Len(items) = 0
      BY <1>2, <1>3
    <3>2. Answered \in Nat /\ Answered <= Len(asked)
      BY <1>6, <3>1
    <3>3. Delivered \in Seq(Values) /\ Len(Delivered) = Answered + Len(items)
      BY <2>1, <3>1, <3>2, DeliveredIs DEF Delivered, IsDelivered
    <3> QED
      BY <1>6, <3>1, <3>3
  <2> QED
    BY <2>2, EmptySeq
<1>8. Ordered(<<>>, <<>>)
  BY <1>3 DEF Ordered, NoneTwice, Elems
<1> QED
  BY <1>1, <1>2, <1>4, <1>5, <1>7, <1>8 DEF OrderInv, Delivering, Over

\* For any number of items, pops, threads and any limit: in a queue the i-th pop is given the
\* i-th item, whoever resolves the promises first and whatever pops are unblocked; in a limited
\* queue too each item whose push is not unblocked comes, and after those that were pushed
\* before it.
THEOREM ServedInOrder == QueueSpec => []InItsOrder
<1>1. OrderInv /\ [QueueNext]_queueVars => OrderInv'
  BY QueueKept, HistoryStep, LatestStep, DeliveringStep, OverStep DEF OrderInv
<1> QED
  BY OrderStart, <1>1, OrderSuffices, PTL DEF QueueSpec
=============================================================================
