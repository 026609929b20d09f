----------------------------- MODULE Aggregator -----------------------------
(***************************************************************************)
(* generator_aggregator (generator_aggregator.h): a generator that charges *)
(* a list of generators, takes what they push into a queue as they come,   *)
(* and charges each again when its item was consumed.  Destroyed at a      *)
(* co_yield, it waits for those that are still active.                     *)
(***************************************************************************)
EXTENDS Naturals, FiniteSets, SequencesExt

CONSTANTS
    Sources,    \* generators of the list
    Ended       \* those that had ended when they were passed

ASSUME SourcesAssumption == IsFiniteSet(Sources) /\ Ended \subseteq Sources

VARIABLES
    phase,      \* of the coroutine and its frame
    source,     \* of each generator of the list
    answer,     \* what each was last suspended with
    arrived,    \* queue
    count,      \* _count of the controller
    thrown,     \* the aggregator ends by an exception: of a source, or raised in the loop
    raised

aggregatorVars == <<phase, source, answer, arrived, count, thrown, raised>>

Answers == {"value", "end", "exception"}

\* phase: "leaving" is ~generator_aggregator_controller; source: "active" was charged,
\* "pushed" is in the queue, "held" is the one whose item the consumer has.
AggregatorTypeOK ==
    /\ phase \in {"initial", "charging", "loop", "yielded", "leaving", "final", "gone"}
    /\ source \in [Sources -> {"listed", "active", "pushed", "held", "over"}]
    /\ answer \in [Sources -> Answers]
    /\ arrived \in Seq(Sources)
    /\ count \in 0 .. Cardinality(Sources)
    /\ thrown \in BOOLEAN /\ raised \in BOOLEAN

AggregatorInit ==
    /\ phase = "initial"
    /\ source = [s \in Sources |-> "listed"]
    /\ answer = [s \in Sources |-> "value"]
    /\ arrived = <<>>
    /\ count = Cardinality(Sources)
    /\ thrown = FALSE /\ raised = FALSE

-----------------------------------------------------------------------------
Becomes(s, state) == source' = [source EXCEPT ![s] = state]

\* The consumer asks for the first item.
AskFirst ==
    /\ phase = "initial"
    /\ phase' = "charging"
    /\ UNCHANGED <<source, answer, arrived, count, thrown, raised>>

\* charge(); one that had ended throws, and the exception leaves the aggregator.
ChargeNext(s) ==
    /\ phase = "charging" /\ source[s] = "listed"
    /\ IF s \in Ended
       THEN phase' = "leaving" /\ raised' = TRUE /\ UNCHANGED source
       ELSE Becomes(s, "active") /\ UNCHANGED <<phase, raised>>
    /\ UNCHANGED <<answer, arrived, count, thrown>>

ChargedAll ==
    /\ phase = "charging"
    /\ \A s \in Sources : source[s] # "listed"
    /\ phase' = "loop"
    /\ UNCHANGED <<source, answer, arrived, count, thrown, raised>>

\* A source is suspended, in whatever thread, and its GenCallback pushes itself.
Answer(s, what) ==
    /\ source[s] = "active"
    /\ Becomes(s, "pushed")
    /\ answer' = [answer EXCEPT ![s] = what]
    /\ arrived' = Append(arrived, s)
    /\ UNCHANGED <<phase, count, thrown, raised>>

\* co_await queue.pop(): an item is yielded, an end or an exception counted.
Take ==
    /\ phase = "loop" /\ count > 0 /\ arrived # <<>>
    /\ LET s == Head(arrived) IN
        \/ /\ answer[s] = "value"
           /\ Becomes(s, "held") /\ phase' = "yielded"
           /\ UNCHANGED <<count, thrown>>
        \/ /\ answer[s] # "value"
           /\ Becomes(s, "over") /\ count' = count - 1
           /\ thrown' = (thrown \/ answer[s] = "exception")
           /\ UNCHANGED phase
    /\ arrived' = Tail(arrived)
    /\ UNCHANGED <<answer, raised>>

\* Variant: the source is not charged again.
AskAgain_Uncharged(s) ==
    /\ phase = "yielded" /\ source[s] = "held"
    /\ Becomes(s, "over")
    /\ phase' = "loop"
    /\ UNCHANGED <<answer, arrived, count, thrown, raised>>

\* The consumer asks again: the source whose item it had is charged.
AskAgain(s) ==
    /\ phase = "yielded" /\ source[s] = "held"
    /\ Becomes(s, "active")
    /\ phase' = "loop"
    /\ UNCHANGED <<answer, arrived, count, thrown, raised>>

\* No source is left: the end, or the exception of one of them.
Finish ==
    /\ phase = "loop" /\ count = 0
    /\ phase' = "final"
    /\ UNCHANGED <<source, answer, arrived, count, thrown, raised>>

\* The owner destroys the aggregator, which is suspended.
DestroyAggregator ==
    /\ phase \in {"initial", "yielded", "final"}
    /\ phase' = IF phase = "yielded" THEN "leaving" ELSE "gone"
    /\ UNCHANGED <<source, answer, arrived, count, thrown, raised>>

\* ~generator_aggregator_controller(): one of the sources is not active, the others are
\* waited for.
WaitOne ==
    /\ phase = "leaving" /\ count > 1 /\ arrived # <<>>
    /\ Becomes(Head(arrived), "over")
    /\ arrived' = Tail(arrived)
    /\ count' = count - 1
    /\ UNCHANGED <<phase, answer, thrown, raised>>

\* Variant: one less is waited for.
Left_Early ==
    /\ phase = "leaving" /\ count <= 2
    /\ phase' = IF raised THEN "final" ELSE "gone"
    /\ UNCHANGED <<source, answer, arrived, count, thrown, raised>>

\* The frame and the generators in it are gone.
Left ==
    /\ phase = "leaving" /\ count <= 1
    /\ phase' = IF raised THEN "final" ELSE "gone"
    /\ UNCHANGED <<source, answer, arrived, count, thrown, raised>>

AggregatorSteps == ChargedAll \/ Take \/ Finish \/ WaitOne \/ Left

AggregatorNext ==
    \/ AskFirst \/ AggregatorSteps \/ DestroyAggregator
    \/ \E s \in Sources : ChargeNext(s) \/ AskAgain(s)
    \/ \E s \in Sources, what \in Answers : Answer(s, what)

\* The aggregator goes on when it can, and an active source is suspended at last.
AggregatorFairness ==
    /\ WF_aggregatorVars(AggregatorSteps)
    /\ WF_aggregatorVars(\E s \in Sources : ChargeNext(s))
    /\ \A s \in Sources : WF_aggregatorVars(\E what \in Answers : Answer(s, what))

AggregatorSpec == AggregatorInit /\ [][AggregatorNext]_aggregatorVars /\ AggregatorFairness

-----------------------------------------------------------------------------
(* Properties *)

\* No source is running, or about to push itself, when the frame that holds it, its
\* callback and the queue is gone: the destructor waits for each that is active.
NoOrphan == phase \in {"gone", "final"} => \A s \in Sources : source[s] # "active"

\* The consumer gets an item or the end, and the destructor returns: what it waits for is
\* still to come.
AggregatorAnswers ==
    phase \in {"charging", "loop", "leaving"} ~> phase \in {"yielded", "final", "gone"}
=============================================================================
