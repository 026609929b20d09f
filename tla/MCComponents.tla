---------------------------- MODULE MCComponents ----------------------------
(***************************************************************************)
(* The components that are used by themselves, side by side for TLC: a     *)
(* behaviour is one of the component that "part" names, the others stay in *)
(* their initial state, where nothing that is fair is enabled.             *)
(***************************************************************************)
EXTENDS Queue, Signal, Generator, Aggregator, SharedFuture, Conversion, Storage, HandleArray,
        Defaults, Callbacks

VARIABLE part

componentVars == <<queueVars, signalVars, generatorVars, aggregatorVars, sharedVars, conversionVars,
                   storageVars, handleVars, defaultVars, callbackVars>>

Rests(p, v) == part # p => UNCHANGED v

Init ==
    /\ part \in {"queue", "signal", "generator", "aggregator", "shared", "conversion",
                 "storage", "handles", "defaults", "callbacks"}
    /\ QueueInit /\ SignalInit /\ GeneratorInit /\ AggregatorInit /\ SharedInit
    /\ ConversionInit /\ StorageInit /\ HandlesInit /\ DefaultsInit /\ CallbacksInit
    /\ part # "queue" => limit = Unlimited /\ ~single
    /\ part # "defaults" => ~constant
    /\ part # "signal" => life = "unborn"

Next ==
    /\ UNCHANGED part
    /\ \/ part = "queue" /\ QueueNext
       \/ part = "signal" /\ SignalNext
       \/ part = "generator" /\ GeneratorNext
       \/ part = "aggregator" /\ AggregatorNext
       \/ part = "shared" /\ SharedNext
       \/ part = "conversion" /\ ConversionNext
       \/ part = "storage" /\ StorageNext
       \/ part = "handles" /\ HandlesNext
       \/ part = "defaults" /\ DefaultsNext
       \/ part = "callbacks" /\ CallbacksNext
    /\ Rests("queue", queueVars)
    /\ Rests("signal", signalVars) /\ Rests("generator", generatorVars)
    /\ Rests("aggregator", aggregatorVars) /\ Rests("shared", sharedVars)
    /\ Rests("conversion", conversionVars) /\ Rests("storage", storageVars)
    /\ Rests("handles", handleVars) /\ Rests("defaults", defaultVars)
    /\ Rests("callbacks", callbackVars)

Fairness ==
    /\ QueueFairness /\ SignalFairness /\ GeneratorFairness /\ AggregatorFairness
    /\ SharedFairness /\ ConversionFairness

Spec == Init /\ [][Next]_<<part, componentVars>> /\ Fairness

TypeOK ==
    /\ QueueTypeOK /\ SignalTypeOK /\ GeneratorTypeOK /\ AggregatorTypeOK /\ SharedTypeOK
    /\ ConversionTypeOK /\ StorageTypeOK /\ HandlesTypeOK /\ DefaultsTypeOK
    /\ CallbacksTypeOK
=============================================================================
