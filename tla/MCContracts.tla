----------------------------- MODULE MCContracts -----------------------------
(***************************************************************************)
(* Future and Scheduler side by side for TLC: a behaviour is one of the    *)
(* component that "part" names, the other stays in its initial state,      *)
(* where nothing that is fair is enabled.                                  *)
(***************************************************************************)
EXTENDS Future, MCScheduler

VARIABLE part

BothInit ==
    /\ part \in {"future", "scheduler"}
    /\ Init
    /\ IF part = "scheduler" THEN OneWorker
       ELSE now = MaxTime /\ Fresh /\ pc = [w \in Workers |-> "done"]

BothNext ==
    /\ UNCHANGED part
    /\ \/ part = "future" /\ Next /\ UNCHANGED schedulerVars
       \/ part = "scheduler" /\ SchedulerNext /\ UNCHANGED vars

BothSpec == BothInit /\ [][BothNext]_<<part, vars, schedulerVars>> /\ Fairness /\ SchedulerFairness
==============================================================================
