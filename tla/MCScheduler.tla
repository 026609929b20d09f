----------------------------- MODULE MCScheduler -----------------------------
(***************************************************************************)
(* Instances of Scheduler for TLC: one worker runs, in a thread of its own *)
(* or in a pool; the others have ended.                                    *)
(***************************************************************************)
EXTENDS Scheduler

OneWorker ==
    /\ now = 0 /\ Fresh
    /\ \E w \in Workers : pc = [v \in Workers |-> IF v = w THEN "new" ELSE "done"]

MCSpec == OneWorker /\ [][SchedulerNext]_schedulerVars /\ SchedulerFairness
==============================================================================
