---------------------------- MODULE MCScheduler -----------------------------
(* Small schedulers for TLC.                                               *)
EXTENDS Scheduler, TLC

CONSTANTS j1, j2, j3

EveryOther == [t \in 0 .. MaxClock |-> (t \div 2 + 1) * 2]
OnceAtOne  == [t \in 0 .. MaxClock |-> IF t = 0 THEN 1 ELSE NoTime]
NoCron     == [t \in 0 .. MaxClock |-> NoTime]

(* An interval job, a one-shot job and an event job.                       *)
MixedKinds   == j1 :> "interval" @@ j2 :> "once" @@ j3 :> "event"
MixedPeriods == j1 :> 1 @@ j2 :> 2 @@ j3 :> 1
MixedNext    == [j \in Jobs |-> NoCron]

(* Two cron jobs and an interval job; the second cron job is never due     *)
(* again within a year.                                                    *)
TimedKinds   == j1 :> "cron" @@ j2 :> "interval" @@ j3 :> "cron"
TimedPeriods == j1 :> 1 @@ j2 :> 1 @@ j3 :> 1
TimedNext    == j1 :> EveryOther @@ j2 :> NoCron @@ j3 :> OnceAtOne
=============================================================================
