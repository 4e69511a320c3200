----------------------------- MODULE MCDispatch -----------------------------
(* Small runners for TLC.                                                  *)
EXTENDS Dispatch, TLC

Symmetry == Permutations(Handles)

Config(p, src, isAsync, max, policy, budget, delay) ==
  [pool |-> p, source |-> src, isAsync |-> isAsync, maxAttempts |-> max,
   policy |-> policy, budget |-> budget, delay |-> delay]

(* One pool of each of the kinds named.                                    *)
AsyncPool   == [p \in Pools |-> "asyncio"]
One == [p \in Pools |-> 1]
Two == [p \in Pools |-> 2]
NoReservation == [p \in Pools |-> 0]
NobodyReserved == [p \in Pools |-> {}]

(* Dependencies: the three policies, asynchronous and synchronous bodies,  *)
(* on a pool of two slots, one of them kept for source "ui".               *)
OneReserved == [p \in Pools |-> 1]
ForUi == [p \in Pools |-> {"ui"}]
PolicyConfigs ==
  {Config("main", "manual", TRUE, 1, "fail", FALSE, FALSE),
   Config("main", "ui", TRUE, 1, "skip", FALSE, FALSE),
   Config("main", "manual", FALSE, 1, "run-anyway", FALSE, FALSE)}

(* Retries: every kind of pool and body, with and without a backoff delay. *)
ThreeKinds == [p \in Pools |-> CASE p = "main" -> "asyncio"
                                 [] p = "thread" -> "thread"
                                 [] p = "process" -> "process"]
RetryConfigs ==
  {Config("main", "manual", TRUE, 2, "fail", FALSE, TRUE),
   Config("main", "manual", FALSE, 2, "fail", TRUE, FALSE),
   Config("thread", "manual", FALSE, 3, "fail", TRUE, TRUE),
   Config("process", "manual", FALSE, 2, "skip", TRUE, FALSE)}

(* The serve loop: coroutines with a retry on one slot.                    *)
ServeConfigs == {Config("main", "manual", TRUE, 2, "fail", FALSE, TRUE)}

-----------------------------------------------------------------------------
(* What a docstring says of the runner and the code does not do.           *)

(* aserve "awaits new submissions (from any thread, ...) and keeps         *)
(* dispatching" (_runner.py:462-464): every handle submitted while aserve  *)
(* is entered is settled, or the loop is left.                             *)
EverySubmissionServed ==
  \A h \in Handles : (h \in Registered /\ mode = "serve" /\ loop # "off")
                       ~> (Done(h) \/ loop = "off")
=============================================================================
