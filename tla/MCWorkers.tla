----------------------------- MODULE MCWorkers -----------------------------
(* Small instances of Workers for TLC.                                     *)
EXTENDS Workers, TLC

CONSTANTS a, b, w, o

(* Two attempts on the pool, an await of the second, an offloaded call.    *)
MixedKinds == a :> "pool" @@ b :> "pool" @@ w :> "await" @@ o :> "offload"
WaitForB   == [h \in Handles |-> b]
OneWorker  == [p \in Pools |-> 1]
=============================================================================
