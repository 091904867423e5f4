------------------------------ MODULE MCDebugPod ------------------------------
(***************************************************************************)
(* Instances of DebugPod for TLC: which kind each run is.  All runs share  *)
(* one key, as two runs of the same command do by default and any two runs *)
(* may with --source-debug-pod or --debug-pod.                             *)
(***************************************************************************)
EXTENDS DebugPod, TLC

CONSTANTS r1, r2, k1

MCKindService == r1 :> "service" @@ r2 :> "egress"
MCKindGateway == r1 :> "gateway" @@ r2 :> "service"
MCOneKey == r1 :> k1 @@ r2 :> k1

\* No instance creates more pods: one for each of two runs and a foreign one.
MCMaxUid == 3
MCLeftoverCleared == \A u \in 1..MCMaxUid : LeftoverCleared(u)
===============================================================================
