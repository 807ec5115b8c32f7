---------------------------- MODULE MCPipelineRun ----------------------------
(***************************************************************************)
(* An instance of PipelineRun for TLC: one run whose job is redelivered to *)
(* several service instances.  KeyBits is 2: keys 0 and 1 fit a signed     *)
(* integer of that width, keys 2 and 3 would not.                          *)
(***************************************************************************)
EXTENDS PipelineRun, TLC

CONSTANTS r1, p1, p2

\* A single run, whose redelivered job contends with itself.
SoloRun == r1 :> p1

FittingKeys == (p1 :> 0) @@ (p2 :> 1)

Instances == Permutations(Workers)
=============================================================================
