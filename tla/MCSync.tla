-------------------------------- MODULE MCSync --------------------------------
(* Sync for TLC: sync job ids are interchangeable. *)
EXTENDS Sync, TLC

\* status decides only whether an unforced trigger is refused; as a forced one
\* never is, nothing else depends on it, nor on the caller's write of it.
WithoutStatus ==
    <<sourceVars, raw, lastCursor, mode, [s \in Syncs |-> trig[s] = "idle"],
      jobs, workVars, batchVars, history>>

SyncSymmetry == Permutations(Syncs)
=============================================================================
