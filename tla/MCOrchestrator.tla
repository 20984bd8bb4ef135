--------------------------- MODULE MCOrchestrator ---------------------------
(* Small instances of the orchestrator and its refinement for TLC.         *)
EXTENDS ExecutionRefinement, TLC

MCResult(status, cause, pending) ==
  [status |-> status, cause |-> cause, pending |-> pending]

Completed   == MCResult("success", "none", FALSE)
Partial     == MCResult("success", "none", TRUE)
Interrupted == MCResult("failed", "interrupted", TRUE)
Failed      == MCResult("failed", "none", FALSE)
Cancelled   == MCResult("cancelled", "none", FALSE)
TooLate     == MCResult("failed", "deadline_exceeded", FALSE)

AllResults     == {Completed, Partial, Interrupted, Failed, Cancelled, TooLate}
EndOrInterrupt == {Completed, Interrupted}
FourResults    == {Completed, Partial, Interrupted, Failed}

DeadlineOrNot == {NoDeadline, 1}
OneDeadline   == {1}
None          == {NoDeadline}

ExecutionSymmetry == Permutations(Execution)
=============================================================================
