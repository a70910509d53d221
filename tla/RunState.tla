------------------------------ MODULE RunState ------------------------------
(***************************************************************************)
(* The Task Run status table of coding/run_state.py.  A run is a record;   *)
(* the module only needs its fields `status', `lease' and `lapsed', the    *)
(* last two standing for lease_id and for lease_expires_at being past.     *)
(***************************************************************************)
EXTENDS Naturals

\* control_models.RunStatus.
RunStatus == {"queued", "preparing", "ready", "running", "awaiting_approval",
              "completed", "cancelled", "interrupted", "failed", "recovering"}

TerminalRunStatuses == {"completed", "cancelled", "failed"}

\* The statuses of a run that a computer is executing under a lease.
LeasedStatuses == {"preparing", "ready", "running", "awaiting_approval"}

\* The statuses claim_run hands to a computer.
ClaimableStatuses == {"queued", "recovering"}

\* lease_id is None.
NoLease == 0

AllowedTransitions ==
  [queued            |-> {"preparing", "cancelled", "failed"},
   preparing         |-> {"ready", "cancelled", "failed", "interrupted",
                          "recovering"},
   ready             |-> {"running", "completed", "cancelled", "failed",
                          "recovering"},
   running           |-> {"awaiting_approval", "completed", "ready", "cancelled",
                          "interrupted", "failed", "recovering"},
   awaiting_approval |-> {"running", "ready", "completed", "cancelled",
                          "interrupted", "failed", "recovering"},
   interrupted       |-> {"recovering", "cancelled", "failed"},
   recovering        |-> {"preparing", "ready", "running", "cancelled", "failed"},
   completed         |-> {},
   cancelled         |-> {},
   failed            |-> {"recovering"}]

\* transition_run raises InvalidRunTransition exactly when this is false.
CanTransition(run, target) ==
  target = run.status \/ target \in AllowedTransitions[run.status]

\* Mutant of TransitionRun: a terminal status keeps the lease.
TransitionKeepsLease(run, target) == [run EXCEPT !.status = target]

\* transition_run: a terminal status gives up the lease; re-entering the
\* current status returns before anything is written.
TransitionRun(run, target) ==
  IF target # run.status /\ target \in TerminalRunStatuses
  THEN [run EXCEPT !.status = target, !.lease = NoLease, !.lapsed = FALSE]
  ELSE [run EXCEPT !.status = target]
=============================================================================
