------------------------------ MODULE Scheduler ------------------------------
(***************************************************************************)
(* One schedule and the replicas that poll it (scheduler.py,               *)
(* services/schedules.py, models/schedule.py).  Each database unit is one  *)
(* step: a poll, the insert that claims a slot, the link to the run's      *)
(* conversation, the turn's outcome, the run's finish.                     *)
(*                                                                         *)
(* The slots of the schedule are numbered; `now' is the last one that has  *)
(* come, and a tick is longer than the catch-up window of a one-off.  The  *)
(* schedule is not deleted and its row can be resolved to an identity.  On *)
(* a shared database the boot reap only takes runs it presumes dead, which *)
(* the polls' reap has long taken; it is left out there.                   *)
(***************************************************************************)
EXTENDS Naturals, FiniteSets

CONSTANTS
  Replicas,
  MaxRuns,        \* bound on the runs
  MaxSlot,        \* bound on the slots
  Once,           \* the schedule is a one-off
  Desktop,        \* one process, which reaps every running run when it boots
  Deletes,        \* whether users delete the chat of a run
  Edits           \* whether users pause, resume and reschedule

ASSUME SchedulerAssumption ==
  /\ {MaxRuns, MaxSlot} \subseteq Nat \ {0}
  /\ {Once, Desktop, Deletes, Edits} \subseteq BOOLEAN
  /\ Desktop => Cardinality(Replicas) = 1

VARIABLES
  now,
  schedule,   \* next_run_at and enabled
  rows,       \* the schedule_runs table
  tasks,      \* the execute_schedule call of each run
  polled,     \* the slot a replica's poll found due and has not started
  turns       \* history: the runs whose turn was started

vars == <<now, schedule, rows, tasks, polled, turns>>

RunIds == 1..MaxRuns

Slots == 1..MaxSlot

\* slot_at is NULL.
NoSlot == 0

\* ScheduleRun; `lapsed' is a lease_expires_at in the past, `linked' a
\* conversation_id.  A cancelled turn is a failed one.
Row == [status: {"none", "running", "success", "failed"},
        slot: Slots \cup {NoSlot}, linked: BOOLEAN, lapsed: BOOLEAN]

\* The locals of execute_schedule; `end' is how its try block was left.
Task == [at: {"none", "created", "linked", "turn", "ended", "finishing", "done",
              "dead"},
         slot: Slots \cup {NoSlot}, consumed: BOOLEAN,
         end: {"none", "completed", "failed", "raised", "transient", "cut",
               "refused", "lost"}]

IsCron(i) == tasks[i].slot # NoSlot

\* The process of the run is in execute_schedule.
IsLive(i) == tasks[i].at \notin {"none", "done", "dead"}

-----------------------------------------------------------------------------
(* The schedule. *)

\* Mutant of Advance: one occurrence on, whatever the time.
AdvanceByOne(s) ==
  IF Once THEN [s EXCEPT !.enabled = FALSE] ELSE [s EXCEPT !.next = @ + 1]

\* _advance_next_run_at.
Advance(s) ==
  IF Once THEN [s EXCEPT !.enabled = FALSE]
  ELSE IF s.next <= now THEN [s EXCEPT !.next = now + 1]
  ELSE s

\* _handle_missed_runs: more than one slot has passed.
SkipMissed(s) == IF s.enabled /\ s.next < now THEN Advance(s) ELSE s

Tick ==
  /\ now < MaxSlot
  /\ now' = now + 1
  /\ UNCHANGED <<schedule, rows, tasks, polled, turns>>

\* pause_schedule and resume_schedule.
SetEnabled(b) ==
  /\ Edits
  /\ schedule' = [schedule EXCEPT !.enabled = b]
  /\ UNCHANGED <<now, rows, tasks, polled, turns>>

\* update_schedule with another next_run_at.
Reschedule(s) ==
  /\ Edits
  /\ schedule' = [schedule EXCEPT !.next = s]
  /\ UNCHANGED <<now, rows, tasks, polled, turns>>

-----------------------------------------------------------------------------
(* Polls. *)

\* Mutant of Lapsed: runs that have their conversation are not looked at.
LapsedUnlinked ==
  {i \in RunIds : rows[i].status = "running" /\ rows[i].lapsed /\ ~rows[i].linked}

Lapsed == {i \in RunIds : rows[i].status = "running" /\ rows[i].lapsed}

\* reap_lapsed_runs: a run without a conversation gives its slot back.
Reaped(row) ==
  [row EXCEPT !.status = "failed", !.lapsed = FALSE,
              !.slot = IF row.linked THEN @ ELSE NoSlot]

\* _reap_lapsed_runs: the slot of a run with a conversation is consumed.
ReapedSchedule ==
  IF \E i \in Lapsed : /\ rows[i].linked
                       /\ rows[i].slot = schedule.next
  THEN Advance(schedule)
  ELSE schedule

\* _ran_recently: a run that succeeded may be within the freshness window.
RanRecently(recent) == recent => \E i \in RunIds : rows[i].status = "success"

\* _poll: reap, settle missed slots, find the slot that is due.
Poll(r) ==
  LET swept   == [i \in RunIds |-> IF i \in Lapsed THEN Reaped(rows[i]) ELSE rows[i]]
      settled == SkipMissed(ReapedSchedule)
      due     == /\ settled.enabled
                 /\ settled.next <= now
                 /\ \A i \in RunIds : swept[i].status # "running"
  IN  /\ rows' = swept
      /\ \E recent \in BOOLEAN :
           /\ RanRecently(recent)
           /\ schedule' = IF due /\ recent THEN Advance(settled) ELSE settled
           /\ polled' = IF due /\ ~recent THEN [polled EXCEPT ![r] = settled.next]
                        ELSE polled
      /\ UNCHANGED <<now, tasks, turns>>

-----------------------------------------------------------------------------
(* execute_schedule. *)

\* A row and its task are made; i is the next id.
Create(i, slot) ==
  /\ \A j \in RunIds : j < i <=> tasks[j].at # "none"
  /\ rows' = [rows EXCEPT ![i] = [status |-> "running", slot |-> slot,
                                  linked |-> FALSE, lapsed |-> FALSE]]
  /\ tasks' = [tasks EXCEPT ![i] = [at |-> "created", slot |-> slot,
                                    consumed |-> FALSE, end |-> "none"]]

\* uq_schedule_runs_slot refuses the slot.
IsClaimed(slot) == \E i \in RunIds : rows[i].slot = slot

\* The run a poll found due: create_run claims its slot.
StartRun(r, i) ==
  /\ polled[r] # NoSlot
  /\ ~IsClaimed(polled[r])
  /\ Create(i, polled[r])
  /\ polled' = [polled EXCEPT ![r] = NoSlot]
  /\ UNCHANGED <<now, schedule, turns>>

\* ... or is refused by the index, or by a full pool.
StartNothing(r) ==
  /\ polled[r] # NoSlot
  /\ polled' = [polled EXCEPT ![r] = NoSlot]
  /\ UNCHANGED <<now, schedule, rows, tasks, turns>>

\* run_schedule_now.
RunNow(i) ==
  /\ Create(i, NoSlot)
  /\ UNCHANGED <<now, schedule, polled, turns>>

\* The try block of run i is left.
Leave(i, at, end) == tasks' = [tasks EXCEPT ![i].at = at, ![i].end = end]

\* Reading the schedule or the permission check fails, for good or for now.
FailBefore(i, end) ==
  /\ tasks[i].at = "created"
  /\ Leave(i, "ended", end)
  /\ UNCHANGED <<now, schedule, rows, polled, turns>>

\* Mutant of Link: the run is not checked to be still running.
LinkAnyRun(i) ==
  /\ tasks[i].at = "created"
  /\ rows' = [rows EXCEPT ![i].linked = TRUE]
  /\ Leave(i, "linked", "none")
  /\ UNCHANGED <<now, schedule, polled, turns>>

\* _link_conversation: only a run that is still `running' gets its turn.
Link(i) ==
  /\ tasks[i].at = "created"
  /\ \/ /\ rows[i].status = "running"
        /\ rows' = [rows EXCEPT ![i].linked = TRUE]
        /\ Leave(i, "linked", "none")
     \/ /\ rows[i].status # "running"
        /\ Leave(i, "finishing", "lost")
        /\ UNCHANGED rows
  /\ UNCHANGED <<now, schedule, polled, turns>>

StartTurn(i) ==
  /\ tasks[i].at = "linked"
  /\ Leave(i, "turn", "none")
  /\ turns' = turns \cup {i}
  /\ UNCHANGED <<now, schedule, rows, polled>>

\* ServerShuttingDown: the conversation made for a cron run is deleted too,
\* unless that fails.
RefuseTurn(i) ==
  /\ tasks[i].at = "linked"
  /\ Leave(i, "finishing", "refused")
  /\ \/ IsCron(i) /\ rows' = [rows EXCEPT ![i].linked = FALSE]
     \/ UNCHANGED rows
  /\ UNCHANGED <<now, schedule, polled, turns>>

\* The stream is drained and says how the turn ended, or the turn raises.
EndTurn(i, end) ==
  /\ tasks[i].at = "turn"
  /\ Leave(i, "ended", end)
  /\ UNCHANGED <<now, schedule, rows, polled, turns>>

\* Whether the end of run i consumes its slot: _record_turn_outcome always
\* does, _record_schedule_error unless the schedule is paused.
Consumes(i) ==
  /\ IsCron(i)
  /\ \/ tasks[i].end \in {"completed", "failed"}
     \/ tasks[i].end = "raised" /\ schedule.enabled

Recorded(i) == IF Consumes(i) THEN Advance(schedule) ELSE schedule

\* _record_turn_outcome and _record_schedule_error.
Record(i) ==
  /\ tasks[i].at = "ended"
  /\ schedule' = Recorded(i)
  /\ tasks' = [tasks EXCEPT ![i].at = "finishing", ![i].consumed = Consumes(i)]
  /\ UNCHANGED <<now, rows, polled, turns>>

\* The record does not land before its deadline: an outcome becomes an error
\* to record, an error is given up.
RecordFails(i) ==
  /\ tasks[i].at = "ended"
  /\ IF tasks[i].end \in {"raised", "transient"}
     THEN Leave(i, "finishing", tasks[i].end)
     ELSE Leave(i, "ended", "raised")
  /\ UNCHANGED <<now, schedule, rows, polled, turns>>

\* CancelledError: a shutdown cuts the run.  A record that is being written is
\* written first (run_db), and the run does not come to know.
Cut(i) ==
  /\ tasks[i].at \in {"created", "linked", "turn", "ended"}
  /\ \/ tasks[i].at = "ended" /\ schedule' = Recorded(i)
     \/ UNCHANGED schedule
  /\ Leave(i, "finishing", "cut")
  /\ UNCHANGED <<now, rows, polled, turns>>

FinalStatus(end) == IF end = "completed" THEN "success" ELSE "failed"

\* Mutant of Finish: the slot is not given back.
FinishKeepsSlot(i) ==
  /\ tasks[i].at = "finishing"
  /\ rows' = [rows EXCEPT
       ![i].status = FinalStatus(tasks[i].end), ![i].lapsed = FALSE]
  /\ tasks' = [tasks EXCEPT ![i].at = "done"]
  /\ UNCHANGED <<now, schedule, polled, turns>>

\* finish_run: a run that leaves its slot due gives it back.
Finish(i) ==
  /\ tasks[i].at = "finishing"
  /\ rows' = [rows EXCEPT
       ![i].status = FinalStatus(tasks[i].end), ![i].lapsed = FALSE,
       ![i].slot = IF tasks[i].consumed THEN @ ELSE NoSlot]
  /\ tasks' = [tasks EXCEPT ![i].at = "done"]
  /\ UNCHANGED <<now, schedule, polled, turns>>

\* _renew_lease, which the run's process does as long as the run lives.
RenewLease(i) ==
  /\ tasks[i].at \in {"created", "linked", "turn", "ended"}
  /\ rows[i].status = "running" /\ rows[i].lapsed
  /\ rows' = [rows EXCEPT ![i].lapsed = FALSE]
  /\ UNCHANGED <<now, schedule, tasks, polled, turns>>

\* The lease runs out: the process is dead, or is kept from renewing.
LeaseLapses(i) ==
  /\ rows[i].status = "running" /\ ~rows[i].lapsed
  /\ rows' = [rows EXCEPT ![i].lapsed = TRUE]
  /\ UNCHANGED <<now, schedule, tasks, polled, turns>>

\* release_conversation: the user deletes the chat of a run (nothing here
\* reads the link of a finished one).
DeleteChat(i) ==
  /\ Deletes
  /\ rows[i].status = "running" /\ rows[i].linked
  /\ rows' = [rows EXCEPT ![i].linked = FALSE]
  /\ UNCHANGED <<now, schedule, tasks, polled, turns>>

\* reap_orphaned_runs, before a desktop server polls.
BootReaped(row) ==
  IF row.status = "running"
  THEN [row EXCEPT !.status = "failed", !.lapsed = FALSE, !.slot = NoSlot]
  ELSE row

\* The process of run i stops dead (of several runs, one after the other), or
\* gives up on the run's finish when its deadline passes.
Die(i) ==
  /\ IsLive(i)
  /\ tasks' = [tasks EXCEPT ![i].at = "dead"]
  /\ UNCHANGED <<now, schedule, rows, polled, turns>>

\* The desktop server starts again: nothing of the last one is alive.
Boot ==
  /\ Desktop
  /\ \A i \in RunIds : ~IsLive(i)
  /\ rows' = [i \in RunIds |-> BootReaped(rows[i])]
  /\ polled' = [r \in Replicas |-> NoSlot]
  /\ UNCHANGED <<now, schedule, tasks, turns>>

-----------------------------------------------------------------------------
Init ==
  /\ now = 0
  /\ schedule = [next |-> 1, enabled |-> TRUE]
  /\ rows = [i \in RunIds |-> [status |-> "none", slot |-> NoSlot,
                               linked |-> FALSE, lapsed |-> FALSE]]
  /\ tasks = [i \in RunIds |-> [at |-> "none", slot |-> NoSlot,
                                consumed |-> FALSE, end |-> "none"]]
  /\ polled = [r \in Replicas |-> NoSlot]
  /\ turns = {}

\* A step of run i's process.
Execute(i) ==
  \/ \E end \in {"raised", "transient"} : FailBefore(i, end)
  \/ Link(i) \/ StartTurn(i) \/ RefuseTurn(i)
  \/ \E end \in {"completed", "failed", "raised"} : EndTurn(i, end)
  \/ Record(i) \/ Finish(i)

Next ==
  \/ Tick \/ Boot
  \/ \E b \in BOOLEAN : SetEnabled(b)
  \/ \E s \in Slots : Reschedule(s)
  \/ \E r \in Replicas : \/ Poll(r) \/ StartNothing(r)
                         \/ \E i \in RunIds : StartRun(r, i)
  \/ \E i \in RunIds : \/ RunNow(i) \/ Execute(i) \/ RecordFails(i) \/ Cut(i)
                       \/ RenewLease(i) \/ LeaseLapses(i) \/ DeleteChat(i)
                       \/ Die(i)

Spec == Init /\ [][Next]_vars

\* Every replica keeps polling, a run's process goes on until it dies, the
\* lease of a dead one runs out, and a pool is not full at every start.
Fairness ==
  /\ \A r \in Replicas : /\ WF_vars(Poll(r))
                         /\ SF_vars(\E i \in RunIds : StartRun(r, i))
  /\ \A i \in RunIds : WF_vars(Execute(i) \/ (~IsLive(i) /\ LeaseLapses(i)))

FairSpec == Spec /\ Fairness

-----------------------------------------------------------------------------
\* Every variable has its type.
TypeOK ==
  /\ now \in 0..MaxSlot
  /\ schedule \in [next: 1..(MaxSlot + 1), enabled: BOOLEAN]
  /\ rows \in [RunIds -> Row]
  /\ tasks \in [RunIds -> Task]
  /\ polled \in [Replicas -> Slots \cup {NoSlot}]
  /\ turns \subseteq RunIds

\* A turn the code means to do over: cut by a shutdown, or one that raised
\* while the schedule was paused or whose error could not be recorded.
IsDoneOver(i) ==
  \/ tasks[i].end = "cut"
  \/ tasks[i].end = "raised" /\ tasks[i].at \in {"finishing", "done"}
       /\ ~tasks[i].consumed

\* "A restart neither skips nor repeats a fire": whatever replicas poll
\* together, die, stall past their lease or come back late, no slot has its
\* turn started twice (create_run's index, set_run_conversation,
\* reap_lapsed_runs, finish_run).
OneTurnPerSlot ==
  \A i, j \in turns :
    /\ IsCron(i) /\ tasks[i].slot = tasks[j].slot
    /\ ~IsDoneOver(i) /\ ~IsDoneOver(j)
    => i = j

\* A run never stays `running' and wedges its schedule: whoever runs it
\* finishes it, or a replica's poll reaps it (_reap_lapsed_runs).
RunsEnd == \A i \in RunIds : []<>(rows[i].status # "running")

IsDue == schedule.enabled /\ schedule.next <= now

\* A slot that has come due does not stay due: it is fired and consumed, or
\* skipped, whatever dies on the way and whoever gives it back, as long as
\* there are runs to try with (_poll, create_run, _record_turn_outcome).
SlotsSettle == []<>(~IsDue \/ \A i \in RunIds : tasks[i].at # "none")
=============================================================================
