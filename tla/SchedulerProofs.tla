-------------------------- MODULE SchedulerProofs --------------------------
(***************************************************************************)
(* Proofs about Scheduler: its types, and that on a shared database no     *)
(* slot has its turn started twice.                                        *)
(***************************************************************************)
EXTENDS Scheduler, TLAPS

LEMMA RecordingTyped ==
  ASSUME TypeOK, NEW s \in [next: 1..(MaxSlot + 1), enabled: BOOLEAN]
  PROVE  Advance(s) \in [next: 1..(MaxSlot + 1), enabled: BOOLEAN]
<1>1. now \in Nat /\ now + 1 \in 1..(MaxSlot + 1)
  BY SchedulerAssumption DEF TypeOK
<1>2. CASE Once
  BY <1>2 DEF Advance
<1>3. CASE ~Once
  BY <1>1, <1>3 DEF Advance
<1> QED BY <1>2, <1>3

LEMMA ReapedTyped == ASSUME NEW row \in Row PROVE Reaped(row) \in Row
BY DEF Reaped, Row

LEMMA RowEdits ==
  ASSUME TypeOK, NEW i \in RunIds, NEW b \in BOOLEAN
  PROVE  /\ [rows EXCEPT ![i].linked = b] \in [RunIds -> Row]
         /\ [rows EXCEPT ![i].lapsed = b] \in [RunIds -> Row]
<1>1. rows[i] \in Row
  BY DEF TypeOK
<1>2. [rows[i] EXCEPT !.linked = b] \in Row
  BY <1>1 DEF Row
<1>3. [rows[i] EXCEPT !.lapsed = b] \in Row
  BY <1>1 DEF Row
<1> QED BY <1>2, <1>3 DEF TypeOK

LEMMA PollTyped == ASSUME TypeOK, NEW r \in Replicas, Poll(r) PROVE TypeOK'
<1> DEFINE S == [next: 1..(MaxSlot + 1), enabled: BOOLEAN]
           settled == SkipMissed(ReapedSchedule)
<1>1. ReapedSchedule \in S
  BY RecordingTyped DEF TypeOK, ReapedSchedule
<1>2. settled \in S
  BY <1>1, RecordingTyped DEF SkipMissed
<1>3. Advance(settled) \in S
  BY <1>2, RecordingTyped
<1>4. schedule' \in S
  BY <1>2, <1>3 DEF Poll
<1>5. rows' \in [RunIds -> Row]
  BY ReapedTyped DEF Poll, TypeOK
<1>6. polled' \in [Replicas -> Slots \cup {NoSlot}]
  <2>1. settled.next <= now => settled.next \in Slots
    BY <1>2, SchedulerAssumption DEF TypeOK, Slots
  <2>2. \/ polled' = polled
        \/ settled.next <= now /\ polled' = [polled EXCEPT ![r] = settled.next]
    BY DEF Poll
  <2> QED BY <2>1, <2>2 DEF TypeOK
<1>7. UNCHANGED <<now, tasks, turns>>
  BY DEF Poll
<1> QED BY <1>4, <1>5, <1>6, <1>7 DEF TypeOK

LEMMA CreateTyped ==
  ASSUME TypeOK, NEW i \in RunIds, NEW slot \in Slots \cup {NoSlot}, Create(i, slot)
  PROVE  rows' \in [RunIds -> Row] /\ tasks' \in [RunIds -> Task]
BY DEF TypeOK, Create, Row, Task

LEMMA LeaveTyped ==
  ASSUME TypeOK, NEW i \in RunIds,
         NEW at \in {"linked", "turn", "ended", "finishing"},
         NEW end \in {"none", "completed", "failed", "raised", "transient", "cut",
                      "refused", "lost"},
         Leave(i, at, end)
  PROVE  tasks' \in [RunIds -> Task]
<1>1. tasks[i] \in Task
  BY DEF TypeOK
<1> QED BY <1>1 DEF TypeOK, Leave, Task

LEMMA ExecuteTyped == ASSUME TypeOK, NEW i \in RunIds, Execute(i) PROVE TypeOK'
<1>t. tasks[i] \in Task /\ rows[i] \in Row
  BY DEF TypeOK
<1>1. CASE \E end \in {"raised", "transient"} : FailBefore(i, end)
  BY <1>1, LeaveTyped DEF FailBefore, TypeOK
<1>2. CASE Link(i)
  <2>1. tasks' \in [RunIds -> Task]
    BY <1>2, LeaveTyped DEF Link
  <2>2. rows' \in [RunIds -> Row]
    BY ZenonT(60), <1>2, RowEdits DEF Link, TypeOK
  <2> QED BY <1>2, <2>1, <2>2 DEF Link, TypeOK
<1>3. CASE StartTurn(i)
  BY <1>3, LeaveTyped DEF StartTurn, TypeOK
<1>4. CASE RefuseTurn(i)
  <2>1. tasks' \in [RunIds -> Task]
    BY <1>4, LeaveTyped DEF RefuseTurn
  <2>2. rows' \in [RunIds -> Row]
    BY ZenonT(60), <1>4, RowEdits DEF RefuseTurn, TypeOK
  <2> QED BY <1>4, <2>1, <2>2 DEF RefuseTurn, TypeOK
<1>5. CASE \E end \in {"completed", "failed", "raised"} : EndTurn(i, end)
  BY <1>5, LeaveTyped DEF EndTurn, TypeOK
<1>6. CASE Record(i)
  <2>1. tasks' \in [RunIds -> Task]
    <3>1. Consumes(i) \in BOOLEAN
      BY DEF Consumes
    <3> QED BY <3>1, <1>6, <1>t DEF Record, TypeOK, Task
  <2>2. schedule' \in [next: 1..(MaxSlot + 1), enabled: BOOLEAN]
    BY <1>6, RecordingTyped DEF Record, Recorded, TypeOK
  <2> QED BY <1>6, <2>1, <2>2 DEF Record, TypeOK
<1>7. CASE Finish(i)
  <2>1. tasks' \in [RunIds -> Task]
    BY <1>7, <1>t DEF Finish, TypeOK, Task
  <2>2. rows' \in [RunIds -> Row]
    BY <1>7, <1>t DEF Finish, FinalStatus, TypeOK, Row
  <2> QED BY <1>7, <2>1, <2>2 DEF Finish, TypeOK
<1> QED BY <1>1, <1>2, <1>3, <1>4, <1>5, <1>6, <1>7 DEF Execute

LEMMA TypeStep == TypeOK /\ [Next]_vars => TypeOK'
<1> SUFFICES ASSUME TypeOK, [Next]_vars PROVE TypeOK'
  OBVIOUS
<1>1. CASE UNCHANGED vars
  BY <1>1 DEF vars, TypeOK
<1>2. CASE Tick
  BY <1>2, SchedulerAssumption DEF Tick, TypeOK
<1>3. CASE Boot
  <2>1. \A row \in Row : BootReaped(row) \in Row
    BY DEF BootReaped, Row
  <2>2. rows' \in [RunIds -> Row] /\ polled' \in [Replicas -> Slots \cup {NoSlot}]
    BY <1>3, <2>1 DEF Boot, TypeOK
  <2> QED BY <1>3, <2>2 DEF Boot, TypeOK
<1>4. ASSUME NEW b \in BOOLEAN, SetEnabled(b) PROVE TypeOK'
  BY <1>4 DEF SetEnabled, TypeOK
<1>5. ASSUME NEW s \in Slots, Reschedule(s) PROVE TypeOK'
  BY <1>5, SchedulerAssumption DEF Reschedule, TypeOK, Slots
<1>6. ASSUME NEW r \in Replicas, Poll(r) PROVE TypeOK'
  BY <1>6, PollTyped
<1>7. ASSUME NEW r \in Replicas, StartNothing(r) PROVE TypeOK'
  BY <1>7 DEF StartNothing, TypeOK
<1>8. ASSUME NEW r \in Replicas, NEW i \in RunIds, StartRun(r, i) PROVE TypeOK'
  <2>1. polled[r] \in Slots \cup {NoSlot}
    BY DEF TypeOK
  <2>2. rows' \in [RunIds -> Row] /\ tasks' \in [RunIds -> Task]
    BY <1>8, <2>1, CreateTyped DEF StartRun
  <2> QED BY <1>8, <2>2 DEF StartRun, TypeOK
<1>9. ASSUME NEW i \in RunIds, RunNow(i) PROVE TypeOK'
  <2>1. rows' \in [RunIds -> Row] /\ tasks' \in [RunIds -> Task]
    BY <1>9, CreateTyped DEF RunNow
  <2> QED BY <1>9, <2>1 DEF RunNow, TypeOK
<1>10. ASSUME NEW i \in RunIds, RecordFails(i) PROVE TypeOK'
  BY <1>10, LeaveTyped DEF RecordFails, TypeOK
<1>11. ASSUME NEW i \in RunIds, Cut(i) PROVE TypeOK'
  <2>1. tasks' \in [RunIds -> Task]
    BY <1>11, LeaveTyped DEF Cut
  <2>2. schedule' \in [next: 1..(MaxSlot + 1), enabled: BOOLEAN]
    BY <1>11, RecordingTyped DEF Cut, Recorded, TypeOK
  <2> QED BY <1>11, <2>1, <2>2 DEF Cut, TypeOK
<1>12. ASSUME NEW i \in RunIds, RenewLease(i) \/ LeaseLapses(i) \/ DeleteChat(i) PROVE TypeOK'
  <2>1. rows' \in [RunIds -> Row]
    BY <1>12, RowEdits DEF RenewLease, LeaseLapses, DeleteChat
  <2> QED BY <1>12, <2>1 DEF RenewLease, LeaseLapses, DeleteChat, TypeOK
<1>13. ASSUME NEW i \in RunIds, Die(i) PROVE TypeOK'
  <2>1. tasks[i] \in Task
    BY DEF TypeOK
  <2>2. tasks' \in [RunIds -> Task]
    BY <1>13, <2>1 DEF Die, TypeOK, Task
  <2> QED BY <1>13, <2>2 DEF Die, TypeOK
<1> QED
  BY <1>1, <1>2, <1>3, <1>4, <1>5, <1>6, <1>7, <1>8, <1>9, <1>10, <1>11, <1>12, <1>13,
     ExecuteTyped DEF Next

\* Every reachable state is well typed, for any number of replicas, runs and
\* slots: next_run_at in particular never runs more than one slot ahead of the
\* bound, however often polls and late outcomes advance it.
THEOREM SchedulerTyped == Spec => []TypeOK
<1>1. Init => TypeOK
  BY SchedulerAssumption DEF Init, TypeOK, Row, Task
<1> QED BY <1>1, TypeStep, PTL DEF Spec

-----------------------------------------------------------------------------
(* The inductive invariant. *)

\* A run keeps its slot from its insert on: while it may be linked, and, once
\* its turn has started, until a finish that means the turn to be done over.
RunKeepsSlot(i) ==
  /\ tasks[i].at = "created" /\ rows[i].status = "running" =>
       rows[i].slot = tasks[i].slot
  /\ tasks[i].at = "linked" \/ i \in turns => rows[i].linked
  /\ tasks[i].at = "linked" => rows[i].slot = tasks[i].slot
  /\ i \in turns =>
       /\ tasks[i].at \notin {"none", "created", "linked"}
       /\ tasks[i].end \notin {"transient", "refused", "lost"}
       /\ tasks[i].at # "done" \/ ~IsDoneOver(i) => rows[i].slot = tasks[i].slot
  /\ tasks[i].at \in {"ended", "finishing"} => tasks[i].end # "none"
  /\ tasks[i].at = "finishing" /\ tasks[i].end \in {"completed", "failed"} /\ IsCron(i) =>
       tasks[i].consumed

\* uq_schedule_runs_slot.
SlotsUnique ==
  \A i, j \in RunIds : rows[i].slot # NoSlot /\ rows[i].slot = rows[j].slot => i = j

SlotInv == SlotsUnique /\ \A i \in RunIds : RunKeepsSlot(i)

\* What a step leaves alone keeps its slot.
LEMMA Untouched ==
  ASSUME NEW j \in RunIds, RunKeepsSlot(j), tasks'[j] = tasks[j], rows'[j] = rows[j],
         j \in turns' <=> j \in turns
  PROVE  RunKeepsSlot(j)'
BY DEF RunKeepsSlot, IsDoneOver, IsCron

LEMMA LeaveFields ==
  ASSUME TypeOK, NEW i \in RunIds, NEW at, NEW end, Leave(i, at, end)
  PROVE  /\ tasks'[i].at = at /\ tasks'[i].end = end
         /\ tasks'[i].slot = tasks[i].slot /\ tasks'[i].consumed = tasks[i].consumed
         /\ \A j \in RunIds : j # i => tasks'[j] = tasks[j]
<1>1. tasks[i] \in Task
  BY DEF TypeOK
<1> QED BY <1>1 DEF TypeOK, Leave, Task

\* Rows that keep their slot, or lose it, keep the index satisfied.
LEMMA UniqueKept ==
  ASSUME SlotsUnique, \A j \in RunIds : rows'[j].slot \in {rows[j].slot, NoSlot}
  PROVE  SlotsUnique'
BY DEF SlotsUnique, NoSlot

LEMMA LinkKeeps ==
  ASSUME TypeOK, SlotInv, NEW i \in RunIds, Link(i) PROVE SlotInv'
<1>1. rows[i] \in Row
  BY DEF TypeOK
<1>2. /\ rows'[i].slot = rows[i].slot /\ rows'[i].status = rows[i].status
      /\ rows[i].status = "running" => rows'[i].linked
      /\ \A j \in RunIds : j # i => rows'[j] = rows[j]
  BY <1>1 DEF Link, TypeOK, Row
<1>3. SlotsUnique'
  BY <1>2, UniqueKept DEF SlotInv
<1>4. i \notin turns' /\ tasks[i].at = "created"
  BY DEF Link, SlotInv, RunKeepsSlot
<1>5. RunKeepsSlot(i)'
  <2>1. CASE rows[i].status = "running"
    <3>1. Leave(i, "linked", "none")
      BY <2>1 DEF Link
    <3> QED BY <1>2, <1>4, <2>1, <3>1, LeaveFields DEF SlotInv, RunKeepsSlot
  <2>2. CASE rows[i].status # "running"
    <3>1. Leave(i, "finishing", "lost")
      BY <2>2 DEF Link
    <3> QED BY <1>4, <3>1, LeaveFields DEF RunKeepsSlot
  <2> QED BY <2>1, <2>2
<1>6. \A j \in RunIds : j # i => RunKeepsSlot(j)'
  BY <1>2, LeaveFields, Untouched DEF Link, SlotInv
<1> QED BY <1>3, <1>5, <1>6 DEF SlotInv

\* Steps of run i that only leave a place in execute_schedule.
LEMMA LeaveKeeps ==
  ASSUME TypeOK, SlotInv, NEW i \in RunIds, UNCHANGED rows,
         NEW at, NEW end, Leave(i, at, end),
         \/ turns' = turns \cup {i} /\ tasks[i].at = "linked" /\ at = "turn" /\ end = "none"
         \/ /\ UNCHANGED turns
            /\ \/ tasks[i].at = "created" /\ at = "ended" /\ end \in {"raised", "transient"}
               \/ tasks[i].at = "linked" /\ at = "finishing" /\ end = "refused"
               \/ tasks[i].at = "turn" /\ at = "ended" /\ end \in {"completed", "failed", "raised"}
               \/ tasks[i].at = "ended" /\ at = "ended" /\ end = "raised"
               \/ tasks[i].at = "ended" /\ at = "finishing" /\ end = tasks[i].end
                  /\ end \in {"raised", "transient"}
               \/ tasks[i].at \in {"created", "linked", "turn", "ended"}
                  /\ at = "finishing" /\ end = "cut"
  PROVE  SlotInv'
<1>1. SlotsUnique'
  BY UniqueKept DEF SlotInv
<1>2. RunKeepsSlot(i)'
  <2>1. RunKeepsSlot(i)
    BY DEF SlotInv
  <2>2. rows'[i] = rows[i]
    OBVIOUS
  <2>3. /\ tasks'[i].at = at /\ tasks'[i].end = end /\ tasks'[i].slot = tasks[i].slot
    BY LeaveFields
  <2>4. i \in turns \/ tasks[i].at = "linked" =>
          rows[i].linked /\ (tasks[i].at # "done" => rows[i].slot = tasks[i].slot)
    BY <2>1 DEF RunKeepsSlot
  <2> QED BY <2>1, <2>2, <2>3, <2>4 DEF RunKeepsSlot
<1>3. \A j \in RunIds : j # i => RunKeepsSlot(j)'
  BY LeaveFields, Untouched DEF SlotInv
<1> QED BY <1>1, <1>2, <1>3 DEF SlotInv

LEMMA RefuseKeeps ==
  ASSUME TypeOK, SlotInv, NEW i \in RunIds, RefuseTurn(i) PROVE SlotInv'
<1>1. rows[i] \in Row
  BY DEF TypeOK
<1>2. rows'[i].slot = rows[i].slot /\ \A j \in RunIds : j # i => rows'[j] = rows[j]
  BY <1>1 DEF RefuseTurn, TypeOK, Row
<1>3. SlotsUnique'
  BY <1>2, UniqueKept DEF SlotInv
<1>4. i \notin turns'
  BY DEF RefuseTurn, SlotInv, RunKeepsSlot
<1>5. Leave(i, "finishing", "refused")
  BY DEF RefuseTurn
<1>6. RunKeepsSlot(i)'
  BY <1>4, <1>5, LeaveFields DEF RunKeepsSlot
<1>7. \A j \in RunIds : j # i => RunKeepsSlot(j)'
  BY <1>2, <1>5, LeaveFields, Untouched DEF RefuseTurn, SlotInv
<1> QED BY <1>3, <1>6, <1>7 DEF SlotInv

LEMMA RecordKeeps ==
  ASSUME TypeOK, SlotInv, NEW i \in RunIds, Record(i) PROVE SlotInv'
<1>1. tasks[i] \in Task /\ RunKeepsSlot(i)
  BY DEF TypeOK, SlotInv
<1>2. /\ tasks'[i].at = "finishing" /\ tasks'[i].consumed = Consumes(i)
      /\ tasks'[i].slot = tasks[i].slot /\ tasks'[i].end = tasks[i].end
      /\ \A j \in RunIds : j # i => tasks'[j] = tasks[j]
  BY <1>1 DEF Record, TypeOK, Task
<1>3. tasks[i].at = "ended" /\ UNCHANGED <<rows, turns>>
  BY DEF Record
<1>4. SlotsUnique'
  BY <1>3, UniqueKept DEF SlotInv
<1>5. RunKeepsSlot(i)'
  BY <1>1, <1>2, <1>3 DEF RunKeepsSlot, Consumes, IsCron
<1>6. \A j \in RunIds : j # i => RunKeepsSlot(j)'
  BY <1>2, <1>3, Untouched DEF SlotInv
<1> QED BY <1>4, <1>5, <1>6 DEF SlotInv

LEMMA FinishKeeps ==
  ASSUME TypeOK, SlotInv, NEW i \in RunIds, Finish(i) PROVE SlotInv'
<1>1. tasks[i] \in Task /\ rows[i] \in Row /\ RunKeepsSlot(i)
  BY DEF TypeOK, SlotInv
<1>2. /\ tasks'[i].at = "done" /\ tasks'[i].consumed = tasks[i].consumed
      /\ tasks'[i].slot = tasks[i].slot /\ tasks'[i].end = tasks[i].end
      /\ \A j \in RunIds : j # i => tasks'[j] = tasks[j]
  BY <1>1 DEF Finish, TypeOK, Task
<1>3. /\ rows'[i].linked = rows[i].linked
      /\ rows'[i].slot = IF tasks[i].consumed THEN rows[i].slot ELSE NoSlot
      /\ \A j \in RunIds : j # i => rows'[j] = rows[j]
  BY <1>1 DEF Finish, TypeOK, Row
<1>4. tasks[i].at = "finishing" /\ UNCHANGED turns
  BY DEF Finish
<1>5. SlotsUnique'
  BY <1>3, UniqueKept DEF SlotInv
<1>6. RunKeepsSlot(i)'
  <2>1. ASSUME i \in turns, ~IsDoneOver(i)' PROVE rows'[i].slot = tasks'[i].slot
    <3>1. rows[i].slot = tasks[i].slot
      BY <1>1, <1>4, <2>1 DEF RunKeepsSlot
    <3>2. CASE tasks[i].consumed
      BY <1>2, <1>3, <3>1, <3>2
    <3>3. CASE ~tasks[i].consumed
      <4>1. tasks[i].end \notin {"cut", "raised"}
        BY <1>2, <2>1, <3>3 DEF IsDoneOver
      <4>2. tasks[i].end \in {"completed", "failed"}
        BY <4>1, <1>1, <1>4, <2>1 DEF RunKeepsSlot, Task
      <4>3. tasks[i].slot = NoSlot
        BY <4>2, <1>1, <1>4, <3>3 DEF RunKeepsSlot, IsCron
      <4> QED BY <4>3, <1>2, <1>3, <3>3
    <3> QED BY <3>2, <3>3
  <2> QED BY <1>1, <1>2, <1>3, <1>4, <2>1 DEF RunKeepsSlot
<1>7. \A j \in RunIds : j # i => RunKeepsSlot(j)'
  BY <1>2, <1>3, <1>4, Untouched DEF SlotInv
<1> QED BY <1>5, <1>6, <1>7 DEF SlotInv

LEMMA CreateKeeps ==
  ASSUME TypeOK, SlotInv, NEW i \in RunIds, NEW slot \in Slots \cup {NoSlot},
         Create(i, slot), UNCHANGED turns, slot = NoSlot \/ ~IsClaimed(slot)
  PROVE  SlotInv'
<1>1. tasks[i].at = "none"
  BY DEF Create, RunIds
<1>2. /\ rows'[i].slot = slot /\ tasks'[i].slot = slot /\ tasks'[i].at = "created"
      /\ \A j \in RunIds : j # i => rows'[j] = rows[j] /\ tasks'[j] = tasks[j]
  BY DEF Create, TypeOK
<1>3. SlotsUnique'
  <2> SUFFICES ASSUME NEW j \in RunIds, NEW k \in RunIds,
                      rows'[j].slot # NoSlot, rows'[j].slot = rows'[k].slot
               PROVE  j = k
    BY DEF SlotsUnique, NoSlot
  <2>1. CASE j # i /\ k # i
    BY <2>1, <1>2 DEF SlotInv, SlotsUnique
  <2>2. CASE (j = i \/ k = i) /\ j # k
    <3>1. slot # NoSlot /\ IsClaimed(slot)
      BY <2>2, <1>2 DEF IsClaimed
    <3> QED BY <3>1
  <2> QED BY <2>1, <2>2
<1>4. RunKeepsSlot(i)'
  <2>1. i \notin turns
    BY <1>1 DEF SlotInv, RunKeepsSlot
  <2> QED BY <2>1, <1>2 DEF RunKeepsSlot
<1>5. \A j \in RunIds : j # i => RunKeepsSlot(j)'
  BY <1>2, Untouched DEF SlotInv
<1> QED BY <1>3, <1>4, <1>5 DEF SlotInv

LEMMA PollKeeps ==
  ASSUME TypeOK, SlotInv, NEW r \in Replicas, Poll(r) PROVE SlotInv'
<1>1. \A j \in RunIds : rows'[j] = IF j \in Lapsed THEN Reaped(rows[j]) ELSE rows[j]
  BY DEF Poll
<1>2. ASSUME NEW j \in RunIds, j \in Lapsed
      PROVE  /\ rows'[j].status = "failed" /\ rows'[j].linked = rows[j].linked
             /\ rows'[j].slot = IF rows[j].linked THEN rows[j].slot ELSE NoSlot
  <2>1. rows[j] \in Row
    BY DEF TypeOK
  <2> QED BY <1>1, <1>2, <2>1 DEF Reaped, Row
<1>3. SlotsUnique'
  <2>1. \A j \in RunIds : rows'[j].slot \in {rows[j].slot, NoSlot}
    BY <1>1, <1>2
  <2> QED BY <2>1, UniqueKept DEF SlotInv
<1>4. UNCHANGED <<tasks, turns>>
  BY DEF Poll
<1>5. ASSUME NEW j \in RunIds PROVE RunKeepsSlot(j)'
  <2>1. RunKeepsSlot(j)
    BY DEF SlotInv
  <2>2. CASE j \in Lapsed
    BY <1>2, <1>4, <2>1, <2>2 DEF RunKeepsSlot, IsDoneOver, IsCron
  <2>3. CASE j \notin Lapsed
    BY <1>1, <1>4, <2>1, <2>3, Untouched
  <2> QED BY <2>2, <2>3
<1> QED BY <1>3, <1>5 DEF SlotInv

LEMMA LeaseKeeps ==
  ASSUME TypeOK, SlotInv, NEW i \in RunIds, RenewLease(i) \/ LeaseLapses(i)
  PROVE  SlotInv'
<1>1. rows[i] \in Row /\ RunKeepsSlot(i)
  BY DEF TypeOK, SlotInv
<1>2. /\ rows'[i].slot = rows[i].slot /\ rows'[i].status = rows[i].status
      /\ rows'[i].linked = rows[i].linked
      /\ \A j \in RunIds : j # i => rows'[j] = rows[j]
  BY <1>1 DEF RenewLease, LeaseLapses, TypeOK, Row
<1>3. UNCHANGED <<tasks, turns>>
  BY DEF RenewLease, LeaseLapses
<1>4. SlotsUnique'
  BY <1>2, UniqueKept DEF SlotInv
<1>5. RunKeepsSlot(i)'
  BY <1>1, <1>2, <1>3 DEF RunKeepsSlot, IsDoneOver, IsCron
<1>6. \A j \in RunIds : j # i => RunKeepsSlot(j)'
  BY <1>2, <1>3, Untouched DEF SlotInv
<1> QED BY <1>4, <1>5, <1>6 DEF SlotInv

LEMMA DieKeeps ==
  ASSUME TypeOK, SlotInv, NEW i \in RunIds, Die(i) PROVE SlotInv'
<1>1. tasks[i] \in Task /\ RunKeepsSlot(i)
  BY DEF TypeOK, SlotInv
<1>2. /\ tasks'[i].at = "dead" /\ tasks'[i].slot = tasks[i].slot
      /\ tasks'[i].end = tasks[i].end
      /\ \A j \in RunIds : j # i => tasks'[j] = tasks[j]
  BY <1>1 DEF Die, TypeOK, Task
<1>3. UNCHANGED <<rows, turns>> /\ tasks[i].at # "done"
  BY DEF Die, IsLive
<1>4. SlotsUnique'
  BY <1>3, UniqueKept DEF SlotInv
<1>5. RunKeepsSlot(i)'
  BY <1>1, <1>2, <1>3 DEF RunKeepsSlot
<1>6. \A j \in RunIds : j # i => RunKeepsSlot(j)'
  BY <1>2, <1>3, Untouched DEF SlotInv
<1> QED BY <1>4, <1>5, <1>6 DEF SlotInv

\* Steps that touch neither rows, nor runs, nor turns.
LEMMA ScheduleKeeps == ASSUME SlotInv, UNCHANGED <<rows, tasks, turns>> PROVE SlotInv'
BY UniqueKept, Untouched DEF SlotInv

LEMMA SlotStep ==
  ASSUME ~Desktop, ~Deletes, TypeOK, SlotInv, [Next]_vars PROVE SlotInv'
<1>1. CASE UNCHANGED vars
  BY <1>1, ScheduleKeeps DEF vars
<1>2. CASE Tick
  BY <1>2, ScheduleKeeps DEF Tick
<1>3. ~Boot /\ \A i \in RunIds : ~DeleteChat(i)
  BY DEF Boot, DeleteChat
<1>4. ASSUME NEW b \in BOOLEAN, SetEnabled(b) PROVE SlotInv'
  BY <1>4, ScheduleKeeps DEF SetEnabled
<1>5. ASSUME NEW s \in Slots, Reschedule(s) PROVE SlotInv'
  BY <1>5, ScheduleKeeps DEF Reschedule
<1>6. ASSUME NEW r \in Replicas, StartNothing(r) PROVE SlotInv'
  BY <1>6, ScheduleKeeps DEF StartNothing
<1>7. ASSUME NEW r \in Replicas, NEW i \in RunIds, StartRun(r, i) PROVE SlotInv'
  <2>1. polled[r] \in Slots \cup {NoSlot}
    BY DEF TypeOK
  <2> QED BY <1>7, <2>1, CreateKeeps DEF StartRun
<1>8. ASSUME NEW i \in RunIds, RunNow(i) PROVE SlotInv'
  BY <1>8, CreateKeeps DEF RunNow
<1>9. ASSUME NEW i \in RunIds, Execute(i) PROVE SlotInv'
  <2>1. ASSUME NEW end \in {"raised", "transient"}, FailBefore(i, end) PROVE SlotInv'
    BY <2>1, LeaveKeeps DEF FailBefore
  <2>2. CASE StartTurn(i)
    BY <2>2, LeaveKeeps DEF StartTurn
  <2>3. ASSUME NEW end \in {"completed", "failed", "raised"}, EndTurn(i, end) PROVE SlotInv'
    BY <2>3, LeaveKeeps DEF EndTurn
  <2> QED
    BY <1>9, <2>1, <2>2, <2>3, LinkKeeps, RefuseKeeps, RecordKeeps, FinishKeeps DEF Execute
<1>10. ASSUME NEW i \in RunIds, RecordFails(i) PROVE SlotInv'
  <2>1. CASE tasks[i].end \in {"raised", "transient"}
    BY <1>10, <2>1, LeaveKeeps DEF RecordFails
  <2>2. CASE tasks[i].end \notin {"raised", "transient"}
    BY <1>10, <2>2, LeaveKeeps DEF RecordFails
  <2> QED BY <2>1, <2>2
<1>11. ASSUME NEW i \in RunIds, Cut(i) PROVE SlotInv'
  BY <1>11, LeaveKeeps DEF Cut
<1> QED
  BY <1>1, <1>2, <1>3, <1>4, <1>5, <1>6, <1>7, <1>8, <1>9, <1>10, <1>11,
     PollKeeps, LeaseKeeps, DieKeeps DEF Next

\* On a shared database, and while nobody deletes the chat of a running run,
\* no slot has its turn started twice: any number of replicas may find it due
\* together, and their runs die, stall past their lease, or come back late at
\* any step (create_run's index, set_run_conversation, reap_lapsed_runs).
THEOREM SlotsFireOnce ==
  ASSUME ~Desktop, ~Deletes
  PROVE  Spec => []OneTurnPerSlot
<1>1. Init => SlotInv
  BY DEF Init, SlotInv, SlotsUnique, RunKeepsSlot
<1>2. TypeOK /\ SlotInv /\ [Next]_vars => SlotInv'
  BY SlotStep
<1>3. TypeOK /\ SlotInv => OneTurnPerSlot
  <2> SUFFICES ASSUME TypeOK, SlotInv, NEW i \in turns, NEW j \in turns,
                      IsCron(i), tasks[i].slot = tasks[j].slot,
                      ~IsDoneOver(i), ~IsDoneOver(j)
               PROVE  i = j
    BY DEF OneTurnPerSlot
  <2>1. i \in RunIds /\ j \in RunIds
    BY DEF TypeOK
  <2>2. rows[i].slot = tasks[i].slot /\ rows[j].slot = tasks[j].slot
    BY <2>1 DEF SlotInv, RunKeepsSlot
  <2> QED BY <2>1, <2>2 DEF SlotInv, SlotsUnique, IsCron
<1> QED BY <1>1, <1>2, <1>3, SchedulerTyped, PTL DEF Spec
=============================================================================
