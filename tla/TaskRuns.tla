------------------------------ MODULE TaskRuns ------------------------------
(***************************************************************************)
(* The core of the Code control plane: Task Runs, their leases and epochs, *)
(* the fenced events a runtime publishes, expiry, recovery and             *)
(* reassignment (coding/control_service.py, run_recovery.py,               *)
(* control_store.py and the parts of remote_execution.py that call them).  *)
(*                                                                         *)
(* Every operation below holds ControlPlaneService._lock or the lock of    *)
(* update_run for its whole effect on a run, so each is one step.  The     *)
(* runtimes and the network are the environment: a runtime may publish any *)
(* event under any lease it was ever handed, and a published event may be  *)
(* delivered late, again, out of order or never.                           *)
(*                                                                         *)
(* Clocks are abstracted to what the code compares them with: a lease is   *)
(* `lapsed' once lease_expires_at is past, an online computer `silent'     *)
(* once its last_seen_at is older than _OFFLINE_AFTER.  The run count a    *)
(* heartbeat reports is left out: it can only make a computer ineligible   *)
(* that the control plane's own count admits.                              *)
(***************************************************************************)
EXTENDS RunState, Sequences, FiniteSets

CONSTANTS
  Runs, Tasks, Computers,
  Local,          \* the computer of the control plane itself
  TaskOf,         \* the task a run belongs to
  Portable,       \* tasks made only of repositories that have a clone URL
  Home,           \* the one computer that reaches every resource of the others
  Kinds,          \* the event kinds runtimes publish
  MaxConcurrentRuns,
  MaxEpoch, MaxSeq, MaxLeases,  \* bounds on unbounded counters
  MaxRequests     \* bound on the resume requests in progress

ASSUME ConstantsAssumption ==
  /\ IsFiniteSet(Runs)
  /\ Local \in Computers
  /\ TaskOf \in [Runs -> Tasks]
  /\ Portable \subseteq Tasks
  /\ Home \in [Tasks -> Computers]

ASSUME BoundsAssumption ==
  /\ MaxConcurrentRuns \in Nat \ {0}
  /\ {MaxEpoch, MaxSeq, MaxLeases, MaxRequests} \subseteq Nat

\* Status events carry the status they report; "event" and "approval" change
\* nothing in a run that a checkpoint does not.
ASSUME KindsAssumption ==
  Kinds \subseteq {"ready", "running", "awaiting_approval", "completed",
                   "turn_completed", "error", "checkpoint", "workspace"}

VARIABLES
  computers,   \* the status of each Computer
  runs,        \* TaskRun records
  workspaces,  \* the ExecutionWorkspace claims of each run
  resuming,    \* resume requests that passed their checks and are not applied
  leaseCount,  \* the leases generated so far; the n-th has id n
  grants,      \* history: every lease handed to a runtime
  published,   \* every event a runtime has put on the network
  log,         \* history: the events applied to each run, in order
  acked        \* history: the events acknowledged to their runtime

vars == <<computers, runs, workspaces, resuming, leaseCount, grants, published,
          log, acked>>

ComputerStatus == {"online", "silent", "offline"}

NoEventId == <<NoLease, 0>>

Run == [status: RunStatus, computer: Computers, epoch: Nat \ {0}, lease: Nat,
        lapsed: BOOLEAN, seq: Nat, id: Nat \X Nat,
        mode: {"prepare", "restore", "recreate"}, created: Nat]

Workspace == [status: {"pending", "ready", "released"}, computer: Computers]

Grant == [run: Runs, computer: Computers, epoch: Nat \ {0}, lease: Nat]

Event == [run: Runs, computer: Computers, epoch: Nat \ {0}, lease: Nat, seq: Nat,
          kind: Kinds]

\* A sequence number is consumed even when its delivery fails, so a lease and
\* a number name one event as its uuid does.
EventId(e) == <<e.lease, e.seq>>

Exists(r) == runs[r].created > 0

IsRemote(r) == runs[r].computer # Local

Remote == Computers \ {Local}

-----------------------------------------------------------------------------
(* Computers. *)

ActiveCount(c) ==
  Cardinality({r \in Runs : /\ Exists(r)
                            /\ runs[r].computer = c
                            /\ runs[r].status \in {"preparing", "running",
                                    "awaiting_approval", "recovering"}})

\* expire_stale_computers.
ExpireStaleComputers ==
  [c \in Computers |-> IF computers[c] = "silent" THEN "offline" ELSE computers[c]]

\* The record says online, whether or not the computer still is.
IsOnline(c) == computers[c] # "offline"

\* _resource_eligible for every resource of the task.
Reaches(c, t) == t \in Portable \/ Home[t] = c

\* eligible_computers lists the computers first, which keeps this computer
\* online and marks the silent ones offline.
Eligible(c, t) ==
  /\ ExpireStaleComputers[c] = "online"
  /\ ActiveCount(c) < MaxConcurrentRuns
  /\ Reaches(c, t)

Heartbeat(c) ==
  /\ computers[c] # "online"
  /\ computers' = [computers EXCEPT ![c] = "online"]
  /\ UNCHANGED <<runs, workspaces, resuming, leaseCount, grants, published, log,
                 acked>>

\* _OFFLINE_AFTER passes without a heartbeat.
GoSilent(c) ==
  /\ computers[c] = "online"
  /\ computers' = [computers EXCEPT ![c] = "silent"]
  /\ UNCHANGED <<runs, workspaces, resuming, leaseCount, grants, published, log,
                 acked>>

-----------------------------------------------------------------------------
(* Creating runs. *)

\* Mutant of NewRun: epochs counted from zero.
NewRunFromZero(r, c, status, epoch, mode) ==
  [status |-> status, computer |-> c, epoch |-> epoch - 1, lease |-> NoLease,
   lapsed |-> FALSE, seq |-> 0, id |-> NoEventId, mode |-> mode,
   created |-> 1 + Cardinality({q \in Runs : Exists(q)})]

NewRun(r, c, status, epoch, mode) ==
  [status |-> status, computer |-> c, epoch |-> epoch, lease |-> NoLease,
   lapsed |-> FALSE, seq |-> 0, id |-> NoEventId, mode |-> mode,
   created |-> 1 + Cardinality({q \in Runs : Exists(q)})]

\* create_task_run: the task's first run, with one claim per resource.
CreateTaskRun(r, c) ==
  /\ \A q \in Runs : Exists(q) => TaskOf[q] # TaskOf[r]
  /\ Eligible(c, TaskOf[r])
  /\ computers' = ExpireStaleComputers
  /\ runs' = [runs EXCEPT ![r] = NewRun(r, c, "queued", 1, "prepare")]
  /\ workspaces' = [workspaces EXCEPT ![r] =
                      [status |-> "pending", computer |-> c]]
  /\ UNCHANGED <<resuming, leaseCount, grants, published, log, acked>>

\* _continue_completed_task.
IsFinished(r) ==
  \/ runs[r].status \in TerminalRunStatuses
  \/ runs[r].status = "interrupted" /\ ~IsRemote(r)

\* continue_task: a follow-up on a finished run p becomes run r.
ContinueTask(p, r) ==
  LET c == runs[p].computer
      restorable == workspaces[p].status = "ready"
  IN  /\ Exists(p) /\ ~Exists(r)
      /\ TaskOf[p] = TaskOf[r]
      /\ IsFinished(p)
      /\ IsOnline(c)
      /\ runs[p].epoch < MaxEpoch
      /\ runs' = [runs EXCEPT ![r] =
           NewRun(r, c, IF c = Local THEN "ready" ELSE "queued",
                  runs[p].epoch + 1, IF restorable THEN "restore" ELSE "prepare")]
      /\ workspaces' = [workspaces EXCEPT ![r] =
           IF restorable THEN workspaces[p]
           ELSE [status |-> "pending", computer |-> c]]
      /\ UNCHANGED <<computers, resuming, leaseCount, grants, published, log,
                     acked>>

\* set_run_status and sync_session: only this computer's own task lifecycle
\* writes a status without a lease.  A placeholder that reads as running does
\* not move a run that is still preparing.
SetLocalStatus(r, status) ==
  /\ Exists(r) /\ ~IsRemote(r)
  /\ status # runs[r].status
  /\ CanTransition(runs[r], status)
  /\ ~(runs[r].status = "preparing" /\ status = "running")
  /\ runs' = [runs EXCEPT ![r] = TransitionRun(@, status)]
  /\ workspaces' = IF runs[r].status = "preparing" /\ status = "ready"
                   THEN [workspaces EXCEPT ![r] =
                           [status |-> "ready", computer |-> Local]]
                   ELSE workspaces
  /\ UNCHANGED <<computers, resuming, leaseCount, grants, published, log, acked>>

-----------------------------------------------------------------------------
(* Leases. *)

\* _LEASE_DURATION passes without an event.
LapseLease(r) ==
  /\ runs[r].lease # NoLease /\ ~runs[r].lapsed
  /\ runs[r].epoch < MaxEpoch
  /\ runs' = [runs EXCEPT ![r].lapsed = TRUE]
  /\ UNCHANGED <<computers, workspaces, resuming, leaseCount, grants, published,
                 log, acked>>

\* Mutant of Fence: the lease is dropped but the epoch stays.
FenceSameEpoch(run, mode) ==
  [run EXCEPT !.lease = NoLease, !.lapsed = FALSE, !.seq = 0, !.id = NoEventId,
              !.mode = mode]

\* The fields a new epoch resets in _expire_lease and recover_run.
Fence(run, mode) ==
  [run EXCEPT !.epoch = @ + 1, !.lease = NoLease, !.lapsed = FALSE, !.seq = 0,
              !.id = NoEventId, !.mode = mode]

\* Mutant of ExpireLease: a run that never left preparation is forgotten.
ExpireLeaseOnceReady(r) ==
  IF runs[r].lapsed /\ runs[r].status \in LeasedStatuses \ {"preparing"}
  THEN TransitionRun(Fence(runs[r], "restore"), "recovering")
  ELSE runs[r]

\* _expire_lease, with the resume mode expire_leases chose.
ExpireLease(r) ==
  IF runs[r].lapsed /\ runs[r].status \in LeasedStatuses
  THEN TransitionRun(
         Fence(runs[r], IF workspaces[r].status = "ready"
                        THEN "restore" ELSE "prepare"),
         "recovering")
  ELSE runs[r]

\* expire_leases.
ExpireLeases == [r \in Runs |-> ExpireLease(r)]

\* expire_stale_state, every interval of the expiry thread.
ExpireStaleState ==
  /\ computers' = ExpireStaleComputers
  /\ runs' = ExpireLeases
  /\ UNCHANGED <<workspaces, resuming, leaseCount, grants, published, log, acked>>

\* The runs claim_run may give to c.
Claimable(c, records) ==
  {r \in Runs : /\ records[r].created > 0
                /\ records[r].computer = c
                /\ records[r].status \in ClaimableStatuses}

\* claim_run: the oldest run waiting for c is leased and starts preparing.
ClaimRun(r, lease, records) ==
  [records EXCEPT ![r] =
     TransitionRun([@ EXCEPT !.lease = lease, !.lapsed = FALSE], "preparing")]

\* acquire_lease: expire first, then claim, under one lock.
AcquireLease(c) ==
  LET records == ExpireLeases
      waiting == Claimable(c, records)
  IN  /\ leaseCount < MaxLeases
      /\ \E r \in waiting :
           /\ \A q \in waiting : records[r].created <= records[q].created
           /\ runs' = ClaimRun(r, leaseCount + 1, records)
           /\ grants' = grants \cup
                {[run |-> r, computer |-> c, epoch |-> records[r].epoch,
                  lease |-> leaseCount + 1]}
      /\ leaseCount' = leaseCount + 1
      /\ UNCHANGED <<computers, workspaces, resuming, published, log, acked>>

\* acquire_lease when no run waits for c: only the expiry remains.
AcquireNothing(c) ==
  /\ Claimable(c, ExpireLeases) = {}
  /\ runs' = ExpireLeases
  /\ UNCHANGED <<computers, workspaces, resuming, leaseCount, grants, published,
                 log, acked>>

-----------------------------------------------------------------------------
(* Events. *)

\* RuntimeClient.event: a runtime holding g publishes an event with a number
\* above those it has used.
Publish(g, seq, kind) ==
  /\ \A e \in published : e.lease = g.lease => e.seq < seq
  /\ published' = published \cup
       {[run |-> g.run, computer |-> g.computer, epoch |-> g.epoch,
         lease |-> g.lease, seq |-> seq, kind |-> kind]}
  /\ UNCHANGED <<computers, runs, workspaces, resuming, leaseCount, grants, log,
                 acked>>

\* _require_event_owner.
IsEventOwner(run, e) == run.computer = e.computer /\ run.epoch = e.epoch

\* Mutant of PassesFence: any lease of the owning computer will do.
PassesOwnerFence(run, e) ==
  run.computer = e.computer /\ run.lease # NoLease /\ ~run.lapsed

\* _require_fence.
PassesFence(run, e) ==
  /\ IsEventOwner(run, e)
  /\ run.lease # NoLease
  /\ run.lease = e.lease
  /\ ~run.lapsed

\* The status _apply_event moves the run to.
TargetStatus(run, e) ==
  CASE e.kind = "turn_completed" -> "ready"
    [] e.kind = "error" -> "failed"
    [] e.kind \in {"checkpoint", "workspace"} -> run.status
    [] OTHER -> e.kind

\* Mutant of IsRedelivery: every old sequence number counts as a redelivery.
IsOldDelivery(run, e) == e.seq <= run.seq

\* The last applied event, redelivered: acknowledged without a lease, which a
\* terminal event has itself given up, and without being applied again.
IsRedelivery(run, e) == e.seq = run.seq /\ EventId(e) = run.id

RedeliverEvent(e) ==
  LET run == runs[e.run]
  IN  /\ IsRedelivery(run, e)
      /\ IsEventOwner(run, e)
      /\ acked' = acked \cup {e}
      /\ UNCHANGED <<computers, runs, workspaces, resuming, leaseCount, grants,
                     published, log>>

\* Mutant of IsStaleEvent: the sequence is not compared.
IsNeverStale(run, e) == FALSE

IsStaleEvent(run, e) == e.seq <= run.seq

\* What the event's _applier does to the workspace claims:
\* attach_prepared_workspaces, or release_workspaces once the run is terminal.
ApplyToClaims(claims, run, e) ==
  IF e.kind = "workspace"
  THEN [status |-> "ready", computer |-> run.computer]
  ELSE IF TargetStatus(run, e) \in TerminalRunStatuses
  THEN [claims EXCEPT !.status = "released"]
  ELSE claims

\* accept_event with its _applier, one write of the run.
AcceptEvent(e) ==
  LET run    == runs[e.run]
      target == TargetStatus(run, e)
  IN  /\ ~IsRedelivery(run, e)
      /\ PassesFence(run, e)
      /\ ~IsStaleEvent(run, e)
      /\ CanTransition(run, target)
      /\ runs' = [runs EXCEPT ![e.run] =
           [TransitionRun([run EXCEPT !.lapsed = FALSE], target)
              EXCEPT !.seq = e.seq, !.id = EventId(e)]]
      /\ workspaces' = [workspaces EXCEPT ![e.run] = ApplyToClaims(@, run, e)]
      /\ log' = [log EXCEPT ![e.run] = Append(@, e)]
      /\ acked' = acked \cup {e}
      /\ UNCHANGED <<computers, resuming, leaseCount, grants, published>>

-----------------------------------------------------------------------------
(* Recovery and reassignment. *)

\* RemoteExecutionCoordinator.recover up to its call of recover_run: the status
\* and the target are checked on a run that is read without a lock.
RequestRecovery(r, target) ==
  /\ Exists(r)
  /\ runs[r].status \in {"interrupted", "failed", "recovering"}
  /\ Eligible(target, TaskOf[r])
  /\ <<r, target>> \notin resuming
  /\ Cardinality(resuming) < MaxRequests
  /\ computers' = ExpireStaleComputers
  /\ resuming' = resuming \cup {<<r, target>>}
  /\ UNCHANGED <<runs, workspaces, leaseCount, grants, published, log, acked>>

\* Mutant of RecreateClaims: the claims keep the working copy left behind.
KeepClaims(claims, target) == claims

\* The claims of a run that moves to another computer.
RecreateClaims(claims, target) == [status |-> "pending", computer |-> target]

\* recover_run's fence: whatever the run is doing by now, a new epoch takes it
\* from its holder.  The fresh claims of a moved run are written under the same
\* lock.  No worker leases a local run, so recover moves it on to ready itself.
RecoverRun(r, target) ==
  LET moving == target # runs[r].computer
      fenced == [Fence(runs[r], IF moving THEN "recreate" ELSE "restore")
                   EXCEPT !.computer = target]
  IN  /\ <<r, target>> \in resuming
      /\ IsOnline(target)
      /\ moving => TaskOf[r] \in Portable
      /\ CanTransition(runs[r], "recovering")
      /\ runs[r].epoch < MaxEpoch
      /\ runs' = [runs EXCEPT ![r] =
           TransitionRun(TransitionRun(fenced, "recovering"),
                         IF target = Local THEN "ready" ELSE "recovering")]
      /\ workspaces' = IF moving
           THEN [workspaces EXCEPT ![r] = RecreateClaims(@, target)]
           ELSE workspaces
      /\ resuming' = resuming \ {<<r, target>>}
      /\ UNCHANGED <<computers, leaseCount, grants, published, log, acked>>

\* recover_run raises: the request ends without effect.
RecoveryRefused(r, target) ==
  /\ <<r, target>> \in resuming
  /\ \/ ~IsOnline(target)
     \/ target # runs[r].computer /\ TaskOf[r] \notin Portable
     \/ ~CanTransition(runs[r], "recovering")
  /\ resuming' = resuming \ {<<r, target>>}
  /\ UNCHANGED <<computers, runs, workspaces, leaseCount, grants, published, log,
                 acked>>

\* reassign_queued_run: a run nobody leased moves without a new epoch.
ReassignQueuedRun(r, c) ==
  /\ Exists(r)
  /\ runs[r].status = "queued"
  /\ Eligible(c, TaskOf[r])
  /\ computers' = ExpireStaleComputers
  /\ runs' = [runs EXCEPT ![r].computer = c]
  /\ workspaces' = [workspaces EXCEPT ![r].computer = c]
  /\ UNCHANGED <<resuming, leaseCount, grants, published, log, acked>>

-----------------------------------------------------------------------------
Init ==
  /\ computers = [c \in Computers |-> "online"]
  /\ runs = [r \in Runs |->
       [status |-> "queued", computer |-> Local, epoch |-> 1, lease |-> NoLease,
        lapsed |-> FALSE, seq |-> 0, id |-> NoEventId, mode |-> "prepare",
        created |-> 0]]
  /\ workspaces = [r \in Runs |-> [status |-> "pending", computer |-> Local]]
  /\ resuming = {}
  /\ leaseCount = 0
  /\ grants = {}
  /\ published = {}
  /\ log = [r \in Runs |-> <<>>]
  /\ acked = {}

LocalStatuses == RunStatus \ {"queued", "recovering"}

Next ==
  \/ \E c \in Remote :
       \/ Heartbeat(c)
       \/ GoSilent(c)
       \/ AcquireLease(c)
       \/ AcquireNothing(c)
  \/ ExpireStaleState
  \/ \E r \in Runs :
       \/ LapseLease(r)
       \/ \E status \in LocalStatuses : SetLocalStatus(r, status)
       \/ \E p \in Runs : ContinueTask(p, r)
       \/ \E c \in Computers :
            \/ CreateTaskRun(r, c)
            \/ RequestRecovery(r, c)
            \/ RecoverRun(r, c)
            \/ RecoveryRefused(r, c)
            \/ ReassignQueuedRun(r, c)
  \/ \E g \in grants, seq \in 1..MaxSeq, kind \in Kinds : Publish(g, seq, kind)
  \/ \E e \in published : AcceptEvent(e) \/ RedeliverEvent(e)

Spec == Init /\ [][Next]_vars

\* The expiry thread runs as long as the server does.
FairSpec == Spec /\ WF_vars(ExpireStaleState)

-----------------------------------------------------------------------------
(* Properties. *)

\* Every record has the fields and ranges of its model class.
TypeOK ==
  /\ computers \in [Computers -> ComputerStatus]
  /\ runs \in [Runs -> Run]
  /\ workspaces \in [Runs -> Workspace]
  /\ resuming \subseteq Runs \X Computers
  /\ leaseCount \in Nat
  /\ grants \subseteq Grant
  /\ published \subseteq Event
  /\ log \in [Runs -> Seq(Event)]
  /\ acked \subseteq Event

\* An execution epoch has at most one leaseholder, however expiry, recovery,
\* reassignment and claims interleave: the epoch alone tells a runtime's events
\* and commands from those of every other runtime (acquire_lease, claim_run).
OneHolderPerEpoch ==
  \A g, h \in grants : g.run = h.run /\ g.epoch = h.epoch => g = h

\* The events applied to a run are in order and none is applied twice: epochs
\* never decrease and sequence numbers increase within an epoch, whatever the
\* network does to the deliveries (accept_event).
LogInOrder ==
  \A r \in Runs : \A i, j \in 1..Len(log[r]) : i < j =>
    \/ log[r][i].epoch < log[r][j].epoch
    \/ log[r][i].epoch = log[r][j].epoch /\ log[r][i].seq < log[r][j].seq

\* An acknowledged event was applied, also when the acknowledgement answers a
\* redelivery that finds the lease already given up (accept_event).
AckedIsApplied ==
  \A e \in acked : \E i \in 1..Len(log[e.run]) : log[e.run][i] = e

\* An event takes effect only if no later lease of its run was ever handed out,
\* and only in the run's current epoch: an expired runtime cannot publish into a
\* recovered run (accept_event, _require_fence).
NoLateEvent ==
  [][\A r \in Runs : log'[r] # log[r] =>
       LET e == log'[r][Len(log'[r])]
       IN  /\ e.epoch = runs[r].epoch
           /\ \A g \in grants : g.run = r /\ g.lease # e.lease =>
                g.epoch < e.epoch]_vars

\* A finished run is closed to its runtime: until a recovery opens a new epoch,
\* nothing more is applied to it and no lease is handed out for it
\* (transition_run, claim_run, accept_event).
FinishedStaysClosed ==
  [][\A r \in Runs :
       /\ Exists(r) /\ runs[r].status \in TerminalRunStatuses
       /\ runs'[r].epoch = runs[r].epoch
       =>
         /\ runs'[r].status = runs[r].status
         /\ runs'[r].lease = NoLease
         /\ log'[r] = log[r]]_vars

\* A published working copy is on the computer that owns the run, through moves,
\* reassignment and continuation (attach_prepared_workspaces, recover_run), and
\* a run waiting for its first lease has none, which is why reassign_queued_run
\* may give its claims to another computer.
WorkspaceFollowsRun ==
  \A r \in Runs : workspaces[r].status = "ready" =>
    workspaces[r].computer = runs[r].computer /\ runs[r].status # "queued"

\* A lease that lapses without being renewed is taken from its holder: the run
\* does not stay with a computer that stopped responding (expire_stale_state).
LapsedLeaseIsTaken ==
  \A r \in Runs : \A lease \in 1..MaxLeases :
    (runs[r].lease = lease /\ runs[r].lapsed) ~> (runs[r].lease # lease)

-----------------------------------------------------------------------------
(* What a caller may rely on: a run is owned through its epochs and leases. *)

\* The generation of a run is its epoch, and zero before it is created.
Generation(run) == IF run.created > 0 THEN run.epoch ELSE 0

Ownership == INSTANCE RunOwnership WITH
  NoHolder   <- NoLease,
  generation <- [r \in Runs |-> Generation(runs[r])],
  holder     <- [r \in Runs |-> runs[r].lease],
  handed     <- {<<g.run, g.epoch, g.lease>> : g \in grants},
  log        <- [r \in Runs |->
                  [i \in 1..Len(log[r]) |-> <<log[r][i].epoch, log[r][i].seq>>]]

\* Claims, expiry, recovery, reassignment, continuation and event delivery
\* together behave as single ownership: each epoch is handed out once, and only
\* its holder writes, in order (acquire_lease, expire_leases, recover_run,
\* accept_event).
ImplementsOwnership == Ownership!Spec
=============================================================================
