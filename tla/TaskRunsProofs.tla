--------------------------- MODULE TaskRunsProofs ---------------------------
(* Proofs about TaskRuns, for every set of runs, tasks and computers. *)
EXTENDS TaskRuns, TLAPS, FiniteSetTheorems

-----------------------------------------------------------------------------
(* The operators that rewrite a run keep its type. *)

\* transition_run writes only the status and the lease.
LEMMA TransitionRunType ==
  ASSUME NEW run \in Run, NEW target \in RunStatus
  PROVE  TransitionRun(run, target) \in Run
BY DEF TransitionRun, Run, NoLease

\* Opening a new epoch keeps a run well formed.
LEMMA FenceType ==
  ASSUME NEW run \in Run, NEW mode \in {"prepare", "restore", "recreate"}
  PROVE  Fence(run, mode) \in Run
<1>1. NoEventId \in Nat \X Nat
  BY DEF NoEventId, NoLease
<1>2. run.epoch + 1 \in Nat \ {0}
  BY DEF Run
<1> QED
  BY <1>1, <1>2 DEF Fence, Run, NoLease

\* expire_leases keeps every run well formed.
LEMMA ExpireLeasesType ==
  ASSUME TypeOK
  PROVE  ExpireLeases \in [Runs -> Run]
<1> SUFFICES ASSUME NEW r \in Runs PROVE ExpireLease(r) \in Run
  BY DEF ExpireLeases
<1>1. runs[r] \in Run
  BY DEF TypeOK
<1>2. "recovering" \in RunStatus
  BY DEF RunStatus
<1> QED
  BY <1>1, <1>2, FenceType, TransitionRunType DEF ExpireLease

\* The status an event moves a run to is a run status.
LEMMA TargetStatusType ==
  ASSUME NEW run \in Run, NEW e \in Event
  PROVE  TargetStatus(run, e) \in RunStatus
BY KindsAssumption DEF TargetStatus, Run, Event, RunStatus

\* A new run is well formed.
LEMMA NewRunType ==
  ASSUME NEW r \in Runs, NEW c \in Computers, NEW status \in RunStatus,
         NEW epoch \in Nat \ {0}, NEW mode \in {"prepare", "restore", "recreate"}
  PROVE  NewRun(r, c, status, epoch, mode) \in Run
<1> DEFINE existing == {q \in Runs : Exists(q)}
<1>1. Cardinality(existing) \in Nat
  BY ConstantsAssumption, FS_Subset, FS_CardinalityType
<1> QED
  BY <1>1 DEF NewRun, Run, NoLease, NoEventId

-----------------------------------------------------------------------------
(* Type correctness. *)

\* The initial state is well typed.
LEMMA InitType == Init => TypeOK
<1> SUFFICES ASSUME Init PROVE TypeOK
  OBVIOUS
<1>1. NoEventId \in Nat \X Nat
  BY DEF NoEventId, NoLease
<1> QED
  BY <1>1, ConstantsAssumption
     DEF Init, TypeOK, ComputerStatus, Run, RunStatus, Workspace, NoLease

\* Every operation of the control plane, every runtime and the passing of time
\* keep the records well typed.
LEMMA NextType == TypeOK /\ [Next]_vars => TypeOK'
<1> SUFFICES ASSUME TypeOK, [Next]_vars PROVE TypeOK'
  OBVIOUS
<1> USE ConstantsAssumption
<1>0. ExpireStaleComputers \in [Computers -> ComputerStatus]
  BY DEF TypeOK, ExpireStaleComputers, ComputerStatus
<1>1. ASSUME NEW c \in Remote, Heartbeat(c) PROVE TypeOK'
  BY <1>1 DEF TypeOK, Heartbeat, ComputerStatus
<1>2. ASSUME NEW c \in Remote, GoSilent(c) PROVE TypeOK'
  BY <1>2 DEF TypeOK, GoSilent, ComputerStatus
<1>3. ASSUME NEW c \in Remote, AcquireLease(c) PROVE TypeOK'
  <2>1. PICK r \in Runs :
          /\ runs' = ClaimRun(r, leaseCount + 1, ExpireLeases)
          /\ grants' = grants \cup
               {[run |-> r, computer |-> c, epoch |-> ExpireLeases[r].epoch,
                 lease |-> leaseCount + 1]}
    BY <1>3 DEF AcquireLease, Claimable
  <2> DEFINE expired == ExpireLeases
  <2>2. expired \in [Runs -> Run]
    BY ExpireLeasesType
  <2>3. [expired[r] EXCEPT !.lease = leaseCount + 1, !.lapsed = FALSE] \in Run
    <3>1. expired[r] \in Run /\ leaseCount + 1 \in Nat
      BY <2>2 DEF TypeOK
    <3> HIDE DEF expired
    <3> QED
      BY <3>1 DEF Run
  <2>4. runs' \in [Runs -> Run]
    <3>1. "preparing" \in RunStatus
      BY DEF RunStatus
    <3> HIDE DEF expired
    <3>2. TransitionRun([expired[r] EXCEPT !.lease = leaseCount + 1,
                                            !.lapsed = FALSE], "preparing") \in Run
      BY <2>3, <3>1, TransitionRunType
    <3>3. runs' = [expired EXCEPT ![r] =
             TransitionRun([expired[r] EXCEPT !.lease = leaseCount + 1,
                                              !.lapsed = FALSE], "preparing")]
      BY <2>1 DEF ClaimRun, expired
    <3> QED
      BY <2>2, <3>2, <3>3
  <2>5. grants' \subseteq Grant
    <3>1. expired[r].epoch \in Nat \ {0}
      BY <2>2 DEF Run
    <3> QED
      BY <2>1, <3>1 DEF TypeOK, Grant, Remote
  <2> QED
    BY <1>3, <2>4, <2>5 DEF AcquireLease, TypeOK
<1>4. ASSUME NEW c \in Remote, AcquireNothing(c) PROVE TypeOK'
  BY <1>4, ExpireLeasesType DEF TypeOK, AcquireNothing
<1>5. CASE ExpireStaleState
  BY <1>0, <1>5, ExpireLeasesType DEF TypeOK, ExpireStaleState
<1>6. ASSUME NEW r \in Runs, LapseLease(r) PROVE TypeOK'
  <2>0. runs[r] \in Run
    BY DEF TypeOK
  <2>1. [runs[r] EXCEPT !.lapsed = TRUE] \in Run
    BY <2>0 DEF Run
  <2>2. runs' = [runs EXCEPT ![r] = [runs[r] EXCEPT !.lapsed = TRUE]]
    BY <1>6 DEF LapseLease
  <2> QED
    BY <1>6, <2>1, <2>2 DEF TypeOK, LapseLease
<1>7. ASSUME NEW r \in Runs, NEW status \in LocalStatuses,
             SetLocalStatus(r, status)
      PROVE  TypeOK'
  <2>1. TransitionRun(runs[r], status) \in Run
    BY TransitionRunType DEF TypeOK, LocalStatuses
  <2>2. runs' \in [Runs -> Run]
    BY <1>7, <2>1 DEF TypeOK, SetLocalStatus
  <2>3. workspaces' \in [Runs -> Workspace]
    BY <1>7 DEF TypeOK, SetLocalStatus, Workspace
  <2> QED
    BY <1>7, <2>2, <2>3 DEF TypeOK, SetLocalStatus
<1>8. ASSUME NEW p \in Runs, NEW r \in Runs, ContinueTask(p, r) PROVE TypeOK'
  <2>1. runs[p].computer \in Computers /\ runs[p].epoch + 1 \in Nat \ {0}
    BY SMTT(30) DEF TypeOK, Run
  <2>2. PICK status \in RunStatus, mode \in {"prepare", "restore", "recreate"} :
          runs' = [runs EXCEPT ![r] = NewRun(r, runs[p].computer, status,
                                             runs[p].epoch + 1, mode)]
    BY <1>8 DEF ContinueTask, RunStatus
  <2>3. runs' \in [Runs -> Run]
    BY <2>1, <2>2, NewRunType DEF TypeOK
  <2>4. workspaces' \in [Runs -> Workspace]
    BY <1>8, <2>1 DEF TypeOK, ContinueTask, Workspace
  <2> QED
    BY <1>8, <2>3, <2>4 DEF TypeOK, ContinueTask
<1>9. ASSUME NEW r \in Runs, NEW c \in Computers, CreateTaskRun(r, c)
      PROVE  TypeOK'
  <2>1. NewRun(r, c, "queued", 1, "prepare") \in Run
    BY NewRunType DEF RunStatus
  <2>2. [status |-> "pending", computer |-> c] \in Workspace
    BY DEF Workspace
  <2> QED
    BY <1>0, <1>9, <2>1, <2>2 DEF TypeOK, CreateTaskRun
<1>10. ASSUME NEW r \in Runs, NEW c \in Computers, RequestRecovery(r, c)
       PROVE  TypeOK'
  BY <1>0, <1>10 DEF TypeOK, RequestRecovery
<1>11. ASSUME NEW r \in Runs, NEW c \in Computers, RecoverRun(r, c)
       PROVE  TypeOK'
  <2>1. PICK mode \in {"prepare", "restore", "recreate"},
             status \in RunStatus :
          runs' = [runs EXCEPT ![r] =
            TransitionRun(TransitionRun([Fence(runs[r], mode) EXCEPT !.computer = c],
                                        "recovering"), status)]
    BY <1>11 DEF RecoverRun, RunStatus
  <2>2. Fence(runs[r], mode) \in Run
    BY FenceType DEF TypeOK
  <2>3. [Fence(runs[r], mode) EXCEPT !.computer = c] \in Run
    BY <2>2 DEF Run
  <2>4. TransitionRun([Fence(runs[r], mode) EXCEPT !.computer = c],
                      "recovering") \in Run
    BY <2>3, TransitionRunType DEF RunStatus
  <2>5. runs' \in [Runs -> Run]
    BY <2>1, <2>4, TransitionRunType DEF TypeOK
  <2>6. workspaces' \in [Runs -> Workspace]
    BY <1>11 DEF TypeOK, RecoverRun, RecreateClaims, Workspace
  <2> QED
    BY <1>11, <2>5, <2>6 DEF TypeOK, RecoverRun
<1>12. ASSUME NEW r \in Runs, NEW c \in Computers, RecoveryRefused(r, c)
       PROVE  TypeOK'
  BY <1>12 DEF TypeOK, RecoveryRefused
<1>13. ASSUME NEW r \in Runs, NEW c \in Computers, ReassignQueuedRun(r, c)
       PROVE  TypeOK'
  <2>0. runs[r] \in Run
    BY DEF TypeOK
  <2>1. [runs[r] EXCEPT !.computer = c] \in Run
    BY <2>0 DEF Run
  <2>2. [workspaces[r] EXCEPT !.computer = c] \in Workspace
    BY DEF TypeOK, Workspace
  <2> QED
    BY <1>0, <1>13, <2>1, <2>2 DEF TypeOK, ReassignQueuedRun
<1>14. ASSUME NEW g \in grants, NEW seq \in 1..MaxSeq, NEW kind \in Kinds,
              Publish(g, seq, kind)
       PROVE  TypeOK'
  <2>1. g \in Grant
    BY DEF TypeOK
  <2>2. [run |-> g.run, computer |-> g.computer, epoch |-> g.epoch,
         lease |-> g.lease, seq |-> seq, kind |-> kind] \in Event
    BY <2>1, BoundsAssumption DEF Grant, Event
  <2> QED
    BY <1>14, <2>2 DEF TypeOK, Publish
<1>15. ASSUME NEW e \in published, AcceptEvent(e) PROVE TypeOK'
  <2>1. e \in Event /\ runs[e.run] \in Run /\ workspaces[e.run] \in Workspace
    BY DEF TypeOK, Event
  <2>2. PICK target \in RunStatus :
          runs' = [runs EXCEPT ![e.run] =
            [TransitionRun([runs[e.run] EXCEPT !.lapsed = FALSE], target)
               EXCEPT !.seq = e.seq, !.id = EventId(e)]]
    BY <1>15, <2>1, TargetStatusType DEF AcceptEvent
  <2>3. [runs[e.run] EXCEPT !.lapsed = FALSE] \in Run
    BY <2>1 DEF Run
  <2>4. TransitionRun([runs[e.run] EXCEPT !.lapsed = FALSE], target) \in Run
    BY <2>3, TransitionRunType
  <2>5. EventId(e) \in Nat \X Nat /\ e.seq \in Nat
    BY <2>1 DEF EventId, Event
  <2>6. [TransitionRun([runs[e.run] EXCEPT !.lapsed = FALSE], target)
           EXCEPT !.seq = e.seq, !.id = EventId(e)] \in Run
    BY <2>4, <2>5 DEF Run
  <2>7. runs' \in [Runs -> Run]
    BY <2>2, <2>6 DEF TypeOK
  <2>8. ApplyToClaims(workspaces[e.run], runs[e.run], e) \in Workspace
    BY <2>1 DEF ApplyToClaims, Workspace, Run
  <2>9. workspaces' \in [Runs -> Workspace]
    BY <1>15, <2>8 DEF TypeOK, AcceptEvent
  <2>10. log' \in [Runs -> Seq(Event)]
    <3>1. log[e.run] \in Seq(Event)
      BY <2>1 DEF TypeOK, Event
    <3>2. Append(log[e.run], e) \in Seq(Event)
      BY <2>1, <3>1
    <3> QED
      BY <1>15, <3>2 DEF TypeOK, AcceptEvent
  <2> QED
    BY <1>15, <2>1, <2>7, <2>9, <2>10 DEF TypeOK, AcceptEvent
<1>16. ASSUME NEW e \in published, RedeliverEvent(e) PROVE TypeOK'
  BY <1>16 DEF TypeOK, RedeliverEvent
<1>17. CASE UNCHANGED vars
  BY <1>17 DEF TypeOK, vars
<1> QED
  BY <1>1, <1>2, <1>3, <1>4, <1>5, <1>6, <1>7, <1>8, <1>9, <1>10, <1>11, <1>12,
     <1>13, <1>14, <1>15, <1>16, <1>17 DEF Next

\* The control plane's records always have the fields and ranges of their model
\* classes.
THEOREM TypeCorrect == Spec => []TypeOK
BY InitType, NextType, PTL DEF Spec

-----------------------------------------------------------------------------
(* The fence.  Its inductive invariant is about run records and grants, which *)
(* are parameters: acquire_lease expires leases before it claims a run.       *)

\* Lease ids are used once, and no grant is of an epoch its run has not reached.
GrantsPast(records, count) ==
  /\ \A g \in grants : g.lease \in 1..count /\ g.epoch <= records[g.run].epoch
  /\ \A g \in grants : records[g.run].created > 0
  /\ \A g, h \in grants : g.lease = h.lease => g = h

\* The lease a run carries was granted in its current epoch to its computer.
LeaseGranted(records) ==
  \A r \in Runs : records[r].lease # NoLease =>
    [run |-> r, computer |-> records[r].computer, epoch |-> records[r].epoch,
     lease |-> records[r].lease] \in grants

\* A run that waits to be claimed has not been granted in its current epoch.
WaitingUngranted(records) ==
  \A r \in Runs : records[r].status \in ClaimableStatuses =>
    \A g \in grants : g.run = r => g.epoch < records[r].epoch

\* Neither a waiting run, nor a finished one, nor a local one carries a lease.
OnlyExecutingLeased(records) ==
  \A r \in Runs :
    \/ records[r].status \in ClaimableStatuses \cup TerminalRunStatuses
    \/ records[r].computer = Local
    => records[r].lease = NoLease

Fenced(records, count) ==
  /\ GrantsPast(records, count)
  /\ LeaseGranted(records)
  /\ WaitingUngranted(records)
  /\ OnlyExecutingLeased(records)

FenceInv ==
  /\ TypeOK
  /\ OneHolderPerEpoch
  /\ Fenced(runs, leaseCount)

\* What an operation that hands out no lease may do to a run: its epoch does not
\* go back, it keeps its lease only with its epoch and computer, and it waits to
\* be claimed again only in a new epoch.
KeepsFence(old, new) ==
  /\ old.created > 0 => new.epoch >= old.epoch /\ new.created > 0
  /\ new.lease # NoLease =>
       /\ new.lease = old.lease
       /\ new.epoch = old.epoch
       /\ new.computer = old.computer
  /\ new.status \in ClaimableStatuses =>
       \/ new.epoch > old.epoch
       \/ old.status \in ClaimableStatuses
       \/ old.created = 0
  /\ \/ new.status \in ClaimableStatuses \cup TerminalRunStatuses
     \/ new.computer = Local
     => new.lease = NoLease

\* An operation that treats every run so preserves the fence.
LEMMA KeepsFenceSuffices ==
  ASSUME NEW old \in [Runs -> Run], NEW new \in [Runs -> Run],
         NEW count \in Nat, grants \subseteq Grant,
         Fenced(old, count),
         \A r \in Runs : KeepsFence(old[r], new[r])
  PROVE  Fenced(new, count)
<1> USE DEF Fenced
<1>0. \A r \in Runs : old[r] \in Run /\ new[r] \in Run
  OBVIOUS
<1>1. GrantsPast(new, count)
  <2>1. \A g \in grants : g.run \in Runs /\ g.epoch \in Nat
    BY DEF Grant
  <2>2. \A r \in Runs : old[r].epoch \in Nat /\ new[r].epoch \in Nat
    BY <1>0 DEF Run
  <2> QED
    BY <2>1, <2>2 DEF GrantsPast, KeepsFence
<1>2. LeaseGranted(new)
  BY DEF LeaseGranted, KeepsFence
<1>3. WaitingUngranted(new)
  <2> SUFFICES ASSUME NEW r \in Runs, new[r].status \in ClaimableStatuses,
                      NEW g \in grants, g.run = r
               PROVE  g.epoch < new[r].epoch
    BY DEF WaitingUngranted
  <2>1. g.epoch \in Nat /\ old[r].epoch \in Nat /\ new[r].epoch \in Nat
    BY <1>0 DEF Grant, Run
  <2>2. g.epoch <= old[r].epoch /\ old[r].epoch <= new[r].epoch
    BY <2>1 DEF GrantsPast, KeepsFence
  <2>3. old[r].created > 0
    BY DEF GrantsPast
  <2>4. \/ new[r].epoch > old[r].epoch
        \/ old[r].status \in ClaimableStatuses
    <3>1. old[r].created \in Nat
      BY <1>0 DEF Run
    <3> QED
      BY <2>3, <3>1 DEF KeepsFence
  <2> QED
    BY <2>1, <2>2, <2>4 DEF WaitingUngranted
<1>4. OnlyExecutingLeased(new)
  BY DEF OnlyExecutingLeased, KeepsFence
<1> QED
  BY <1>1, <1>2, <1>3, <1>4

\* A run that is left alone.
LEMMA UntouchedKeepsFence ==
  ASSUME NEW records \in [Runs -> Run], OnlyExecutingLeased(records),
         NEW r \in Runs
  PROVE  KeepsFence(records[r], records[r])
<1>1. records[r].epoch \in Nat
  BY DEF Run
<1> QED
  BY <1>1 DEF OnlyExecutingLeased, KeepsFence

\* An operation that rewrites one run and hands out no lease.
LEMMA OneRunKeepsFence ==
  ASSUME TypeOK, TypeOK', Fenced(runs, leaseCount),
         NEW r \in Runs, NEW record,
         runs' = [runs EXCEPT ![r] = record],
         KeepsFence(runs[r], record)
  PROVE  Fenced(runs', leaseCount)
<1>1. runs \in [Runs -> Run] /\ runs' \in [Runs -> Run] /\ leaseCount \in Nat
      /\ grants \subseteq Grant
  BY DEF TypeOK
<1>2. \A q \in Runs : KeepsFence(runs[q], runs'[q])
  <2> SUFFICES ASSUME NEW q \in Runs PROVE KeepsFence(runs[q], runs'[q])
    OBVIOUS
  <2>1. CASE q = r
    BY <1>1, <2>1
  <2>2. CASE q # r
    BY <1>1, <2>2, UntouchedKeepsFence DEF Fenced
  <2> QED
    BY <2>1, <2>2
<1> QED
  BY <1>1, <1>2, KeepsFenceSuffices

\* expire_leases takes a lease away only together with the epoch.
LEMMA ExpireLeasesKeepsFence ==
  ASSUME TypeOK, Fenced(runs, leaseCount)
  PROVE  Fenced(ExpireLeases, leaseCount)
<1> DEFINE expired == ExpireLeases
<1>1. runs \in [Runs -> Run] /\ leaseCount \in Nat /\ grants \subseteq Grant
  BY DEF TypeOK
<1>2. expired \in [Runs -> Run]
  BY ExpireLeasesType
<1>3. \A r \in Runs : KeepsFence(runs[r], expired[r])
  <2> SUFFICES ASSUME NEW r \in Runs PROVE KeepsFence(runs[r], ExpireLease(r))
    BY DEF ExpireLeases
  <2>1. CASE runs[r].lapsed /\ runs[r].status \in LeasedStatuses
    <3>1. PICK mode \in {"prepare", "restore"} :
            ExpireLease(r) = TransitionRun(Fence(runs[r], mode), "recovering")
      BY <2>1 DEF ExpireLease
    <3>2. runs[r] \in Run
      BY <1>1
    <3>3. /\ ExpireLease(r).epoch = runs[r].epoch + 1
          /\ ExpireLease(r).lease = NoLease
          /\ ExpireLease(r).created = runs[r].created
      BY <3>1, <3>2 DEF TransitionRun, Fence, Run, TerminalRunStatuses
    <3>4. runs[r].epoch \in Nat
      BY <3>2 DEF Run
    <3> QED
      BY <3>3, <3>4 DEF KeepsFence
  <2>2. CASE ~(runs[r].lapsed /\ runs[r].status \in LeasedStatuses)
    BY <1>1, <2>2, UntouchedKeepsFence DEF ExpireLease, Fenced
  <2> QED
    BY <2>1, <2>2
<1> HIDE DEF expired
<1>4. Fenced(expired, leaseCount)
  BY <1>1, <1>2, <1>3, KeepsFenceSuffices
<1> QED
  BY <1>4 DEF expired

\* Fields of a run moved by transition_run.
LEMMA TransitionRunFields ==
  ASSUME NEW run \in Run, NEW target \in RunStatus
  PROVE  LET new == TransitionRun(run, target)
         IN  /\ new.status = target
             /\ new.epoch = run.epoch
             /\ new.computer = run.computer
             /\ new.created = run.created
             /\ new.lease \in {run.lease, NoLease}
             /\ target # run.status /\ target \in TerminalRunStatuses =>
                  new.lease = NoLease
             /\ target \notin TerminalRunStatuses => new.lease = run.lease
BY DEF TransitionRun, Run

\* acquire_lease opens an epoch's only grant.
LEMMA AcquireLeaseFence ==
  ASSUME FenceInv, TypeOK', NEW c \in Remote, AcquireLease(c)
  PROVE  FenceInv'
<1> DEFINE old == ExpireLeases
           lease == leaseCount + 1
<1>0. PICK r \in Claimable(c, old) :
        /\ runs' = ClaimRun(r, lease, old)
        /\ grants' = grants \cup
             {[run |-> r, computer |-> c, epoch |-> old[r].epoch, lease |-> lease]}
  BY DEF AcquireLease
<1>1. leaseCount' = lease
  BY DEF AcquireLease
<1>2. Fenced(old, leaseCount)
  BY ExpireLeasesKeepsFence DEF FenceInv
<1>3. old \in [Runs -> Run] /\ leaseCount \in Nat /\ grants \subseteq Grant
  BY ExpireLeasesType DEF FenceInv, TypeOK
<1>4. r \in Runs /\ old[r].created > 0 /\ old[r].computer = c
      /\ old[r].status \in ClaimableStatuses
  BY <1>0 DEF Claimable
<1> DEFINE g0 == [run |-> r, computer |-> c, epoch |-> old[r].epoch,
                  lease |-> lease]
<1> HIDE DEF old
<1>5. old[r] \in Run /\ old[r].epoch \in Nat
  BY <1>3, <1>4 DEF Run
<1>6. /\ runs'[r].status = "preparing"
      /\ runs'[r].epoch = old[r].epoch
      /\ runs'[r].computer = c
      /\ runs'[r].lease = lease
      /\ runs'[r].created = old[r].created
  <2> DEFINE leased == [old[r] EXCEPT !.lease = lease, !.lapsed = FALSE]
  <2>1. leased \in Run
    <3>1. lease \in Nat
      BY <1>3
    <3> HIDE DEF lease
    <3> QED
      BY <1>5, <3>1 DEF Run
  <2>2. /\ leased.epoch = old[r].epoch /\ leased.computer = c
        /\ leased.lease = lease /\ leased.created = old[r].created
    BY <1>4, <1>5 DEF Run
  <2>3. runs'[r] = TransitionRun(leased, "preparing")
    BY <1>0, <1>3, <1>4 DEF ClaimRun
  <2> HIDE DEF leased
  <2> QED
    BY SMTT(30), <2>1, <2>2, <2>3, TransitionRunFields DEF RunStatus, TerminalRunStatuses
<1>7. \A q \in Runs : q # r => runs'[q] = old[q]
  BY <1>0, <1>3, <1>4 DEF ClaimRun
<1>8. \A g \in grants : g.run = r => g.epoch < old[r].epoch
  BY <1>2, <1>4 DEF Fenced, WaitingUngranted
<1>9. \A g \in grants : g.lease # lease
  BY <1>2, <1>3 DEF Fenced, GrantsPast
<1>10. \A g \in grants : g.epoch \in Nat /\ g.lease \in Nat /\ g.run \in Runs
  BY <1>3 DEF Grant
<1>11. OneHolderPerEpoch'
  BY <1>0, <1>5, <1>8, <1>10 DEF FenceInv, OneHolderPerEpoch
<1>12. GrantsPast(runs, leaseCount)'
  <2>1. \A g \in grants : g.lease \in 1..lease /\ g.epoch <= runs'[g.run].epoch
                          /\ runs'[g.run].created > 0
    BY <1>2, <1>3, <1>6, <1>7, <1>10 DEF Fenced, GrantsPast
  <2>2. g0.lease \in 1..lease /\ g0.epoch <= runs'[g0.run].epoch
        /\ runs'[g0.run].created > 0
    BY SMTT(30), <1>3, <1>4, <1>5, <1>6
  <2>3. \A g, h \in grants' : g.lease = h.lease => g = h
    BY SMTT(30), <1>0, <1>2, <1>9 DEF Fenced, GrantsPast
  <2>4. \A g \in grants' : g \in grants \/ g = g0
    BY <1>0
  <2> QED
    BY <1>1, <2>1, <2>2, <2>3, <2>4 DEF GrantsPast
<1>13. LeaseGranted(runs)'
  BY <1>0, <1>2, <1>4, <1>6, <1>7 DEF Fenced, LeaseGranted
<1>14. WaitingUngranted(runs)'
  <2> SUFFICES ASSUME NEW q \in Runs, runs'[q].status \in ClaimableStatuses,
                      NEW g \in grants', g.run = q
               PROVE  g.epoch < runs'[q].epoch
    BY DEF WaitingUngranted
  <2>1. q # r
    BY <1>6 DEF ClaimableStatuses
  <2>2. g \in grants
    BY <1>0, <2>1
  <2> QED
    BY <1>2, <1>7, <2>1, <2>2 DEF Fenced, WaitingUngranted
<1>15. OnlyExecutingLeased(runs)'
  <2>1. c # Local
    BY DEF Remote
  <2> QED
    BY <1>2, <1>6, <1>7, <2>1
       DEF Fenced, OnlyExecutingLeased, ClaimableStatuses, TerminalRunStatuses
<1> QED
  BY <1>11, <1>12, <1>13, <1>14, <1>15 DEF FenceInv, Fenced

\* Nothing is leased at the start.
LEMMA InitFence == Init => FenceInv
<1> SUFFICES ASSUME Init PROVE FenceInv
  OBVIOUS
<1>1. TypeOK
  BY InitType
<1> QED
  BY <1>1 DEF Init, FenceInv, OneHolderPerEpoch, Fenced, GrantsPast, LeaseGranted,
              WaitingUngranted, OnlyExecutingLeased

\* Every step preserves the fence.
LEMMA NextFence == FenceInv /\ [Next]_vars => FenceInv'
<1> SUFFICES ASSUME FenceInv, [Next]_vars PROVE FenceInv'
  OBVIOUS
<1>0. TypeOK /\ TypeOK' /\ Fenced(runs, leaseCount) /\ OneHolderPerEpoch
  BY NextType DEF FenceInv
<1>a. runs \in [Runs -> Run] /\ \A r \in Runs : runs[r] \in Run
  BY <1>0 DEF TypeOK
<1>b. ASSUME UNCHANGED <<grants, leaseCount>>, Fenced(runs', leaseCount)
      PROVE  FenceInv'
  BY <1>0, <1>b DEF FenceInv, OneHolderPerEpoch, Fenced, GrantsPast, LeaseGranted,
                   WaitingUngranted, OnlyExecutingLeased
<1>c. ASSUME UNCHANGED <<runs, grants, leaseCount>> PROVE FenceInv'
  BY <1>0, <1>b, <1>c
<1>1. ASSUME NEW c \in Remote, Heartbeat(c) \/ GoSilent(c) PROVE FenceInv'
  BY <1>1, <1>c DEF Heartbeat, GoSilent
<1>2. ASSUME NEW c \in Remote, AcquireLease(c) PROVE FenceInv'
  BY <1>0, <1>2, AcquireLeaseFence
<1>3. ASSUME NEW c \in Remote, AcquireNothing(c) PROVE FenceInv'
  BY <1>0, <1>3, <1>b, ExpireLeasesKeepsFence DEF AcquireNothing
<1>4. CASE ExpireStaleState
  BY <1>0, <1>4, <1>b, ExpireLeasesKeepsFence DEF ExpireStaleState
<1>5. ASSUME NEW r \in Runs, LapseLease(r) PROVE FenceInv'
  <2> DEFINE new == [runs[r] EXCEPT !.lapsed = TRUE]
  <2>1. KeepsFence(runs[r], runs[r])
    BY <1>0, <1>a, UntouchedKeepsFence DEF Fenced
  <2>2. KeepsFence(runs[r], new)
    BY <1>a, <2>1 DEF KeepsFence, Run
  <2>3. runs' = [runs EXCEPT ![r] = new]
    BY <1>5 DEF LapseLease
  <2>4. Fenced(runs', leaseCount)
    BY <1>0, <2>2, <2>3, OneRunKeepsFence
  <2> QED
    BY <1>5, <1>b, <2>4 DEF LapseLease
<1>6. ASSUME NEW r \in Runs, NEW status \in LocalStatuses,
             SetLocalStatus(r, status)
      PROVE  FenceInv'
  <2> DEFINE new == TransitionRun(runs[r], status)
  <2>1. runs[r].computer = Local /\ runs[r].epoch \in Nat
    BY <1>6, <1>a DEF SetLocalStatus, IsRemote, Run
  <2>2. runs[r].lease = NoLease
    BY <1>0, <2>1 DEF Fenced, OnlyExecutingLeased
  <2>3. /\ new.status = status /\ new.epoch = runs[r].epoch
        /\ new.created = runs[r].created /\ new.lease = NoLease
    BY <1>a, <2>2, TransitionRunFields DEF LocalStatuses
  <2>4. KeepsFence(runs[r], new)
    BY <2>1, <2>3 DEF KeepsFence, LocalStatuses, ClaimableStatuses
  <2>5. runs' = [runs EXCEPT ![r] = new]
    BY <1>6 DEF SetLocalStatus
  <2> HIDE DEF new
  <2>6. Fenced(runs', leaseCount)
    BY <1>0, <2>4, <2>5, OneRunKeepsFence
  <2> QED
    BY <1>6, <1>b, <2>6 DEF SetLocalStatus
<1>7. ASSUME NEW p \in Runs, NEW r \in Runs, ContinueTask(p, r) PROVE FenceInv'
  <2>1. PICK status, epoch, mode, c :
          runs' = [runs EXCEPT ![r] = NewRun(r, c, status, epoch, mode)]
    BY <1>7 DEF ContinueTask
  <2>2. runs[r].created = 0
    BY <1>7, <1>a DEF ContinueTask, Exists, Run
  <2>3. KeepsFence(runs[r], NewRun(r, c, status, epoch, mode))
    BY SMTT(30), <2>2 DEF KeepsFence, NewRun
  <2>4. Fenced(runs', leaseCount)
    BY <1>0, <2>1, <2>3, OneRunKeepsFence
  <2> QED
    BY <1>7, <1>b, <2>4 DEF ContinueTask
<1>8. ASSUME NEW r \in Runs, NEW c \in Computers, CreateTaskRun(r, c)
      PROVE  FenceInv'
  <2>1. runs[r].created = 0
    BY <1>8, <1>a DEF CreateTaskRun, Exists, Run
  <2>2. KeepsFence(runs[r], NewRun(r, c, "queued", 1, "prepare"))
    BY SMTT(30), <2>1 DEF KeepsFence, NewRun
  <2>3. Fenced(runs', leaseCount)
    BY <1>0, <1>8, <2>2, OneRunKeepsFence DEF CreateTaskRun
  <2> QED
    BY <1>8, <1>b, <2>3 DEF CreateTaskRun
<1>9. ASSUME NEW r \in Runs, NEW c \in Computers,
             RequestRecovery(r, c) \/ RecoveryRefused(r, c)
      PROVE  FenceInv'
  BY <1>9, <1>c DEF RequestRecovery, RecoveryRefused
<1>10. ASSUME NEW r \in Runs, NEW c \in Computers, RecoverRun(r, c)
       PROVE  FenceInv'
  <2>1. PICK mode \in {"prepare", "restore", "recreate"},
             status \in {"ready", "recovering"} :
          runs' = [runs EXCEPT ![r] =
            TransitionRun(TransitionRun([Fence(runs[r], mode) EXCEPT !.computer = c],
                                        "recovering"), status)]
    BY <1>10 DEF RecoverRun
  <2> DEFINE fenced == [Fence(runs[r], mode) EXCEPT !.computer = c]
             new == TransitionRun(TransitionRun(fenced, "recovering"), status)
  <2>2. Fence(runs[r], mode) \in Run
    BY <1>a, FenceType
  <2>3. /\ fenced \in Run
        /\ fenced.epoch = runs[r].epoch + 1
        /\ fenced.lease = NoLease
        /\ fenced.created = runs[r].created
    BY <1>a, <2>2 DEF Run, Fence
  <2> HIDE DEF fenced
  <2>4. {"ready", "recovering"} \subseteq RunStatus
    BY DEF RunStatus
  <2>5. /\ TransitionRun(fenced, "recovering") \in Run
        /\ TransitionRun(fenced, "recovering").epoch = runs[r].epoch + 1
        /\ TransitionRun(fenced, "recovering").lease = NoLease
        /\ TransitionRun(fenced, "recovering").created = runs[r].created
    BY <2>3, <2>4, TransitionRunType, TransitionRunFields
  <2>6. /\ new.epoch = runs[r].epoch + 1
        /\ new.lease = NoLease
        /\ new.created = runs[r].created
    BY <2>4, <2>5, TransitionRunFields
  <2>7. runs[r].epoch \in Nat
    BY <1>a DEF Run
  <2> HIDE DEF new
  <2>8. KeepsFence(runs[r], new)
    BY <2>6, <2>7 DEF KeepsFence
  <2>9. Fenced(runs', leaseCount)
    BY <1>0, <2>1, <2>8, OneRunKeepsFence DEF new, fenced
  <2> QED
    BY <1>10, <1>b, <2>9 DEF RecoverRun
<1>11. ASSUME NEW r \in Runs, NEW c \in Computers, ReassignQueuedRun(r, c)
       PROVE  FenceInv'
  <2> DEFINE new == [runs[r] EXCEPT !.computer = c]
  <2>1. runs[r].status = "queued"
    BY <1>11 DEF ReassignQueuedRun
  <2>2. runs[r].lease = NoLease
    BY <1>0, <2>1 DEF Fenced, OnlyExecutingLeased, ClaimableStatuses
  <2>3. /\ new.epoch = runs[r].epoch /\ new.lease = NoLease
        /\ new.status = "queued" /\ new.created = runs[r].created
        /\ runs[r].epoch \in Nat
    BY <1>a, <2>1, <2>2 DEF Run
  <2>4. runs' = [runs EXCEPT ![r] = new]
    BY <1>11 DEF ReassignQueuedRun
  <2> HIDE DEF new
  <2>5. KeepsFence(runs[r], new)
    BY <2>1, <2>3 DEF KeepsFence, ClaimableStatuses
  <2>6. Fenced(runs', leaseCount)
    BY <1>0, <2>4, <2>5, OneRunKeepsFence
  <2> QED
    BY <1>11, <1>b, <2>6 DEF ReassignQueuedRun
<1>12. ASSUME NEW g \in grants, NEW seq \in 1..MaxSeq, NEW kind \in Kinds,
              Publish(g, seq, kind)
       PROVE  FenceInv'
  BY <1>12, <1>c DEF Publish
<1>13. ASSUME NEW e \in published, AcceptEvent(e) PROVE FenceInv'
  <2> DEFINE r == e.run
             run == runs[r]
             target == TargetStatus(run, e)
             renewed == [run EXCEPT !.lapsed = FALSE]
             new == [TransitionRun(renewed, target)
                       EXCEPT !.seq = e.seq, !.id = EventId(e)]
  <2>1. e \in Event /\ r \in Runs /\ run \in Run
    BY <1>0 DEF TypeOK, Event
  <2>2. target \in RunStatus
    BY <2>1, TargetStatusType
  <2>3. run.lease # NoLease
    BY <1>13 DEF AcceptEvent, PassesFence
  <2>4. /\ run.status \notin ClaimableStatuses \cup TerminalRunStatuses
        /\ run.computer # Local
    BY <1>0, <2>1, <2>3 DEF Fenced, OnlyExecutingLeased
  <2>5. target \notin ClaimableStatuses
    BY <2>1, <2>4, KindsAssumption
       DEF TargetStatus, Event, ClaimableStatuses
  <2> HIDE DEF target
  <2>6. /\ renewed \in Run /\ renewed.status = run.status
        /\ renewed.epoch = run.epoch /\ renewed.lease = run.lease
        /\ renewed.computer = run.computer /\ renewed.created = run.created
    BY <2>1 DEF Run
  <2> HIDE DEF renewed
  <2> DEFINE moved == TransitionRun(renewed, target)
  <2>7. /\ moved \in Run /\ moved.status = target /\ moved.epoch = run.epoch
        /\ moved.computer = run.computer /\ moved.created = run.created
        /\ moved.lease \in {run.lease, NoLease}
        /\ target \in TerminalRunStatuses => moved.lease = NoLease
    BY SMTT(30), <2>2, <2>4, <2>6, TransitionRunType, TransitionRunFields
  <2> HIDE DEF moved
  <2>8. /\ new.status = target /\ new.epoch = run.epoch
        /\ new.computer = run.computer /\ new.created = run.created
        /\ new.lease \in {run.lease, NoLease}
        /\ target \in TerminalRunStatuses => new.lease = NoLease
    BY <2>7 DEF moved, Run
  <2>9. run.epoch \in Nat
    BY <2>1 DEF Run
  <2>10. runs' = [runs EXCEPT ![r] = new]
    BY <1>13 DEF AcceptEvent, target, renewed
  <2> HIDE DEF new
  <2>11. KeepsFence(run, new)
    BY <2>4, <2>5, <2>8, <2>9 DEF KeepsFence
  <2>12. Fenced(runs', leaseCount)
    BY <1>0, <2>1, <2>10, <2>11, OneRunKeepsFence
  <2> QED
    BY <1>13, <1>b, <2>12 DEF AcceptEvent
<1>14. ASSUME NEW e \in published, RedeliverEvent(e) PROVE FenceInv'
  BY <1>14, <1>c DEF RedeliverEvent
<1>15. CASE UNCHANGED vars
  BY <1>15, <1>c DEF vars
<1> QED
  BY <1>1, <1>2, <1>3, <1>4, <1>5, <1>6, <1>7, <1>8, <1>9, <1>10, <1>11, <1>12,
     <1>13, <1>14, <1>15 DEF Next

\* The fence holds in every reachable state.
LEMMA FenceInvariant == Spec => []FenceInv
BY InitFence, NextFence, PTL DEF Spec

\* An execution epoch of a Task Run has at most one leaseholder, for any number
\* of runs and computers and any order of expiry, recovery, reassignment and
\* claims (acquire_lease).
THEOREM EpochHasOneHolder == Spec => []OneHolderPerEpoch
<1>1. FenceInv => OneHolderPerEpoch
  BY DEF FenceInv
<1> QED
  BY <1>1, FenceInvariant, PTL
-----------------------------------------------------------------------------
(* Working copies.  A finished run keeps its working copy only on this        *)
(* computer: what makes continue_task hand on a copy only to a run that does  *)
(* not wait for a lease.                                                      *)

Follows(run, claims) ==
  claims.status = "ready" =>
    /\ claims.computer = run.computer
    /\ run.status # "queued"
    /\ run.status \in TerminalRunStatuses => run.computer = Local

WorkspaceInv ==
  /\ FenceInv
  /\ \A r \in Runs : Follows(runs[r], workspaces[r])

\* A step leaves every other run and its claims alone.
OnlyWrites(r) ==
  \A q \in Runs \ {r} : runs'[q] = runs[q] /\ workspaces'[q] = workspaces[q]

\* transition_run keeps a run and its claims together unless it ends a remote
\* run or queues one.
LEMMA TransitionFollows ==
  ASSUME NEW run \in Run, NEW claims, NEW status \in RunStatus,
         Follows(run, claims), status # "queued",
         status \in TerminalRunStatuses => run.computer = Local
  PROVE  Follows(TransitionRun(run, status), claims)
BY TransitionRunFields DEF Follows

\* expire_leases moves no run to another computer and ends none.
LEMMA ExpireLeasesFollows ==
  ASSUME TypeOK, \A r \in Runs : Follows(runs[r], workspaces[r])
  PROVE  \A r \in Runs : Follows(ExpireLeases[r], workspaces[r])
<1> SUFFICES ASSUME NEW r \in Runs PROVE Follows(ExpireLease(r), workspaces[r])
  BY DEF ExpireLeases
<1>1. CASE runs[r].lapsed /\ runs[r].status \in LeasedStatuses
  <2>1. PICK mode \in {"prepare", "restore"} :
          ExpireLease(r) = TransitionRun(Fence(runs[r], mode), "recovering")
    BY <1>1 DEF ExpireLease
  <2>2. runs[r] \in Run
    BY DEF TypeOK
  <2>a. Fence(runs[r], mode) \in Run
    BY <2>2, FenceType
  <2>3. /\ Fence(runs[r], mode).computer = runs[r].computer
        /\ Fence(runs[r], mode).status = runs[r].status
    BY <2>2 DEF Fence, Run
  <2>4. Follows(Fence(runs[r], mode), workspaces[r])
    BY <2>3 DEF Follows
  <2>5. "recovering" \in RunStatus /\ "recovering" # "queued"
        /\ "recovering" \notin TerminalRunStatuses
    BY DEF RunStatus, TerminalRunStatuses
  <2> QED
    BY <2>1, <2>a, <2>4, <2>5, TransitionFollows
<1>2. CASE ~(runs[r].lapsed /\ runs[r].status \in LeasedStatuses)
  BY <1>2 DEF ExpireLease
<1> QED
  BY <1>1, <1>2

\* Every step keeps a run's working copy where the run is.
LEMMA NextWorkspace == WorkspaceInv /\ [Next]_vars => WorkspaceInv'
<1> SUFFICES ASSUME WorkspaceInv, [Next]_vars PROVE WorkspaceInv'
  OBVIOUS
<1>0. /\ FenceInv' /\ TypeOK
      /\ Fenced(runs, leaseCount)
      /\ \A r \in Runs : Follows(runs[r], workspaces[r])
  BY NextFence DEF WorkspaceInv, FenceInv
<1>a. /\ runs \in [Runs -> Run] /\ \A r \in Runs : runs[r] \in Run
      /\ workspaces \in [Runs -> Workspace]
      /\ \A r \in Runs : workspaces[r] \in Workspace
  BY <1>0 DEF TypeOK
<1>b. ASSUME UNCHANGED <<runs, workspaces>> PROVE WorkspaceInv'
  BY <1>0, <1>b DEF WorkspaceInv
<1>c. ASSUME NEW r \in Runs, OnlyWrites(r), Follows(runs'[r], workspaces'[r])
      PROVE  WorkspaceInv'
  <2>1. \A q \in Runs : Follows(runs'[q], workspaces'[q])
    BY <1>0, <1>c DEF OnlyWrites
  <2> QED
    BY <1>0, <2>1 DEF WorkspaceInv
<1>1. ASSUME NEW c \in Remote, Heartbeat(c) \/ GoSilent(c) PROVE WorkspaceInv'
  BY <1>1, <1>b DEF Heartbeat, GoSilent
<1>2. ASSUME NEW c \in Remote, AcquireLease(c) PROVE WorkspaceInv'
  <2>1. PICK r \in Runs :
          /\ runs' = ClaimRun(r, leaseCount + 1, ExpireLeases)
          /\ UNCHANGED workspaces
    BY <1>2 DEF AcquireLease, Claimable
  <2> DEFINE expired == ExpireLeases
             held == [expired[r] EXCEPT !.lease = leaseCount + 1, !.lapsed = FALSE]
  <2>2. /\ expired \in [Runs -> Run] /\ expired[r] \in Run
        /\ \A q \in Runs : Follows(expired[q], workspaces[q])
    BY <1>0, ExpireLeasesType, ExpireLeasesFollows
  <2>3. runs' = [expired EXCEPT ![r] = TransitionRun(held, "preparing")]
    BY <2>1 DEF ClaimRun
  <2> HIDE DEF expired
  <2>4. /\ held \in Run /\ held.computer = expired[r].computer
        /\ held.status = expired[r].status
    <3>1. leaseCount + 1 \in Nat
      BY <1>0 DEF TypeOK
    <3>2. expired[r] \in Run
      BY <2>2
    <3> QED
      BY ZenonT(30), <3>1, <3>2 DEF Run
  <2>5. Follows(held, workspaces[r])
    BY <2>2, <2>4 DEF Follows
  <2> HIDE DEF held
  <2>6. "preparing" \in RunStatus /\ "preparing" # "queued"
        /\ "preparing" \notin TerminalRunStatuses
    BY DEF RunStatus, TerminalRunStatuses
  <2>7. Follows(TransitionRun(held, "preparing"), workspaces[r])
    BY <2>4, <2>5, <2>6, TransitionFollows
  <2>8. \A q \in Runs : Follows(runs'[q], workspaces[q])
    <3> SUFFICES ASSUME NEW q \in Runs PROVE Follows(runs'[q], workspaces[q])
      OBVIOUS
    <3>1. CASE q = r
      BY <2>2, <2>3, <2>7, <3>1
    <3>2. CASE q # r
      BY <2>2, <2>3, <3>2
    <3> QED
      BY <3>1, <3>2
  <2> QED
    BY <1>0, <2>1, <2>8 DEF WorkspaceInv
<1>3. ASSUME NEW c \in Remote, AcquireNothing(c) PROVE WorkspaceInv'
  BY <1>0, <1>3, ExpireLeasesFollows DEF WorkspaceInv, AcquireNothing
<1>4. CASE ExpireStaleState
  BY <1>0, <1>4, ExpireLeasesFollows DEF WorkspaceInv, ExpireStaleState
<1>5. ASSUME NEW r \in Runs, LapseLease(r) PROVE WorkspaceInv'
  <2>1. Follows([runs[r] EXCEPT !.lapsed = TRUE], workspaces[r])
    BY <1>0, <1>a DEF Follows, Run
  <2>2. /\ runs'[r] = [runs[r] EXCEPT !.lapsed = TRUE]
        /\ workspaces'[r] = workspaces[r] /\ OnlyWrites(r)
    BY <1>5, <1>a DEF LapseLease, OnlyWrites
  <2> QED
    BY <1>c, <2>1, <2>2
<1>6. ASSUME NEW r \in Runs, NEW status \in LocalStatuses,
             SetLocalStatus(r, status)
      PROVE  WorkspaceInv'
  <2>1. /\ runs[r].computer = Local
        /\ status \in RunStatus /\ status # "queued"
        /\ runs' = [runs EXCEPT ![r] = TransitionRun(runs[r], status)]
    BY <1>6 DEF SetLocalStatus, IsRemote, LocalStatuses
  <2>2. CASE runs[r].status = "preparing" /\ status = "ready"
    <3>1. workspaces' = [workspaces EXCEPT ![r] =
                           [status |-> "ready", computer |-> Local]]
      BY <1>6, <2>2 DEF SetLocalStatus
    <3>2. Follows(TransitionRun(runs[r], status),
                  [status |-> "ready", computer |-> Local])
      BY <1>a, <2>1, TransitionRunFields DEF Follows
    <3>3. /\ runs'[r] = TransitionRun(runs[r], status)
          /\ workspaces'[r] = [status |-> "ready", computer |-> Local]
          /\ OnlyWrites(r)
      BY <1>a, <2>1, <3>1 DEF OnlyWrites
    <3> QED
      BY <1>c, <3>2, <3>3
  <2>3. CASE ~(runs[r].status = "preparing" /\ status = "ready")
    <3>1. UNCHANGED workspaces
      BY <1>6, <2>3 DEF SetLocalStatus
    <3>2. Follows(TransitionRun(runs[r], status), workspaces[r])
      BY <1>0, <1>a, <2>1, TransitionFollows
    <3>3. /\ runs'[r] = TransitionRun(runs[r], status)
          /\ workspaces'[r] = workspaces[r] /\ OnlyWrites(r)
      BY <1>a, <2>1, <3>1 DEF OnlyWrites
    <3> QED
      BY <1>c, <3>2, <3>3
  <2> QED
    BY <2>2, <2>3
<1>7. ASSUME NEW p \in Runs, NEW r \in Runs, ContinueTask(p, r)
      PROVE  WorkspaceInv'
  <2> DEFINE c == runs[p].computer
  <2>1. PICK epoch, mode, status :
          /\ status = IF c = Local THEN "ready" ELSE "queued"
          /\ runs' = [runs EXCEPT ![r] = NewRun(r, c, status, epoch, mode)]
    BY ZenonT(30), <1>7 DEF ContinueTask
  <2>2. NewRun(r, c, status, epoch, mode).computer = c
        /\ NewRun(r, c, status, epoch, mode).status = status
    BY DEF NewRun
  <2>3. CASE workspaces[p].status = "ready"
    <3>1. workspaces' = [workspaces EXCEPT ![r] = workspaces[p]]
      BY <1>7, <2>3 DEF ContinueTask
    <3>2. workspaces[p].computer = c /\ c = Local
      BY <1>0, <1>7, <2>3 DEF ContinueTask, IsFinished, IsRemote, Follows
    <3>3. Follows(NewRun(r, c, status, epoch, mode), workspaces[p])
      BY <2>1, <2>2, <3>2 DEF Follows
    <3>4. /\ runs'[r] = NewRun(r, c, status, epoch, mode)
          /\ workspaces'[r] = workspaces[p] /\ OnlyWrites(r)
      BY <1>a, <2>1, <3>1 DEF OnlyWrites
    <3> QED
      BY <1>c, <3>3, <3>4
  <2>4. CASE workspaces[p].status # "ready"
    <3>1. workspaces' = [workspaces EXCEPT ![r] =
                           [status |-> "pending", computer |-> c]]
      BY <1>7, <2>4 DEF ContinueTask
    <3>2. Follows(NewRun(r, c, status, epoch, mode),
                  [status |-> "pending", computer |-> c])
      BY DEF Follows
    <3>3. /\ runs'[r] = NewRun(r, c, status, epoch, mode)
          /\ workspaces'[r] = [status |-> "pending", computer |-> c] /\ OnlyWrites(r)
      BY <1>a, <2>1, <3>1 DEF OnlyWrites
    <3> QED
      BY <1>c, <3>2, <3>3
  <2> QED
    BY <2>3, <2>4
<1>8. ASSUME NEW r \in Runs, NEW c \in Computers, CreateTaskRun(r, c)
      PROVE  WorkspaceInv'
  <2>1. Follows(NewRun(r, c, "queued", 1, "prepare"),
                [status |-> "pending", computer |-> c])
    BY DEF Follows
  <2>2. /\ runs'[r] = NewRun(r, c, "queued", 1, "prepare")
        /\ workspaces'[r] = [status |-> "pending", computer |-> c] /\ OnlyWrites(r)
    BY <1>a, <1>8 DEF CreateTaskRun, OnlyWrites
  <2> QED
    BY <1>c, <2>1, <2>2
<1>9. ASSUME NEW r \in Runs, NEW c \in Computers,
             RequestRecovery(r, c) \/ RecoveryRefused(r, c)
      PROVE  WorkspaceInv'
  BY <1>9, <1>b DEF RequestRecovery, RecoveryRefused
<1>10. ASSUME NEW r \in Runs, NEW c \in Computers, RecoverRun(r, c)
       PROVE  WorkspaceInv'
  <2>1. PICK mode \in {"prepare", "restore", "recreate"},
             status \in {"ready", "recovering"} :
          runs' = [runs EXCEPT ![r] =
            TransitionRun(TransitionRun([Fence(runs[r], mode) EXCEPT !.computer = c],
                                        "recovering"), status)]
    BY ZenonT(30), <1>10 DEF RecoverRun
  <2> DEFINE fenced == [Fence(runs[r], mode) EXCEPT !.computer = c]
             waiting == TransitionRun(fenced, "recovering")
             new == TransitionRun(waiting, status)
  <2>2. Fence(runs[r], mode) \in Run
    BY <1>a, FenceType
  <2>3. fenced \in Run /\ fenced.computer = c
    BY ZenonT(30), <1>a, <2>2 DEF Run, Fence
  <2> HIDE DEF fenced
  <2>4. /\ {"ready", "recovering"} \subseteq RunStatus
        /\ {"ready", "recovering"} \cap TerminalRunStatuses = {}
        /\ "queued" \notin {"ready", "recovering"}
    BY DEF RunStatus, TerminalRunStatuses
  <2>5. waiting \in Run /\ waiting.computer = c
    BY <2>3, <2>4, TransitionRunType, TransitionRunFields
  <2> HIDE DEF waiting
  <2>6. new.computer = c /\ new.status = status
    BY <2>4, <2>5, TransitionRunFields
  <2>7. runs' = [runs EXCEPT ![r] = new]
    BY <2>1 DEF fenced, waiting
  <2> HIDE DEF new
  <2>8. CASE c # runs[r].computer
    <3>1. workspaces' = [workspaces EXCEPT ![r] =
                           [status |-> "pending", computer |-> c]]
      BY <1>10, <2>8 DEF RecoverRun, RecreateClaims
    <3>2. Follows(new, [status |-> "pending", computer |-> c])
      BY DEF Follows
    <3>3. /\ runs'[r] = new
          /\ workspaces'[r] = [status |-> "pending", computer |-> c] /\ OnlyWrites(r)
      BY <1>a, <2>7, <3>1 DEF OnlyWrites
    <3> QED
      BY <1>c, <3>2, <3>3
  <2>9. CASE c = runs[r].computer
    <3>1. UNCHANGED workspaces
      BY <1>10, <2>9 DEF RecoverRun
    <3>2. Follows(new, workspaces[r])
      BY <1>0, <2>4, <2>6, <2>9 DEF Follows
    <3>3. /\ runs'[r] = new
          /\ workspaces'[r] = workspaces[r] /\ OnlyWrites(r)
      BY <1>a, <2>7, <3>1 DEF OnlyWrites
    <3> QED
      BY <1>c, <3>2, <3>3
  <2> QED
    BY <2>8, <2>9
<1>11. ASSUME NEW r \in Runs, NEW c \in Computers, ReassignQueuedRun(r, c)
       PROVE  WorkspaceInv'
  <2> DEFINE run == [runs[r] EXCEPT !.computer = c]
             claims == [workspaces[r] EXCEPT !.computer = c]
  <2>1. workspaces[r].status # "ready"
    BY <1>0, <1>11 DEF ReassignQueuedRun, Follows
  <2>2. claims.status = workspaces[r].status
    BY <1>a DEF Workspace
  <2>3. Follows(run, claims)
    BY <2>1, <2>2 DEF Follows
  <2>4. /\ runs' = [runs EXCEPT ![r] = run]
        /\ workspaces' = [workspaces EXCEPT ![r] = claims]
    BY <1>11 DEF ReassignQueuedRun
  <2>5. runs'[r] = run /\ workspaces'[r] = claims /\ OnlyWrites(r)
    BY <1>a, <2>4 DEF OnlyWrites
  <2> QED
    BY <1>c, <2>3, <2>5
<1>12. ASSUME NEW g \in grants, NEW seq \in 1..MaxSeq, NEW kind \in Kinds,
              Publish(g, seq, kind)
       PROVE  WorkspaceInv'
  BY <1>12, <1>b DEF Publish
<1>13. ASSUME NEW e \in published, AcceptEvent(e) PROVE WorkspaceInv'
  <2> DEFINE r == e.run
             run == runs[r]
             target == TargetStatus(run, e)
             renewed == [run EXCEPT !.lapsed = FALSE]
             moved == TransitionRun(renewed, target)
             new == [moved EXCEPT !.seq = e.seq, !.id = EventId(e)]
             claims == ApplyToClaims(workspaces[r], run, e)
  <2>1. e \in Event /\ r \in Runs /\ run \in Run
    BY <1>0 DEF TypeOK, Event
  <2>2. target \in RunStatus
    BY <2>1, TargetStatusType
  <2>3. run.lease # NoLease
    BY <1>13 DEF AcceptEvent, PassesFence
  <2>4. run.status \notin ClaimableStatuses \cup TerminalRunStatuses
    BY <1>0, <2>1, <2>3 DEF Fenced, OnlyExecutingLeased
  <2>5. target # "queued"
    BY <2>1, <2>4, KindsAssumption DEF TargetStatus, Event, ClaimableStatuses
  <2>6. e.kind = "workspace" => target = run.status
    BY DEF TargetStatus
  <2>7. /\ runs' = [runs EXCEPT ![r] = new]
        /\ workspaces' = [workspaces EXCEPT ![r] = claims]
    BY <1>13 DEF AcceptEvent
  <2>8. claims.status = "ready" =>
          claims.computer = run.computer /\ target \notin TerminalRunStatuses
    <3>1. CASE e.kind = "workspace"
      BY <2>4, <2>6, <3>1 DEF ApplyToClaims
    <3>2. CASE e.kind # "workspace" /\ target \in TerminalRunStatuses
      BY <1>a, <2>1, <3>2 DEF ApplyToClaims, Workspace
    <3>3. CASE e.kind # "workspace" /\ target \notin TerminalRunStatuses
      BY <1>0, <2>1, <3>3 DEF ApplyToClaims, Follows
    <3> QED
      BY <3>1, <3>2, <3>3
  <2> HIDE DEF target, claims
  <2>9. renewed \in Run /\ renewed.computer = run.computer
    BY ZenonT(30), <2>1 DEF Run
  <2> HIDE DEF renewed
  <2>10. moved \in Run /\ moved.status = target /\ moved.computer = run.computer
    BY <2>2, <2>9, TransitionRunType, TransitionRunFields
  <2> HIDE DEF moved
  <2>11. new.status = target /\ new.computer = run.computer
    BY <2>10 DEF Run
  <2> HIDE DEF new
  <2>12. Follows(new, claims)
    BY <2>5, <2>8, <2>11 DEF Follows
  <2>13. runs'[r] = new /\ workspaces'[r] = claims /\ OnlyWrites(r)
    BY <1>a, <2>1, <2>7 DEF OnlyWrites
  <2> QED
    BY <1>c, <2>1, <2>12, <2>13
<1>14. ASSUME NEW e \in published, RedeliverEvent(e) PROVE WorkspaceInv'
  BY <1>14, <1>b DEF RedeliverEvent
<1>15. CASE UNCHANGED vars
  BY <1>15, <1>b DEF vars
<1> QED
  BY <1>1, <1>2, <1>3, <1>4, <1>5, <1>6, <1>7, <1>8, <1>9, <1>10, <1>11, <1>12,
     <1>13, <1>14, <1>15 DEF Next

\* A ready working copy is always on the computer its run belongs to, and its run
\* does not wait for a first lease, through events, expiry, recovery, moves and
\* follow-ups (attach_prepared_workspaces, recover_run, continue_task).
THEOREM WorkspacesFollowRuns == Spec => []WorkspaceFollowsRun
<1>1. Init => WorkspaceInv
  <2> SUFFICES ASSUME Init PROVE WorkspaceInv
    OBVIOUS
  <2>1. FenceInv
    BY InitFence
  <2>2. \A r \in Runs : workspaces[r].status = "pending"
    BY DEF Init
  <2> QED
    BY <2>1, <2>2 DEF WorkspaceInv, Follows
<1>2. WorkspaceInv => WorkspaceFollowsRun
  BY DEF WorkspaceInv, Follows, WorkspaceFollowsRun
<1> QED
  BY <1>1, <1>2, NextWorkspace, PTL DEF Spec
=============================================================================
