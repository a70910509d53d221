---------------------- MODULE TaskRunsOwnershipProofs ----------------------
(* TaskRuns implements RunOwnership, resting on the invariants of the fence *)
(* and of the log.                                                          *)
EXTENDS TaskRunsLogProofs, SequenceTheorems

\* What the abstract KeepOrTake says of a run record.
Owned(old, new) ==
  \/ Generation(new) = Generation(old) /\ new.lease = old.lease
  \/ Generation(new) > Generation(old) /\ new.lease = NoLease

\* A generation is a number.
LEMMA GenerationType ==
  ASSUME NEW run \in Run
  PROVE  Generation(run) \in Nat
BY DEF Generation, Run

\* An operation that treats every run so takes runs or leaves them.
LEMMA OwnedSuffices ==
  ASSUME \A r \in Runs : Owned(runs[r], runs'[r]), UNCHANGED <<grants, log>>
  PROVE  Ownership!Take
BY DEF Ownership!Take, Ownership!KeepOrTake, Owned

\* An operation that rewrites one run.
LEMMA OneRunOwned ==
  ASSUME TypeOK, NEW r \in Runs, NEW record,
         runs' = [runs EXCEPT ![r] = record], Owned(runs[r], record),
         UNCHANGED <<grants, log>>
  PROVE  Ownership!Take
<1>1. \A q \in Runs : Owned(runs[q], runs'[q])
  <2> SUFFICES ASSUME NEW q \in Runs PROVE Owned(runs[q], runs'[q])
    OBVIOUS
  <2>1. runs \in [Runs -> Run]
    BY DEF TypeOK
  <2>2. CASE q = r
    BY <2>1, <2>2
  <2>3. CASE q # r
    BY <2>1, <2>3 DEF Owned
  <2> QED
    BY <2>2, <2>3
<1> QED
  BY <1>1, OwnedSuffices

\* A run that was not created yet has no lease.
LEMMA AbsentUnleased ==
  ASSUME FenceInv, NEW r \in Runs, runs[r].created = 0
  PROVE  runs[r].lease = NoLease
<1> SUFFICES ASSUME runs[r].lease # NoLease PROVE FALSE
  OBVIOUS
<1> DEFINE g == [run |-> r, computer |-> runs[r].computer,
                 epoch |-> runs[r].epoch, lease |-> runs[r].lease]
<1>1. g \in grants /\ g.run = r
  BY DEF FenceInv, Fenced, LeaseGranted
<1> HIDE DEF g
<1>2. runs[r].created > 0
  BY <1>1 DEF FenceInv, Fenced, GrantsPast
<1> QED
  BY <1>2

\* A new run exists.
LEMMA NewRunCreated ==
  ASSUME NEW r, NEW c, NEW status, NEW epoch, NEW mode
  PROVE  NewRun(r, c, status, epoch, mode).created > 0
<1> DEFINE existing == {q \in Runs : Exists(q)}
<1>1. Cardinality(existing) \in Nat
  BY ConstantsAssumption, FS_Subset, FS_CardinalityType
<1> QED
  BY <1>1 DEF NewRun

\* expire_leases takes a run from its holder only with a new epoch.
LEMMA ExpireLeasesOwned ==
  ASSUME FenceInv, NEW r \in Runs
  PROVE  Owned(runs[r], ExpireLeases[r])
<1>1. runs[r] \in Run
  BY DEF FenceInv, TypeOK
<1>2. ExpireLeases[r] = ExpireLease(r)
  BY DEF ExpireLeases
<1>3. CASE runs[r].lapsed /\ runs[r].status \in LeasedStatuses
  <2>1. PICK mode \in {"prepare", "restore"} :
          ExpireLease(r) = TransitionRun(Fence(runs[r], mode), "recovering")
    BY <1>3 DEF ExpireLease
  <2>2. /\ ExpireLease(r).epoch = runs[r].epoch + 1
        /\ ExpireLease(r).lease = NoLease
        /\ ExpireLease(r).created = runs[r].created
    BY <1>1, <2>1 DEF TransitionRun, Fence, Run, TerminalRunStatuses
  <2>3. runs[r].epoch \in Nat /\ runs[r].created \in Nat
    BY <1>1 DEF Run
  <2>4. runs[r].created = 0 => runs[r].lease = NoLease
    BY AbsentUnleased
  <2> QED
    BY <1>2, <2>2, <2>3, <2>4 DEF Owned, Generation
<1>4. CASE ~(runs[r].lapsed /\ runs[r].status \in LeasedStatuses)
  BY <1>2, <1>4 DEF ExpireLease, Owned
<1> QED
  BY <1>3, <1>4

-----------------------------------------------------------------------------
(* The two steps that are more than a Take. *)

\* acquire_lease hands out an epoch nobody held.
LEMMA AcquireLeaseHandsOut ==
  ASSUME FenceInv, TypeOK', NEW c \in Remote, AcquireLease(c)
  PROVE  \E r \in Runs : Ownership!HandOut(r)
<1> DEFINE old == ExpireLeases
           lease == leaseCount + 1
<1>0. PICK r \in Claimable(c, old) :
        /\ runs' = ClaimRun(r, lease, old)
        /\ grants' = grants \cup
             {[run |-> r, computer |-> c, epoch |-> old[r].epoch, lease |-> lease]}
  BY DEF AcquireLease
<1>1. log' = log
  BY DEF AcquireLease
<1>2. Fenced(old, leaseCount)
  BY ExpireLeasesKeepsFence DEF FenceInv
<1>3. /\ old \in [Runs -> Run] /\ leaseCount \in Nat /\ grants \subseteq Grant
      /\ runs \in [Runs -> Run]
  BY ExpireLeasesType DEF FenceInv, TypeOK
<1>4. \A q \in Runs : Owned(runs[q], old[q])
  BY ExpireLeasesOwned
<1>5. r \in Runs /\ old[r].created > 0 /\ old[r].status \in ClaimableStatuses
  BY <1>0 DEF Claimable
<1> HIDE DEF old
<1>6. old[r] \in Run /\ runs[r] \in Run
  BY <1>3, <1>5
<1>7. /\ runs'[r].epoch = old[r].epoch /\ runs'[r].lease = lease
      /\ runs'[r].created = old[r].created
  <2> DEFINE leased == [old[r] EXCEPT !.lease = lease, !.lapsed = FALSE]
  <2>1. leased \in Run
    <3>1. lease \in Nat
      BY <1>3
    <3> HIDE DEF lease
    <3> QED
      BY <1>6, <3>1 DEF Run
  <2>2. /\ leased.epoch = old[r].epoch /\ leased.lease = lease
        /\ leased.created = old[r].created
    BY <1>6 DEF Run
  <2>3. runs'[r] = TransitionRun(leased, "preparing")
    BY <1>0, <1>3, <1>5 DEF ClaimRun
  <2> HIDE DEF leased
  <2> QED
    BY <2>1, <2>2, <2>3, TransitionRunFields DEF RunStatus, TerminalRunStatuses
<1>8. Generation(runs'[r]) = old[r].epoch /\ Generation(old[r]) = old[r].epoch
  BY <1>5, <1>7 DEF Generation
<1>9. \A q \in Runs \ {r} : Owned(runs[q], runs'[q])
  BY <1>0, <1>3, <1>4, <1>5 DEF ClaimRun
<1>10. Generation(runs'[r]) >= Generation(runs[r])
  <2>1. Generation(runs[r]) \in Nat /\ Generation(old[r]) \in Nat
    BY <1>6, GenerationType
  <2>2. Owned(runs[r], old[r])
    BY <1>4, <1>5
  <2> QED
    BY <1>8, <2>1, <2>2 DEF Owned
<1>11. \A g \in grants : g.lease # lease
  BY <1>2, <1>3 DEF Fenced, GrantsPast
<1>12. \A g \in grants : g.run = r => g.epoch < old[r].epoch
  BY <1>2, <1>5 DEF Fenced, WaitingUngranted
<1>13. lease # NoLease
  BY <1>3 DEF NoLease
<1> HIDE DEF lease
<1>14. {<<g.run, g.epoch, g.lease>> : g \in grants'} =
         {<<g.run, g.epoch, g.lease>> : g \in grants}
           \cup {<<r, Generation(runs'[r]), runs'[r].lease>>}
  <2> DEFINE g0 == [run |-> r, computer |-> c, epoch |-> old[r].epoch,
                    lease |-> lease]
             T(g) == <<g.run, g.epoch, g.lease>>
  <2>1. grants' = grants \cup {g0}
    BY <1>0
  <2>2. T(g0) = <<r, Generation(runs'[r]), runs'[r].lease>>
    BY <1>7, <1>8
  <2> HIDE DEF g0, T
  <2>3. {T(g) : g \in grants'} = {T(g) : g \in grants} \cup {T(g0)}
    BY <2>1
  <2> QED
    BY <2>2, <2>3 DEF T
<1>15. Ownership!HandOut(r)
  <2> DEFINE handed == {<<g.run, g.epoch, g.lease>> : g \in grants}
  <2>1. \A h \in handed : h[3] # lease
    BY <1>11
  <2>2. \A h \in handed : h[1] = r => h[2] < Generation(runs'[r])
    BY <1>8, <1>12
  <2>3. \A q \in Runs \ {r} : Ownership!KeepOrTake(q)
    BY <1>9 DEF Ownership!KeepOrTake, Owned
  <2>4. handed' = handed \cup {<<r, Generation(runs'[r]), runs'[r].lease>>}
    BY <1>14
  <2> HIDE DEF handed
  <2>5. ([q \in Runs |-> Generation(runs[q])]')[r] = Generation(runs'[r])
        /\ ([q \in Runs |-> runs[q].lease]')[r] = lease
        /\ [q \in Runs |-> Generation(runs[q])][r] = Generation(runs[r])
    BY <1>5, <1>7
  <2> QED
    BY <1>1, <1>5, <1>7, <1>10, <1>13, <2>1, <2>2, <2>3, <2>4, <2>5
       DEF Ownership!HandOut, handed
<1> QED
  BY <1>5, <1>15

\* The abstract log of a run.
AbstractLog(events) ==
  [i \in 1..Len(events) |-> <<events[i].epoch, events[i].seq>>]

\* The abstraction of a log has its length and, in its order, its numbers.
LEMMA AbstractFields ==
  ASSUME NEW events \in Seq(Event)
  PROVE  /\ Len(AbstractLog(events)) = Len(events)
         /\ \A i \in 1..Len(events) :
              AbstractLog(events)[i] = <<events[i].epoch, events[i].seq>>
<1>1. Len(events) \in Nat
  OBVIOUS
<1> QED
  BY <1>1 DEF AbstractLog

\* Appending an event appends its epoch and number.
LEMMA AbstractAppend ==
  ASSUME NEW events \in Seq(Event), NEW e \in Event
  PROVE  AbstractLog(Append(events, e)) =
           Append(AbstractLog(events), <<e.epoch, e.seq>>)
<1> DEFINE long == Append(events, e)
           entry(x) == <<x.epoch, x.seq>>
           short == AbstractLog(events)
<1>1. Len(events) \in Nat /\ Len(long) = Len(events) + 1
  OBVIOUS
<1>2. /\ \A i \in 1..Len(events) : long[i] = events[i]
      /\ long[Len(events) + 1] = e
  OBVIOUS
<1>3. short = [i \in 1..Len(events) |-> entry(events[i])]
  BY DEF AbstractLog
<1> HIDE DEF entry
<1>4. short \in Seq({entry(x) : x \in Event}) /\ Len(short) = Len(events)
  BY <1>1, <1>3
<1>5. entry(e) \in {entry(x) : x \in Event}
  OBVIOUS
<1> HIDE DEF short
<1> DEFINE S == {entry(x) : x \in Event}
           appended == Append(short, entry(e))
           mapped == [i \in 1..Len(events) + 1 |-> entry(long[i])]
<1>6. /\ appended \in Seq(S) /\ Len(appended) = Len(events) + 1
      /\ \A i \in 1..Len(events) : appended[i] = short[i]
      /\ appended[Len(events) + 1] = entry(e)
  BY <1>4, <1>5, AppendProperties
<1>7. AbstractLog(long) = mapped
  BY <1>1 DEF AbstractLog, entry
<1>8. mapped \in Seq(S) /\ Len(mapped) = Len(events) + 1
  BY <1>1
<1>9. \A i \in 1..Len(mapped) : mapped[i] = appended[i]
  <2>1. \A i \in 1..Len(events) : mapped[i] = appended[i]
    BY <1>1, <1>2, <1>3, <1>6
  <2>2. mapped[Len(events) + 1] = appended[Len(events) + 1]
    BY <1>1, <1>2, <1>6
  <2> HIDE DEF mapped, appended
  <2> QED
    BY <1>1, <1>8, <2>1, <2>2
<1> HIDE DEF mapped, appended, S
<1>10. mapped = appended
  BY <1>6, <1>8, <1>9, SeqEqual
<1> QED
  BY <1>7, <1>10 DEF appended, entry, short

\* accept_event is a write of the holder.
LEMMA AcceptEventWrites ==
  ASSUME LogInv, NEW e \in published, AcceptEvent(e)
  PROVE  Ownership!Next
<1> DEFINE r == e.run
           run == runs[r]
           target == TargetStatus(run, e)
           renewed == [run EXCEPT !.lapsed = FALSE]
           moved == TransitionRun(renewed, target)
           new == [moved EXCEPT !.seq = e.seq, !.id = EventId(e)]
<1>1. /\ e \in Event /\ r \in Runs /\ run \in Run /\ runs \in [Runs -> Run]
      /\ log \in [Runs -> Seq(Event)] /\ log[r] \in Seq(Event)
  BY DEF LogInv, FenceInv, TypeOK, Event
<1>2. target \in RunStatus
  BY <1>1, TargetStatusType
<1>3. /\ run.lease # NoLease /\ run.epoch = e.epoch /\ ~(e.seq <= run.seq)
      /\ runs' = [runs EXCEPT ![r] = new]
      /\ log' = [log EXCEPT ![r] = Append(log[r], e)]
      /\ grants' = grants
  BY DEF AcceptEvent, PassesFence, IsEventOwner, IsStaleEvent
<1> HIDE DEF target
<1>4. /\ renewed \in Run /\ renewed.epoch = run.epoch
      /\ renewed.lease = run.lease /\ renewed.created = run.created
  BY <1>1 DEF Run
<1> HIDE DEF renewed
<1>5. /\ moved \in Run /\ moved.epoch = run.epoch /\ moved.created = run.created
      /\ moved.lease \in {run.lease, NoLease}
  BY <1>2, <1>4, TransitionRunType, TransitionRunFields
<1> HIDE DEF moved
<1>6. /\ new.epoch = run.epoch /\ new.created = run.created
      /\ new.lease \in {run.lease, NoLease}
  BY <1>5 DEF Run
<1> HIDE DEF new
<1>7. run.created > 0 /\ Generation(run) = e.epoch
  <2>1. run.created \in Nat
    BY <1>1 DEF Run
  <2>2. FenceInv
    BY DEF LogInv
  <2>3. run.created > 0
    BY <1>1, <1>3, <2>1, <2>2, AbsentUnleased
  <2> QED
    BY <1>3, <2>3 DEF Generation
<1>8. \A q \in Runs : Generation(runs'[q]) = Generation(runs[q])
  BY <1>1, <1>3, <1>6 DEF Generation
<1>9. \/ \A q \in Runs : runs'[q].lease = runs[q].lease
      \/ \A q \in Runs :
           runs'[q].lease = IF q = r THEN NoLease ELSE runs[q].lease
  BY <1>1, <1>3, <1>6
<1>10. \A i \in 1..Len(log[r]) :
         \/ log[r][i].epoch < e.epoch
         \/ log[r][i].epoch = e.epoch /\ log[r][i].seq < e.seq
  <2> SUFFICES ASSUME NEW i \in 1..Len(log[r])
               PROVE  \/ log[r][i].epoch < e.epoch
                      \/ log[r][i].epoch = e.epoch /\ log[r][i].seq < e.seq
    OBVIOUS
  <2>1. log[r][i] \in Event
    BY <1>1
  <2>2. /\ log[r][i].seq \in Nat /\ e.seq \in Nat /\ run.seq \in Nat
        /\ log[r][i].epoch \in Nat /\ e.epoch \in Nat
    BY <1>1, <2>1 DEF Event, Run
  <2>3. \/ log[r][i].epoch < run.epoch
        \/ log[r][i].epoch = run.epoch /\ log[r][i].seq <= run.seq
    BY <1>1 DEF LogInv, Logged, LogPast
  <2> QED
    BY <1>3, <2>2, <2>3
<1> DEFINE gen == [q \in Runs |-> Generation(runs[q])]
           held == [q \in Runs |-> runs[q].lease]
           handed == {<<g.run, g.epoch, g.lease>> : g \in grants}
           alog == [q \in Runs |-> AbstractLog(log[q])]
<1>11. alog' = [alog EXCEPT ![r] = Append(@, <<gen[r], e.seq>>)]
  <2>1. AbstractLog(log'[r]) = Append(AbstractLog(log[r]), <<e.epoch, e.seq>>)
    BY <1>1, <1>3, AbstractAppend
  <2>2. \A q \in Runs : q # r => log'[q] = log[q]
    BY <1>1, <1>3
  <2>3. gen[r] = e.epoch
    BY <1>1, <1>7
  <2> QED
    BY <1>1, <2>1, <2>2, <2>3
<1>12. /\ held[r] # NoLease /\ gen' = gen /\ handed' = handed
       /\ held' = held \/ held' = [held EXCEPT ![r] = NoLease]
  BY <1>1, <1>3, <1>8, <1>9
<1>13. \A i \in 1..Len(alog[r]) :
         \/ alog[r][i][1] < gen[r]
         \/ alog[r][i][1] = gen[r] /\ alog[r][i][2] < e.seq
  <2>1. /\ Len(alog[r]) = Len(log[r]) /\ gen[r] = e.epoch
        /\ \A i \in 1..Len(log[r]) :
             alog[r][i] = <<log[r][i].epoch, log[r][i].seq>>
    <3>1. log[r] \in Seq(Event) /\ alog[r] = AbstractLog(log[r])
      BY <1>1
    <3>2. gen[r] = e.epoch
      BY <1>1, <1>7
    <3> HIDE DEF alog, gen
    <3> QED
      BY <3>1, <3>2, AbstractFields
  <2> HIDE DEF alog, gen
  <2> QED
    BY <1>10, <2>1
<1>14. Len(log'[r]) = Len(log[r]) + 1 /\ log'[r][Len(log[r]) + 1] = e
  BY <1>1, <1>3
<1>15. /\ Len(alog[r]) = Len(log[r]) /\ Len(alog'[r]) = Len(log[r]) + 1
       /\ alog'[r][Len(log[r]) + 1][2] = e.seq
  <2>1. /\ log[r] \in Seq(Event) /\ alog[r] = AbstractLog(log[r])
        /\ log'[r] \in Seq(Event) /\ alog'[r] = AbstractLog(log'[r])
    BY <1>1, <1>3
  <2>2. Len(log[r]) + 1 \in 1..Len(log'[r])
    BY <1>14, <2>1
  <2> HIDE DEF alog
  <2> QED
    BY <1>14, <2>1, <2>2, AbstractFields
<1>16. Ownership!Write(r)
  <2>1. alog = [q \in Runs |-> [i \in 1..Len(log[q]) |->
                                 <<log[q][i].epoch, log[q][i].seq>>]]
    BY DEF AbstractLog
  <2>2. alog' = [q \in Runs |-> [i \in 1..Len(log[q]) |->
                                 <<log[q][i].epoch, log[q][i].seq>>]]'
    BY DEF AbstractLog
  <2> HIDE DEF alog
  <2> QED
    BY <1>1, <1>11, <1>12, <1>13, <1>15, <2>1, <2>2 DEF Ownership!Write
<1> QED
  BY <1>1, <1>16 DEF Ownership!Next

-----------------------------------------------------------------------------
(* The refinement. *)

\* Nothing is owned at the start.
LEMMA InitOwned == Init => Ownership!Init
<1> SUFFICES ASSUME Init PROVE Ownership!Init
  OBVIOUS
<1>1. \A r \in Runs : runs[r].created = 0 /\ runs[r].lease = NoLease
  BY DEF Init
<1>2. [r \in Runs |-> Generation(runs[r])] = [r \in Runs |-> 0]
  BY <1>1 DEF Generation
<1>3. [r \in Runs |-> runs[r].lease] = [r \in Runs |-> NoLease]
  BY <1>1
<1>4. {<<g.run, g.epoch, g.lease>> : g \in grants} = {}
  BY DEF Init
<1>5. \A r \in Runs : log[r] = <<>>
  BY DEF Init
<1>6. \A r \in Runs :
        [i \in 1..Len(log[r]) |-> <<log[r][i].epoch, log[r][i].seq>>] = <<>>
  BY <1>5
<1>7. [r \in Runs |->
         [i \in 1..Len(log[r]) |-> <<log[r][i].epoch, log[r][i].seq>>]]
      = [r \in Runs |-> <<>>]
  BY <1>6
<1> QED
  BY <1>2, <1>3, <1>4, <1>7 DEF Ownership!Init

\* Every step is a step of single ownership, or leaves it alone.
LEMMA NextOwned == LogInv /\ [Next]_vars => [Ownership!Next]_(Ownership!vars)
<1> SUFFICES ASSUME LogInv, [Next]_vars
             PROVE  Ownership!Next \/ UNCHANGED Ownership!vars
  OBVIOUS
<1> USE DEF Ownership!Next
<1>0. FenceInv /\ TypeOK /\ TypeOK'
  BY NextType DEF LogInv, FenceInv
<1>a. runs \in [Runs -> Run] /\ \A r \in Runs : runs[r] \in Run
  BY <1>0 DEF TypeOK
<1>b. ASSUME UNCHANGED <<runs, grants, log>> PROVE UNCHANGED Ownership!vars
  BY <1>b DEF Ownership!vars
<1>c. \A r \in Runs : /\ runs[r].epoch \in Nat \ {0} /\ runs[r].created \in Nat
                      /\ runs[r].created = 0 => runs[r].lease = NoLease
  BY <1>0, <1>a, AbsentUnleased DEF Run
<1>1. ASSUME NEW c \in Remote, Heartbeat(c) \/ GoSilent(c)
      PROVE  UNCHANGED Ownership!vars
  BY <1>1, <1>b DEF Heartbeat, GoSilent
<1>2. ASSUME NEW c \in Remote, AcquireLease(c) PROVE Ownership!Next
  BY <1>0, <1>2, AcquireLeaseHandsOut
<1>3. ASSUME NEW c \in Remote, AcquireNothing(c) PROVE Ownership!Next
  <2>1. \A r \in Runs : Owned(runs[r], runs'[r])
    BY <1>0, <1>3, ExpireLeasesOwned DEF AcquireNothing
  <2> QED
    BY <1>3, <2>1, OwnedSuffices DEF AcquireNothing
<1>4. ASSUME ExpireStaleState PROVE Ownership!Next
  <2>1. \A r \in Runs : Owned(runs[r], runs'[r])
    BY <1>0, <1>4, ExpireLeasesOwned DEF ExpireStaleState
  <2> QED
    BY <1>4, <2>1, OwnedSuffices DEF ExpireStaleState
<1>5. ASSUME NEW r \in Runs, LapseLease(r) PROVE Ownership!Next
  <2> DEFINE new == [runs[r] EXCEPT !.lapsed = TRUE]
  <2>1. Owned(runs[r], new)
    BY <1>a DEF Owned, Generation, Run
  <2> QED
    BY <1>0, <1>5, <2>1, OneRunOwned DEF LapseLease
<1>6. ASSUME NEW r \in Runs, NEW status \in LocalStatuses, SetLocalStatus(r, status)
      PROVE  Ownership!Next
  <2> DEFINE new == TransitionRun(runs[r], status)
  <2>1. runs[r].lease = NoLease
    BY <1>0, <1>6 DEF SetLocalStatus, IsRemote, FenceInv, Fenced,
                      OnlyExecutingLeased
  <2>2. /\ new.epoch = runs[r].epoch /\ new.created = runs[r].created
        /\ new.lease = NoLease
    BY <1>a, <2>1, TransitionRunFields DEF LocalStatuses
  <2>3. Owned(runs[r], new)
    BY <2>1, <2>2 DEF Owned, Generation
  <2> HIDE DEF new
  <2>4. /\ runs' = [runs EXCEPT ![r] = new] /\ UNCHANGED <<grants, log>>
    BY <1>6 DEF SetLocalStatus, new
  <2> QED
    BY <1>0, <2>3, <2>4, OneRunOwned
<1>7. ASSUME NEW p \in Runs, NEW r \in Runs, ContinueTask(p, r)
      PROVE  Ownership!Next
  <2>1. PICK status, mode, c :
          runs' = [runs EXCEPT ![r] =
                     NewRun(r, c, status, runs[p].epoch + 1, mode)]
    BY <1>7 DEF ContinueTask
  <2> DEFINE new == NewRun(r, c, status, runs[p].epoch + 1, mode)
  <2>2. runs[r].created = 0 /\ UNCHANGED <<grants, log>>
    BY <1>7, <1>c DEF ContinueTask, Exists
  <2>3. new.lease = NoLease /\ new.epoch = runs[p].epoch + 1
    BY DEF NewRun
  <2>4. new.created > 0
    BY <1>0, <2>1, NewRunCreated DEF FenceInv
  <2> HIDE DEF new
  <2>5. Owned(runs[r], new)
    BY <1>c, <2>2, <2>3, <2>4 DEF Owned, Generation
  <2> QED
    BY <1>0, <2>1, <2>2, <2>5, OneRunOwned DEF new
<1>8. ASSUME NEW r \in Runs, NEW c \in Computers, CreateTaskRun(r, c)
      PROVE  Ownership!Next
  <2> DEFINE new == NewRun(r, c, "queued", 1, "prepare")
  <2>1. runs' = [runs EXCEPT ![r] = new] /\ UNCHANGED <<grants, log>>
    BY <1>8 DEF CreateTaskRun
  <2>2. runs[r].created = 0
    BY <1>8, <1>c DEF CreateTaskRun, Exists
  <2>3. new.lease = NoLease /\ new.epoch = 1
    BY DEF NewRun
  <2>4. new.created > 0
    BY NewRunCreated
  <2> HIDE DEF new
  <2>5. Owned(runs[r], new)
    BY <1>c, <2>2, <2>3, <2>4 DEF Owned, Generation
  <2> QED
    BY <1>0, <2>1, <2>5, OneRunOwned
<1>9. ASSUME NEW r \in Runs, NEW c \in Computers,
             RequestRecovery(r, c) \/ RecoveryRefused(r, c)
      PROVE  UNCHANGED Ownership!vars
  BY <1>9, <1>b DEF RequestRecovery, RecoveryRefused
<1>10. ASSUME NEW r \in Runs, NEW c \in Computers, RecoverRun(r, c)
       PROVE  Ownership!Next
  <2>1. PICK mode \in {"prepare", "restore", "recreate"},
             status \in {"ready", "recovering"} :
          runs' = [runs EXCEPT ![r] =
            TransitionRun(TransitionRun([Fence(runs[r], mode) EXCEPT !.computer = c],
                                        "recovering"), status)]
    BY <1>10 DEF RecoverRun
  <2> DEFINE fenced == [Fence(runs[r], mode) EXCEPT !.computer = c]
             new == TransitionRun(TransitionRun(fenced, "recovering"), status)
  <2>2. Fence(runs[r], mode) \in Run
    BY <1>a, FenceType
  <2>3. /\ fenced \in Run /\ fenced.epoch = runs[r].epoch + 1
        /\ fenced.lease = NoLease /\ fenced.created = runs[r].created
    BY <1>a, <2>2 DEF Run, Fence
  <2> HIDE DEF fenced
  <2>4. {"ready", "recovering"} \subseteq RunStatus
    BY DEF RunStatus
  <2>5. /\ TransitionRun(fenced, "recovering") \in Run
        /\ TransitionRun(fenced, "recovering").epoch = runs[r].epoch + 1
        /\ TransitionRun(fenced, "recovering").lease = NoLease
        /\ TransitionRun(fenced, "recovering").created = runs[r].created
    BY <2>3, <2>4, TransitionRunType, TransitionRunFields
  <2>6. /\ new.epoch = runs[r].epoch + 1 /\ new.lease = NoLease
        /\ new.created = runs[r].created
    BY <2>4, <2>5, TransitionRunFields
  <2> HIDE DEF new
  <2>7. Owned(runs[r], new)
    BY <1>c, <2>6 DEF Owned, Generation
  <2>8. UNCHANGED <<grants, log>>
    BY <1>10 DEF RecoverRun
  <2> QED
    BY <1>0, <2>1, <2>7, <2>8, OneRunOwned DEF new, fenced
<1>11. ASSUME NEW r \in Runs, NEW c \in Computers, ReassignQueuedRun(r, c)
       PROVE  Ownership!Next
  <2> DEFINE new == [runs[r] EXCEPT !.computer = c]
  <2>1. Owned(runs[r], new)
    BY <1>a DEF Owned, Generation, Run
  <2> QED
    BY <1>0, <1>11, <2>1, OneRunOwned DEF ReassignQueuedRun
<1>12. ASSUME NEW g \in grants, NEW seq \in 1..MaxSeq, NEW kind \in Kinds,
              Publish(g, seq, kind)
       PROVE  UNCHANGED Ownership!vars
  BY <1>12, <1>b DEF Publish
<1>13. ASSUME NEW e \in published, AcceptEvent(e) PROVE Ownership!Next
  BY <1>13, AcceptEventWrites
<1>14. ASSUME NEW e \in published, RedeliverEvent(e) PROVE UNCHANGED Ownership!vars
  BY <1>14, <1>b DEF RedeliverEvent
<1>15. CASE UNCHANGED vars
  BY <1>15, <1>b DEF vars
<1> HIDE DEF Ownership!Next
<1> QED
  BY <1>1, <1>2, <1>3, <1>4, <1>5, <1>6, <1>7, <1>8, <1>9, <1>10, <1>11, <1>12,
     <1>13, <1>14, <1>15 DEF Next

\* The control plane implements single ownership of every run: for any sets of
\* runs, tasks and computers, each epoch is handed out at most once and only its
\* holder writes, in order (acquire_lease, expire_leases, recover_run,
\* accept_event).
THEOREM TaskRunsImplementOwnership == Spec => ImplementsOwnership
BY InitOwned, NextOwned, LogInvariant, PTL DEF Spec, Ownership!Spec,
   ImplementsOwnership
=============================================================================
