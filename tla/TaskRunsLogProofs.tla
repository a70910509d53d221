------------------------- MODULE TaskRunsLogProofs -------------------------
(* Proofs about the events applied to a run, resting on the fence. *)
EXTENDS TaskRunsProofs

\* What is on the network was published under a grant, one event per number.
PublishedGranted ==
  /\ \A e \in published :
       [run |-> e.run, computer |-> e.computer, epoch |-> e.epoch,
        lease |-> e.lease] \in grants
  /\ \A e, f \in published : e.lease = f.lease /\ e.seq = f.seq => e = f

\* The log of a run holds events published for it, none beyond the run's epoch
\* and sequence number.
LogPast(records) ==
  \A r \in Runs : \A i \in 1..Len(log[r]) :
    /\ log[r][i] \in published
    /\ log[r][i].run = r
    /\ \/ log[r][i].epoch < records[r].epoch
       \/ log[r][i].epoch = records[r].epoch /\ log[r][i].seq <= records[r].seq

\* The last event id of a run is that of an event in its log.
LastIdLogged(records) ==
  \A r \in Runs : records[r].id # NoEventId =>
    \E i \in 1..Len(log[r]) : EventId(log[r][i]) = records[r].id

Logged(records) == LogPast(records) /\ LastIdLogged(records)

LogInv ==
  /\ FenceInv
  /\ PublishedGranted
  /\ acked \subseteq published
  /\ Logged(runs)
  /\ LogInOrder
  /\ AckedIsApplied

\* What an operation that applies no event may do to a run: its sequence number
\* and last id stay with its epoch or are reset with a new one.
KeepsLog(old, new) ==
  /\ old.created > 0 => \/ new.epoch > old.epoch
                        \/ new.epoch = old.epoch /\ new.seq = old.seq
  /\ new.id \in {old.id, NoEventId}

\* An operation that treats every run so preserves what is logged.
LEMMA KeepsLogSuffices ==
  ASSUME NEW old \in [Runs -> Run], NEW new \in [Runs -> Run], NEW count,
         TypeOK, PublishedGranted, GrantsPast(old, count), Logged(old),
         \A r \in Runs : KeepsLog(old[r], new[r])
  PROVE  Logged(new)
<1>1. LogPast(new)
  <2> SUFFICES ASSUME NEW r \in Runs, NEW i \in 1..Len(log[r])
               PROVE  /\ log[r][i] \in published
                      /\ log[r][i].run = r
                      /\ \/ log[r][i].epoch < new[r].epoch
                         \/ /\ log[r][i].epoch = new[r].epoch
                            /\ log[r][i].seq <= new[r].seq
    BY DEF LogPast
  <2> DEFINE e == log[r][i]
  <2>1. /\ e \in published /\ e.run = r
        /\ \/ e.epoch < old[r].epoch
           \/ e.epoch = old[r].epoch /\ e.seq <= old[r].seq
    BY DEF Logged, LogPast
  <2> HIDE DEF e
  <2>2. old[r].created > 0
    <3> DEFINE g == [run |-> e.run, computer |-> e.computer, epoch |-> e.epoch,
                     lease |-> e.lease]
    <3>1. g \in grants /\ g.run = r
      BY <2>1 DEF PublishedGranted
    <3> HIDE DEF g
    <3> QED
      BY <3>1 DEF GrantsPast
  <2>3. e \in Event
    BY <2>1 DEF TypeOK
  <2>4. /\ e.epoch \in Nat /\ e.seq \in Nat
        /\ old[r].epoch \in Nat /\ new[r].epoch \in Nat
        /\ old[r].seq \in Nat /\ new[r].seq \in Nat
    BY <2>3 DEF Event, Run
  <2>5. \/ new[r].epoch > old[r].epoch
        \/ new[r].epoch = old[r].epoch /\ new[r].seq = old[r].seq
    BY <2>2 DEF KeepsLog
  <2> QED
    BY <2>1, <2>4, <2>5 DEF e
<1>2. LastIdLogged(new)
  BY DEF Logged, LastIdLogged, KeepsLog
<1> QED
  BY <1>1, <1>2 DEF Logged

\* An operation that rewrites one run and applies no event.
LEMMA OneRunKeepsLog ==
  ASSUME LogInv, TypeOK', NEW r \in Runs, NEW record,
         runs' = [runs EXCEPT ![r] = record],
         KeepsLog(runs[r], record)
  PROVE  Logged(runs')
<1>1. runs \in [Runs -> Run] /\ runs' \in [Runs -> Run]
  BY DEF LogInv, FenceInv, TypeOK
<1>2. \A q \in Runs : KeepsLog(runs[q], runs'[q])
  BY <1>1 DEF KeepsLog, Run
<1> QED
  BY <1>1, <1>2, KeepsLogSuffices DEF LogInv, FenceInv, Fenced

\* expire_leases resets the sequence only together with the epoch.
LEMMA ExpireLeasesKeepsLog ==
  ASSUME LogInv, NEW r \in Runs
  PROVE  KeepsLog(runs[r], ExpireLeases[r])
<1>1. runs[r] \in Run
  BY DEF LogInv, FenceInv, TypeOK
<1>2. ExpireLeases[r] = ExpireLease(r)
  BY DEF ExpireLeases
<1>3. CASE runs[r].lapsed /\ runs[r].status \in LeasedStatuses
  <2>1. PICK mode \in {"prepare", "restore"} :
          ExpireLease(r) = TransitionRun(Fence(runs[r], mode), "recovering")
    BY <1>3 DEF ExpireLease
  <2>2. ExpireLease(r).epoch = runs[r].epoch + 1 /\ ExpireLease(r).id = NoEventId
    BY <1>1, <2>1 DEF TransitionRun, Fence, Run, TerminalRunStatuses
  <2>3. runs[r].epoch \in Nat
    BY <1>1 DEF Run
  <2> QED
    BY <1>2, <2>2, <2>3 DEF KeepsLog
<1>4. CASE ~(runs[r].lapsed /\ runs[r].status \in LeasedStatuses)
  BY <1>2, <1>4 DEF ExpireLease, KeepsLog
<1> QED
  BY <1>3, <1>4

\* transition_run leaves the sequence and the last event id alone.
LEMMA TransitionRunKeepsLog ==
  ASSUME NEW run \in Run, NEW target \in RunStatus
  PROVE  LET new == TransitionRun(run, target)
         IN  new.epoch = run.epoch /\ new.seq = run.seq /\ new.id = run.id
BY DEF TransitionRun, Run

-----------------------------------------------------------------------------
\* Nothing is logged at the start.
LEMMA InitLog == Init => LogInv
<1> SUFFICES ASSUME Init PROVE LogInv
  OBVIOUS
<1>1. FenceInv
  BY InitFence
<1>2. \A r \in Runs : log[r] = <<>> /\ runs[r].id = NoEventId
  BY DEF Init
<1>3. \A r \in Runs : 1..Len(log[r]) = {}
  BY <1>2
<1>4. published = {} /\ acked = {}
  BY DEF Init
<1> QED
  BY <1>1, <1>2, <1>3, <1>4
     DEF LogInv, PublishedGranted, Logged, LogPast, LastIdLogged, LogInOrder,
         AckedIsApplied

\* accept_event appends an event of the current epoch that is newer than every
\* event logged in it.
LEMMA AcceptEventLog ==
  ASSUME LogInv, TypeOK', FenceInv', NEW e \in published, AcceptEvent(e)
  PROVE  LogInv'
<1> DEFINE r == e.run
           run == runs[r]
           n == Len(log[r])
<1>1. e \in Event /\ r \in Runs /\ run \in Run /\ runs' \in [Runs -> Run]
      /\ runs \in [Runs -> Run]
  BY DEF LogInv, FenceInv, TypeOK, Event
<1>2. /\ run.epoch = e.epoch /\ e.seq > run.seq
      /\ UNCHANGED <<published, grants>>
      /\ log' = [log EXCEPT ![r] = Append(log[r], e)]
      /\ acked' = acked \cup {e}
  <2>1. e.seq \in Nat /\ run.seq \in Nat
    BY <1>1 DEF Event, Run
  <2> QED
    BY <2>1 DEF AcceptEvent, PassesFence, IsEventOwner, IsStaleEvent
<1>3. /\ \A q \in Runs : q # r => runs'[q] = runs[q]
      /\ runs'[r].epoch = run.epoch /\ runs'[r].seq = e.seq
      /\ runs'[r].id = EventId(e)
  <2> DEFINE target == TargetStatus(run, e)
             renewed == [run EXCEPT !.lapsed = FALSE]
             moved == TransitionRun(renewed, target)
  <2>1. runs' = [runs EXCEPT ![r] = [moved EXCEPT !.seq = e.seq, !.id = EventId(e)]]
    BY DEF AcceptEvent
  <2>2. target \in RunStatus
    BY <1>1, TargetStatusType
  <2>3. renewed \in Run /\ renewed.epoch = run.epoch
    BY <1>1 DEF Run
  <2> HIDE DEF target, renewed
  <2>4. moved \in Run /\ moved.epoch = run.epoch
    BY <2>2, <2>3, TransitionRunType, TransitionRunKeepsLog
  <2> HIDE DEF moved
  <2>5. /\ [moved EXCEPT !.seq = e.seq, !.id = EventId(e)].epoch = run.epoch
        /\ [moved EXCEPT !.seq = e.seq, !.id = EventId(e)].seq = e.seq
        /\ [moved EXCEPT !.seq = e.seq, !.id = EventId(e)].id = EventId(e)
    BY <2>4 DEF Run
  <2> QED
    BY <1>1, <2>1, <2>5
<1>4. /\ log[r] \in Seq(Event) /\ log \in [Runs -> Seq(Event)] /\ n \in Nat
      /\ log'[r] = Append(log[r], e)
      /\ \A q \in Runs : q # r => log'[q] = log[q]
  BY <1>1, <1>2 DEF LogInv, FenceInv, TypeOK
<1>5. /\ Len(log'[r]) = n + 1
      /\ \A i \in 1..n : log'[r][i] = log[r][i]
      /\ log'[r][n + 1] = e
  BY <1>1, <1>4
<1>6. \A i \in 1..(n + 1) : i \in 1..n \/ i = n + 1
  BY <1>4
<1>7. \A i \in 1..n : \/ log[r][i].epoch < e.epoch
                      \/ log[r][i].epoch = e.epoch /\ log[r][i].seq < e.seq
  <2> SUFFICES ASSUME NEW i \in 1..n
               PROVE  \/ log[r][i].epoch < e.epoch
                      \/ log[r][i].epoch = e.epoch /\ log[r][i].seq < e.seq
    OBVIOUS
  <2>1. \/ log[r][i].epoch < run.epoch
        \/ log[r][i].epoch = run.epoch /\ log[r][i].seq <= run.seq
    BY <1>1 DEF LogInv, Logged, LogPast
  <2>2. log[r][i] \in Event
    BY <1>4
  <2>3. log[r][i].seq \in Nat /\ run.seq \in Nat /\ e.seq \in Nat
    BY <1>1, <2>2 DEF Event, Run
  <2> QED
    BY <1>2, <2>1, <2>3
<1>8. PublishedGranted' /\ acked' \subseteq published'
  BY <1>2 DEF LogInv, PublishedGranted
<1>9. LogPast(runs)'
  <2> SUFFICES ASSUME NEW q \in Runs, NEW i \in 1..Len(log'[q])
               PROVE  /\ log'[q][i] \in published'
                      /\ log'[q][i].run = q
                      /\ \/ log'[q][i].epoch < runs'[q].epoch
                         \/ /\ log'[q][i].epoch = runs'[q].epoch
                            /\ log'[q][i].seq <= runs'[q].seq
    BY DEF LogPast
  <2>1. CASE q # r
    BY SMTT(30), <1>2, <1>3, <1>4, <2>1 DEF LogInv, Logged, LogPast
  <2>2. CASE q = r /\ i = n + 1
    <3>1. e.seq \in Nat
      BY <1>1 DEF Event
    <3> QED
      BY <1>2, <1>3, <1>5, <2>2, <3>1
  <2>3. CASE q = r /\ i \in 1..n
    <3>0. log[r][i] \in Event
      BY <1>4, <2>3
    <3>1. log[r][i].seq \in Nat /\ e.seq \in Nat
      BY <1>1, <3>0 DEF Event
    <3>2. log[r][i] \in published /\ log[r][i].run = r
      BY <1>1, <2>3 DEF LogInv, Logged, LogPast
    <3>3. log'[r][i] = log[r][i]
      BY <1>5, <2>3
    <3>4. \/ log[r][i].epoch < e.epoch
          \/ log[r][i].epoch = e.epoch /\ log[r][i].seq < e.seq
      BY <1>7, <2>3
    <3>5. \/ log[r][i].epoch < e.epoch
          \/ log[r][i].epoch = e.epoch /\ log[r][i].seq <= e.seq
      BY <3>1, <3>4
    <3> QED
      BY <1>2, <1>3, <2>3, <3>2, <3>3, <3>5
  <2> QED
    BY <1>5, <1>6, <2>1, <2>2, <2>3
<1>10. LastIdLogged(runs)'
  <2> SUFFICES ASSUME NEW q \in Runs, runs'[q].id # NoEventId
               PROVE  \E i \in 1..Len(log'[q]) : EventId(log'[q][i]) = runs'[q].id
    BY DEF LastIdLogged, EventId
  <2>1. CASE q # r
    BY <1>3, <1>4, <2>1 DEF LogInv, Logged, LastIdLogged
  <2>2. CASE q = r
    <3>1. n + 1 \in 1..Len(log'[r])
      BY <1>4, <1>5
    <3> QED
      BY <1>3, <1>5, <2>2, <3>1
  <2> QED
    BY <2>1, <2>2
<1>11. LogInOrder'
  <2> SUFFICES ASSUME NEW q \in Runs, NEW i \in 1..Len(log'[q]),
                      NEW j \in 1..Len(log'[q]), i < j
               PROVE  \/ log'[q][i].epoch < log'[q][j].epoch
                      \/ /\ log'[q][i].epoch = log'[q][j].epoch
                         /\ log'[q][i].seq < log'[q][j].seq
    BY DEF LogInOrder
  <2>0. \A k, l \in 1..Len(log[q]) : k < l =>
          \/ log[q][k].epoch < log[q][l].epoch
          \/ log[q][k].epoch = log[q][l].epoch /\ log[q][k].seq < log[q][l].seq
    BY DEF LogInv, LogInOrder
  <2>1. CASE q # r
    <3>1. log'[q] = log[q]
      BY <1>4, <2>1
    <3> QED
      BY <2>0, <3>1
  <2>2. CASE q = r /\ j \in 1..n
    <3>1. i \in 1..n
      BY <1>4, <1>5, <2>2
    <3>2. log'[r][i] = log[r][i] /\ log'[r][j] = log[r][j]
      BY <1>5, <2>2, <3>1
    <3>3. i \in 1..Len(log[q]) /\ j \in 1..Len(log[q])
      BY <2>2, <3>1
    <3> QED
      BY <2>0, <2>2, <3>2, <3>3
  <2>3. CASE q = r /\ j = n + 1
    <3>1. i \in 1..n
      BY <1>4, <1>5, <2>3
    <3> QED
      BY <1>5, <1>7, <2>3, <3>1
  <2> QED
    BY <1>5, <1>6, <2>1, <2>2, <2>3
<1>12. AckedIsApplied'
  <2> SUFFICES ASSUME NEW f \in acked'
               PROVE  \E i \in 1..Len(log'[f.run]) : log'[f.run][i] = f
    BY DEF AckedIsApplied
  <2>1. CASE f = e
    <3>1. n + 1 \in 1..Len(log'[r])
      BY <1>4, <1>5
    <3> QED
      BY <1>5, <2>1, <3>1
  <2>2. CASE f \in acked
    <3>1. PICK i \in 1..Len(log[f.run]) : log[f.run][i] = f
      BY <2>2 DEF LogInv, AckedIsApplied
    <3>2. f.run \in Runs
      BY <2>2 DEF LogInv, FenceInv, TypeOK, Event
    <3>3. i \in 1..Len(log'[f.run]) /\ log'[f.run][i] = log[f.run][i]
      BY <1>4, <1>5, <3>2
    <3> QED
      BY <3>1, <3>3
  <2> QED
    BY <1>2, <2>1, <2>2
<1> QED
  BY <1>8, <1>9, <1>10, <1>11, <1>12 DEF LogInv, Logged

\* A redelivery that is acknowledged repeats the event logged last.
LEMMA RedeliverEventLog ==
  ASSUME LogInv, FenceInv', NEW e \in published, RedeliverEvent(e)
  PROVE  LogInv'
<1> DEFINE r == e.run
<1>1. /\ EventId(e) = runs[r].id /\ acked' = acked \cup {e}
      /\ UNCHANGED <<runs, grants, published, log>>
  BY DEF RedeliverEvent, IsRedelivery
<1>2. e \in Event /\ r \in Runs
  BY DEF LogInv, FenceInv, TypeOK, Event
<1>3. \E i \in 1..Len(log[r]) : log[r][i] = e
  <2> DEFINE g == [run |-> e.run, computer |-> e.computer, epoch |-> e.epoch,
                   lease |-> e.lease]
  <2>1. g \in grants /\ g.lease = e.lease
    BY DEF LogInv, PublishedGranted
  <2> HIDE DEF g
  <2>2. e.lease \in 1..leaseCount
    BY <2>1 DEF LogInv, FenceInv, Fenced, GrantsPast
  <2>3. e.lease # NoLease
    BY <2>2 DEF NoLease
  <2>4. EventId(e) # NoEventId
    BY <2>3 DEF EventId, NoEventId
  <2>5. PICK i \in 1..Len(log[r]) : EventId(log[r][i]) = EventId(e)
    BY <1>1, <1>2, <2>4 DEF LogInv, Logged, LastIdLogged
  <2>6. log[r][i] \in published
    BY <1>2 DEF LogInv, Logged, LogPast
  <2>7. log[r][i].lease = e.lease /\ log[r][i].seq = e.seq
    BY <2>5 DEF EventId
  <2> QED
    BY <2>6, <2>7 DEF LogInv, PublishedGranted
<1>4. AckedIsApplied'
  <2> SUFFICES ASSUME NEW f \in acked'
               PROVE  \E i \in 1..Len(log[f.run]) : log[f.run][i] = f
    BY <1>1 DEF AckedIsApplied
  <2> QED
    BY <1>1, <1>3 DEF LogInv, AckedIsApplied
<1>5. PublishedGranted' /\ Logged(runs)' /\ LogInOrder'
  BY SMTT(30), <1>1 DEF LogInv, PublishedGranted, Logged, LogPast, LastIdLogged, LogInOrder
<1> QED
  BY <1>1, <1>4, <1>5 DEF LogInv

\* Every step preserves what the log promises.
LEMMA NextLog == LogInv /\ [Next]_vars => LogInv'
<1> SUFFICES ASSUME LogInv, [Next]_vars PROVE LogInv'
  OBVIOUS
<1>0. FenceInv /\ FenceInv' /\ TypeOK /\ TypeOK'
  BY NextFence DEF LogInv, FenceInv
<1>a. runs \in [Runs -> Run] /\ \A r \in Runs : runs[r] \in Run
  BY <1>0 DEF TypeOK
<1>b. ASSUME UNCHANGED <<published, log, acked>>, grants \subseteq grants',
             Logged(runs')
      PROVE  LogInv'
  <2>1. PublishedGranted' /\ AckedIsApplied' /\ LogInOrder'
    BY <1>b DEF LogInv, PublishedGranted, AckedIsApplied, LogInOrder
  <2>2. Logged(runs)'
    BY <1>b DEF Logged, LogPast, LastIdLogged
  <2> QED
    BY <1>0, <1>b, <2>1, <2>2 DEF LogInv
<1>c. ASSUME UNCHANGED <<runs, published, log, acked, grants>> PROVE LogInv'
  BY <1>b, <1>c DEF LogInv
<1>d. ASSUME NEW new \in [Runs -> Run],
             \A r \in Runs : KeepsLog(runs[r], new[r])
      PROVE  Logged(new)
  BY <1>0, <1>a, <1>d, KeepsLogSuffices DEF LogInv, FenceInv, Fenced
<1>1. ASSUME NEW c \in Remote, Heartbeat(c) \/ GoSilent(c) PROVE LogInv'
  BY <1>1, <1>c DEF Heartbeat, GoSilent
<1>2. ASSUME NEW c \in Remote, AcquireLease(c) PROVE LogInv'
  <2> DEFINE old == ExpireLeases
  <2>1. PICK r \in Claimable(c, old) : runs' = ClaimRun(r, leaseCount + 1, old)
    BY <1>2 DEF AcquireLease
  <2>2. r \in Runs
    BY DEF Claimable
  <2>3. old \in [Runs -> Run] /\ leaseCount + 1 \in Nat
    BY <1>0, ExpireLeasesType DEF TypeOK
  <2>4. \A q \in Runs : KeepsLog(runs[q], old[q])
    BY ExpireLeasesKeepsLog
  <2> HIDE DEF old
  <2> DEFINE leased == [old[r] EXCEPT !.lease = leaseCount + 1, !.lapsed = FALSE]
  <2>5. /\ leased \in Run /\ leased.epoch = old[r].epoch
        /\ leased.seq = old[r].seq /\ leased.id = old[r].id
    <3>1. old[r] \in Run
      BY <2>2, <2>3
    <3> QED
      BY <2>3, <3>1 DEF Run
  <2>6. runs' = [old EXCEPT ![r] = TransitionRun(leased, "preparing")]
    BY <2>1 DEF ClaimRun
  <2> HIDE DEF leased
  <2>7. /\ runs'[r].epoch = old[r].epoch /\ runs'[r].seq = old[r].seq
        /\ runs'[r].id = old[r].id
    BY <2>2, <2>3, <2>5, <2>6, TransitionRunKeepsLog DEF RunStatus
  <2>8. \A q \in Runs : q # r => runs'[q] = old[q]
    BY <2>3, <2>6
  <2>9. \A q \in Runs : KeepsLog(runs[q], runs'[q])
    <3> SUFFICES ASSUME NEW q \in Runs PROVE KeepsLog(runs[q], runs'[q])
      OBVIOUS
    <3>1. CASE q = r
      BY <2>4, <2>7, <3>1 DEF KeepsLog
    <3>2. CASE q # r
      BY <2>4, <2>8, <3>2
    <3> QED
      BY <3>1, <3>2
  <2>10. Logged(runs')
    BY <1>0, <1>d, <2>9 DEF TypeOK
  <2> QED
    BY <1>2, <1>b, <2>10 DEF AcquireLease
<1>3. ASSUME NEW c \in Remote, AcquireNothing(c) PROVE LogInv'
  <2>1. Logged(runs')
    BY <1>0, <1>3, <1>d, ExpireLeasesKeepsLog DEF AcquireNothing, TypeOK
  <2> QED
    BY <1>3, <1>b, <2>1 DEF AcquireNothing
<1>4. CASE ExpireStaleState
  <2>1. Logged(runs')
    BY <1>0, <1>4, <1>d, ExpireLeasesKeepsLog DEF ExpireStaleState, TypeOK
  <2> QED
    BY <1>4, <1>b, <2>1 DEF ExpireStaleState
<1>5. ASSUME NEW r \in Runs, LapseLease(r) PROVE LogInv'
  <2> DEFINE new == [runs[r] EXCEPT !.lapsed = TRUE]
  <2>1. runs' = [runs EXCEPT ![r] = new]
    BY <1>5 DEF LapseLease
  <2>2. KeepsLog(runs[r], new)
    BY <1>a DEF KeepsLog, Run
  <2>3. Logged(runs')
    BY <1>0, <2>1, <2>2, OneRunKeepsLog
  <2> QED
    BY <1>5, <1>b, <2>3 DEF LapseLease
<1>6. ASSUME NEW r \in Runs, NEW status \in LocalStatuses,
             SetLocalStatus(r, status)
      PROVE  LogInv'
  <2>1. KeepsLog(runs[r], TransitionRun(runs[r], status))
    BY <1>a, TransitionRunKeepsLog DEF KeepsLog, LocalStatuses
  <2>2. Logged(runs')
    BY <1>0, <1>6, <2>1, OneRunKeepsLog DEF SetLocalStatus
  <2> QED
    BY <1>6, <1>b, <2>2 DEF SetLocalStatus
<1>7. ASSUME NEW p \in Runs, NEW r \in Runs, ContinueTask(p, r) PROVE LogInv'
  <2>1. PICK status, epoch, mode, c :
          runs' = [runs EXCEPT ![r] = NewRun(r, c, status, epoch, mode)]
    BY <1>7 DEF ContinueTask
  <2>2. ~(runs[r].created > 0)
    BY <1>7 DEF ContinueTask, Exists
  <2>3. KeepsLog(runs[r], NewRun(r, c, status, epoch, mode))
    BY <2>2 DEF KeepsLog, NewRun
  <2>4. Logged(runs')
    BY <1>0, <2>1, <2>3, OneRunKeepsLog
  <2> QED
    BY <1>7, <1>b, <2>4 DEF ContinueTask
<1>8. ASSUME NEW r \in Runs, NEW c \in Computers, CreateTaskRun(r, c)
      PROVE  LogInv'
  <2>1. ~(runs[r].created > 0)
    BY <1>8 DEF CreateTaskRun, Exists
  <2>2. KeepsLog(runs[r], NewRun(r, c, "queued", 1, "prepare"))
    BY <2>1 DEF KeepsLog, NewRun
  <2>3. Logged(runs')
    BY <1>0, <1>8, <2>2, OneRunKeepsLog DEF CreateTaskRun
  <2> QED
    BY <1>8, <1>b, <2>3 DEF CreateTaskRun
<1>9. ASSUME NEW r \in Runs, NEW c \in Computers,
             RequestRecovery(r, c) \/ RecoveryRefused(r, c)
      PROVE  LogInv'
  BY <1>9, <1>c DEF RequestRecovery, RecoveryRefused
<1>10. ASSUME NEW r \in Runs, NEW c \in Computers, RecoverRun(r, c)
       PROVE  LogInv'
  <2>1. PICK mode \in {"prepare", "restore", "recreate"},
             status \in {"ready", "recovering"} :
          runs' = [runs EXCEPT ![r] =
            TransitionRun(TransitionRun([Fence(runs[r], mode) EXCEPT !.computer = c],
                                        "recovering"), status)]
    BY <1>10 DEF RecoverRun
  <2> DEFINE fenced == [Fence(runs[r], mode) EXCEPT !.computer = c]
             waiting == TransitionRun(fenced, "recovering")
             new == TransitionRun(waiting, status)
  <2>2. Fence(runs[r], mode) \in Run
    BY <1>a, FenceType
  <2>3. /\ fenced \in Run /\ fenced.epoch = runs[r].epoch + 1
        /\ fenced.id = NoEventId
    BY <1>a, <2>2 DEF Run, Fence
  <2> HIDE DEF fenced
  <2>4. /\ waiting \in Run /\ waiting.epoch = runs[r].epoch + 1
        /\ waiting.id = NoEventId
    BY <2>3, TransitionRunType, TransitionRunKeepsLog DEF RunStatus
  <2> HIDE DEF waiting
  <2>5. new.epoch = runs[r].epoch + 1 /\ new.id = NoEventId
    BY <2>4, TransitionRunKeepsLog DEF RunStatus
  <2>6. runs[r].epoch \in Nat
    BY <1>a DEF Run
  <2> HIDE DEF new
  <2>7. KeepsLog(runs[r], new)
    BY <2>5, <2>6 DEF KeepsLog
  <2>8. Logged(runs')
    BY <1>0, <2>1, <2>7, OneRunKeepsLog DEF new, waiting, fenced
  <2> QED
    BY <1>10, <1>b, <2>8 DEF RecoverRun
<1>11. ASSUME NEW r \in Runs, NEW c \in Computers, ReassignQueuedRun(r, c)
       PROVE  LogInv'
  <2> DEFINE new == [runs[r] EXCEPT !.computer = c]
  <2>1. runs' = [runs EXCEPT ![r] = new]
    BY <1>11 DEF ReassignQueuedRun
  <2>2. KeepsLog(runs[r], new)
    BY <1>a DEF KeepsLog, Run
  <2>3. Logged(runs')
    BY <1>0, <2>1, <2>2, OneRunKeepsLog
  <2> QED
    BY <1>11, <1>b, <2>3 DEF ReassignQueuedRun
<1>12. ASSUME NEW g \in grants, NEW seq \in 1..MaxSeq, NEW kind \in Kinds,
              Publish(g, seq, kind)
       PROVE  LogInv'
  <2> DEFINE e == [run |-> g.run, computer |-> g.computer, epoch |-> g.epoch,
                   lease |-> g.lease, seq |-> seq, kind |-> kind]
  <2>1. /\ published' = published \cup {e}
        /\ UNCHANGED <<runs, grants, log, acked>>
        /\ \A f \in published : f.lease = e.lease => f.seq < e.seq
    BY <1>12 DEF Publish
  <2>2. g \in Grant
    BY <1>0 DEF TypeOK
  <2>3. [run |-> e.run, computer |-> e.computer, epoch |-> e.epoch,
         lease |-> e.lease] = g
    BY <2>2 DEF Grant
  <2>4. \A f \in published : f.seq \in Nat
    BY <1>0 DEF TypeOK, Event
  <2> HIDE DEF e
  <2>5. PublishedGranted'
    <3>1. \A f \in published' :
            [run |-> f.run, computer |-> f.computer, epoch |-> f.epoch,
             lease |-> f.lease] \in grants'
      BY <2>1, <2>3 DEF LogInv, PublishedGranted
    <3>2. \A f, h \in published' : f.lease = h.lease /\ f.seq = h.seq => f = h
      BY <2>1, <2>4 DEF LogInv, PublishedGranted
    <3> QED
      BY <3>1, <3>2 DEF PublishedGranted
  <2>6. Logged(runs)' /\ AckedIsApplied' /\ LogInOrder' /\ acked' \subseteq published'
    BY SMTT(30), <2>1 DEF LogInv, Logged, LogPast, LastIdLogged, AckedIsApplied, LogInOrder
  <2> QED
    BY <1>0, <2>5, <2>6 DEF LogInv
<1>13. ASSUME NEW e \in published, AcceptEvent(e) PROVE LogInv'
  BY <1>0, <1>13, AcceptEventLog
<1>14. ASSUME NEW e \in published, RedeliverEvent(e) PROVE LogInv'
  BY <1>0, <1>14, RedeliverEventLog
<1>15. CASE UNCHANGED vars
  BY <1>15, <1>c DEF vars
<1> QED
  BY <1>1, <1>2, <1>3, <1>4, <1>5, <1>6, <1>7, <1>8, <1>9, <1>10, <1>11, <1>12,
     <1>13, <1>14, <1>15 DEF Next

-----------------------------------------------------------------------------
(* The theorems. *)

LEMMA LogInvariant == Spec => []LogInv
BY InitLog, NextLog, PTL DEF Spec

\* Whatever the network does to the deliveries, the events applied to a run are
\* in the order of their epochs and sequence numbers and none is applied twice
\* (accept_event).
THEOREM EventsAppliedInOrder == Spec => []LogInOrder
<1>1. LogInv => LogInOrder
  BY DEF LogInv
<1> QED
  BY <1>1, LogInvariant, PTL

\* Every acknowledged event was applied (accept_event).
THEOREM AcknowledgedEventsApplied == Spec => []AckedIsApplied
<1>1. LogInv => AckedIsApplied
  BY DEF LogInv
<1> QED
  BY <1>1, LogInvariant, PTL

\* An event takes effect only in its run's current epoch, and only when no later
\* lease of the run was handed out: a runtime whose lease was taken can publish
\* nothing into the recovered run (accept_event, _require_fence).
THEOREM LateEventsRejected == Spec => NoLateEvent
<1> DEFINE Fresh ==
      \A r \in Runs : log'[r] # log[r] =>
        LET e == log'[r][Len(log'[r])]
        IN  /\ e.epoch = runs[r].epoch
            /\ \A g \in grants : g.run = r /\ g.lease # e.lease =>
                 g.epoch < e.epoch
<1>1. FenceInv /\ [Next]_vars => [Fresh]_vars
  <2> SUFFICES ASSUME FenceInv, Next PROVE Fresh
    OBVIOUS
  <2>1. CASE log' = log
    BY <2>1
  <2>2. ASSUME NEW e \in published, AcceptEvent(e) PROVE Fresh
    <3> DEFINE run == runs[e.run]
               h == [run |-> e.run, computer |-> run.computer, epoch |-> run.epoch,
                     lease |-> run.lease]
    <3>1. e \in Event /\ e.run \in Runs /\ log \in [Runs -> Seq(Event)]
          /\ run \in Run /\ grants \subseteq Grant
      BY DEF FenceInv, TypeOK, Event
    <3>2. /\ log' = [log EXCEPT ![e.run] = Append(log[e.run], e)]
          /\ run.epoch = e.epoch /\ run.lease = e.lease /\ run.lease # NoLease
      BY <2>2 DEF AcceptEvent, PassesFence, IsEventOwner
    <3>3. log'[e.run][Len(log'[e.run])] = e
      BY <3>1, <3>2
    <3>4. h \in grants
      BY <3>1, <3>2 DEF FenceInv, Fenced, LeaseGranted
    <3>5. ASSUME NEW g \in grants, g.run = e.run, g.lease # e.lease
          PROVE  g.epoch < e.epoch
      <4>1. g.epoch <= run.epoch
        BY <3>5 DEF FenceInv, Fenced, GrantsPast
      <4>2. g.epoch # run.epoch
        BY <3>2, <3>4, <3>5 DEF FenceInv, OneHolderPerEpoch
      <4>3. g.epoch \in Nat /\ run.epoch \in Nat
        BY <3>1 DEF Grant, Run
      <4> QED
        BY <3>2, <4>1, <4>2, <4>3
    <3>6. \A q \in Runs : log'[q] # log[q] => q = e.run
      BY <3>1, <3>2
    <3> QED
      BY <3>2, <3>3, <3>5, <3>6
  <2>3. ASSUME NEW c \in Remote,
               Heartbeat(c) \/ GoSilent(c) \/ AcquireLease(c) \/ AcquireNothing(c)
        PROVE  log' = log
    BY <2>3 DEF Heartbeat, GoSilent, AcquireLease, AcquireNothing
  <2>4. ASSUME NEW r \in Runs,
               \/ LapseLease(r)
               \/ \E status \in LocalStatuses : SetLocalStatus(r, status)
               \/ \E p \in Runs : ContinueTask(p, r)
        PROVE  log' = log
    BY <2>4 DEF LapseLease, SetLocalStatus, ContinueTask
  <2>5. ASSUME NEW r \in Runs, NEW c \in Computers,
               CreateTaskRun(r, c) \/ RequestRecovery(r, c) \/ RecoverRun(r, c)
                 \/ RecoveryRefused(r, c) \/ ReassignQueuedRun(r, c)
        PROVE  log' = log
    BY <2>5 DEF CreateTaskRun, RequestRecovery, RecoverRun, RecoveryRefused,
                ReassignQueuedRun
  <2>6. ASSUME NEW g \in grants, NEW seq \in 1..MaxSeq, NEW kind \in Kinds,
               Publish(g, seq, kind)
        PROVE  log' = log
    BY <2>6 DEF Publish
  <2>7. ASSUME NEW e \in published, RedeliverEvent(e) PROVE log' = log
    BY <2>7 DEF RedeliverEvent
  <2>8. ExpireStaleState => log' = log
    BY DEF ExpireStaleState
  <2> HIDE DEF Fresh
  <2> QED
    BY <2>1, <2>2, <2>3, <2>4, <2>5, <2>6, <2>7, <2>8 DEF Next
<1> QED
  BY <1>1, FenceInvariant, PTL DEF Spec, NoLateEvent

-----------------------------------------------------------------------------
(* A finished run is closed. *)

\* No step that keeps the epoch of a finished run touches the run or its log.
LEMMA FinishedRunUntouched ==
  ASSUME FenceInv, Next, NEW r \in Runs, Exists(r),
         runs[r].status \in TerminalRunStatuses, runs'[r].epoch = runs[r].epoch
  PROVE  runs'[r] = runs[r] /\ log'[r] = log[r]
<1>0. /\ runs \in [Runs -> Run] /\ log \in [Runs -> Seq(Event)]
      /\ runs[r] \in Run /\ published \subseteq Event
  BY DEF FenceInv, TypeOK
<1>a. /\ runs[r].lease = NoLease
      /\ runs[r].status \notin LeasedStatuses
      /\ runs[r].status \notin ClaimableStatuses
  BY DEF FenceInv, Fenced, OnlyExecutingLeased, TerminalRunStatuses,
         LeasedStatuses, ClaimableStatuses
<1>b. ExpireLeases \in [Runs -> Run] /\ ExpireLeases[r] = runs[r]
  BY <1>a, ExpireLeasesType DEF FenceInv, ExpireLeases, ExpireLease
<1>1. ASSUME NEW c \in Remote, Heartbeat(c) \/ GoSilent(c)
      PROVE  runs'[r] = runs[r] /\ log'[r] = log[r]
  BY <1>1 DEF Heartbeat, GoSilent
<1>2. ASSUME NEW c \in Remote, AcquireLease(c)
      PROVE  runs'[r] = runs[r] /\ log'[r] = log[r]
  <2>1. PICK q \in Claimable(c, ExpireLeases) :
               runs' = ClaimRun(q, leaseCount + 1, ExpireLeases)
    BY <1>2 DEF AcquireLease
  <2>2. q # r
    BY <1>a, <1>b, <2>1 DEF Claimable
  <2>3. runs'[r] = ExpireLeases[r]
    BY <1>b, <2>1, <2>2 DEF ClaimRun
  <2> QED
    BY <1>2, <1>b, <2>3 DEF AcquireLease
<1>3. ASSUME NEW c \in Remote, AcquireNothing(c)
      PROVE  runs'[r] = runs[r] /\ log'[r] = log[r]
  BY <1>3, <1>b DEF AcquireNothing
<1>4. ASSUME ExpireStaleState
      PROVE  runs'[r] = runs[r] /\ log'[r] = log[r]
  BY <1>4, <1>b DEF ExpireStaleState
<1>5. ASSUME NEW q \in Runs, LapseLease(q)
      PROVE  runs'[r] = runs[r] /\ log'[r] = log[r]
  BY <1>5, <1>0, <1>a DEF LapseLease
<1>6. ASSUME NEW q \in Runs, NEW status \in LocalStatuses, SetLocalStatus(q, status)
      PROVE  runs'[r] = runs[r] /\ log'[r] = log[r]
  <2>1. q # r
    BY SMTT(30), <1>6 DEF SetLocalStatus, CanTransition, AllowedTransitions, LocalStatuses,
                TerminalRunStatuses
  <2> QED
    BY <1>6, <1>0, <2>1 DEF SetLocalStatus
<1>7. ASSUME NEW q \in Runs, NEW p \in Runs, ContinueTask(p, q)
      PROVE  runs'[r] = runs[r] /\ log'[r] = log[r]
  <2>1. q # r
    BY <1>7 DEF ContinueTask
  <2> QED
    BY <1>7, <1>0, <2>1 DEF ContinueTask
<1>8. ASSUME NEW q \in Runs, NEW c \in Computers, CreateTaskRun(q, c)
      PROVE  runs'[r] = runs[r] /\ log'[r] = log[r]
  <2>1. q # r
    BY <1>8 DEF CreateTaskRun
  <2> QED
    BY <1>8, <1>0, <2>1 DEF CreateTaskRun
<1>9. ASSUME NEW q \in Runs, NEW c \in Computers,
             RequestRecovery(q, c) \/ RecoveryRefused(q, c)
      PROVE  runs'[r] = runs[r] /\ log'[r] = log[r]
  BY <1>9 DEF RequestRecovery, RecoveryRefused
<1>10. ASSUME NEW q \in Runs, NEW c \in Computers, RecoverRun(q, c)
       PROVE  runs'[r] = runs[r] /\ log'[r] = log[r]
  <2>1. CASE q # r
    BY <1>10, <1>0, <2>1 DEF RecoverRun
  <2>2. CASE q = r
    <3>1. PICK mode \in {"recreate", "restore"}, target \in {"ready", "recovering"} :
            runs' = [runs EXCEPT ![r] = TransitionRun(TransitionRun(
                       [Fence(runs[r], mode) EXCEPT !.computer = c],
                       "recovering"), target)]
      BY <1>10, <2>2 DEF RecoverRun
    <3> DEFINE fenced == [Fence(runs[r], mode) EXCEPT !.computer = c]
    <3>2. fenced \in Run /\ fenced.epoch = runs[r].epoch + 1
      <4>1. Fence(runs[r], mode) \in Run
        BY <1>0, FenceType
      <4>2. Fence(runs[r], mode).epoch = runs[r].epoch + 1
        BY <1>0 DEF Fence, Run
      <4> QED
        BY <4>1, <4>2 DEF Run
    <3> HIDE DEF fenced
    <3> DEFINE recovering == TransitionRun(fenced, "recovering")
    <3>3. recovering \in Run /\ recovering.epoch = fenced.epoch
      BY <3>2, TransitionRunType, TransitionRunKeepsLog DEF RunStatus
    <3> HIDE DEF recovering
    <3>4. TransitionRun(recovering, target).epoch = fenced.epoch
      BY <3>3, TransitionRunKeepsLog DEF RunStatus
    <3>5. runs'[r].epoch = runs[r].epoch + 1
      BY <1>0, <3>1, <3>2, <3>4 DEF fenced, recovering
    <3>6. runs[r].epoch \in Nat
      BY <1>0 DEF Run
    <3> QED
      BY <3>5, <3>6
  <2> QED
    BY <2>1, <2>2
<1>11. ASSUME NEW q \in Runs, NEW c \in Computers, ReassignQueuedRun(q, c)
       PROVE  runs'[r] = runs[r] /\ log'[r] = log[r]
  BY <1>11, <1>0 DEF ReassignQueuedRun, TerminalRunStatuses
<1>12. ASSUME NEW g \in grants, NEW seq \in 1..MaxSeq, NEW kind \in Kinds,
              Publish(g, seq, kind)
       PROVE  runs'[r] = runs[r] /\ log'[r] = log[r]
  BY <1>12 DEF Publish
<1>13. ASSUME NEW e \in published, AcceptEvent(e)
       PROVE  runs'[r] = runs[r] /\ log'[r] = log[r]
  <2>1. e.run # r
    BY <1>13, <1>a DEF AcceptEvent, PassesFence
  <2> QED
    BY <1>13, <1>0, <2>1 DEF AcceptEvent
<1>14. ASSUME NEW e \in published, RedeliverEvent(e)
       PROVE  runs'[r] = runs[r] /\ log'[r] = log[r]
  BY <1>14 DEF RedeliverEvent
<1> QED
  BY <1>1, <1>2, <1>3, <1>4, <1>5, <1>6, <1>7, <1>8, <1>9, <1>10, <1>11, <1>12,
     <1>13, <1>14 DEF Next

\* A finished run gets neither an event nor a lease before a recovery opens a new
\* epoch for it (transition_run, claim_run, accept_event).
THEOREM FinishedRunsClosed == Spec => FinishedStaysClosed
<1> DEFINE Closed ==
      \A r \in Runs :
        /\ Exists(r) /\ runs[r].status \in TerminalRunStatuses
        /\ runs'[r].epoch = runs[r].epoch
        =>
          /\ runs'[r].status = runs[r].status
          /\ runs'[r].lease = NoLease
          /\ log'[r] = log[r]
<1>1. FenceInv /\ [Next]_vars => [Closed]_vars
  <2> SUFFICES ASSUME FenceInv, Next, NEW r \in Runs, Exists(r),
                      runs[r].status \in TerminalRunStatuses,
                      runs'[r].epoch = runs[r].epoch
               PROVE  /\ runs'[r].status = runs[r].status
                      /\ runs'[r].lease = NoLease
                      /\ log'[r] = log[r]
    OBVIOUS
  <2>1. runs[r].lease = NoLease
    BY DEF FenceInv, Fenced, OnlyExecutingLeased
  <2> QED
    BY <2>1, FinishedRunUntouched
<1> QED
  BY <1>1, FenceInvariant, PTL DEF Spec, FinishedStaysClosed
=============================================================================
