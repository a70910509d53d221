----------------------- MODULE RuntimeCommandsProofs -----------------------
(***************************************************************************)
(* What RuntimeCommands keeps for any number of epochs, commands,          *)
(* instructions and calls: the commands a worker holds are its epoch's, a  *)
(* worker serves one lease, and what is acknowledged was dealt with.       *)
(***************************************************************************)
EXTENDS RuntimeCommands, ListsProofs

\* The commands of C that belong to epoch e.
Own(e, C) == {i \in 1..Len(C) : C[i].epoch = e}

InTurn == {"starting", "turn", "joining"}

LetGo == {"released", "gone"}

WorkerShape(w) ==
  w = [at |-> w.at, pending |-> w.pending, batch |-> w.batch, routing |-> w.routing,
       command |-> w.command, stopped |-> w.stopped]

\* Command i is one of the turns of R.
HasRun(i, R) == \E k \in 1..Len(R) : R[k][1] = i

\* A worker of epoch e holds commands of its epoch only, and the one of its
\* turn is a start that was run.
Fine(w, e, C, R) ==
  /\ WorkerShape(w)
  /\ w.pending \in Seq(Own(e, C)) /\ w.batch \in Seq(Own(e, C))
  /\ w.at \in InTurn \cup {"selected"} => w.command \in Own(e, C)
  /\ w.at \in InTurn => /\ C[w.command].kind = "start"
                        /\ HasRun(w.command, R)

Typed ==
  /\ epoch \in Epochs
  /\ commands \in Seq(Command) /\ Len(commands) <= MaxCommands
  /\ queue \in Seq(Items)
  /\ calls \subseteq Call
  /\ ran \in Seq(CommandIds \X Epochs)

WorkersInv ==
  /\ workers = [e \in Epochs |-> workers[e]]
  /\ \A e \in Epochs : Fine(workers[e], e, commands, ran)

\* An epoch is leased once.
LeaseInv ==
  /\ \A e \in Epochs : e > epoch => workers[e].at = "idle"
  /\ workers[epoch].at # "idle" => status \notin ClaimableStatuses
  /\ TurnIsVisible

RanInv == \A k \in 1..Len(ran) : ran[k][1] \in Own(ran[k][2], commands)

\* What an acknowledgement of command i means.
Done(i, C, R, W) ==
  /\ C[i].kind = "start" => HasRun(i, R)
  /\ C[i].kind = "release" => W[C[i].epoch].at \in LetGo

AckInv == \A i \in Ids : commands[i].acked => Done(i, commands, ran, workers)

Inv == Typed /\ WorkersInv /\ LeaseInv /\ RanInv /\ AckInv /\ OneStartPerInstruction

-----------------------------------------------------------------------------
(* Commands and turns only ever get more.                                  *)

\* D is C some steps later.
Later(C, D) ==
  /\ Len(C) <= Len(D)
  /\ \A i \in 1..Len(C) :
       D[i].kind = C[i].kind /\ D[i].key = C[i].key /\ D[i].epoch = C[i].epoch

Longer(R, Q) == Len(R) <= Len(Q) /\ \A k \in 1..Len(R) : Q[k] = R[k]

\* A turn that ran has run ever after.
LEMMA LongerHas ==
  ASSUME NEW T, NEW R \in Seq(T), NEW Q \in Seq(T), Longer(R, Q), NEW i, HasRun(i, R)
  PROVE  HasRun(i, Q)
<1>1. PICK k \in 1..Len(R) : R[k][1] = i
  BY DEF HasRun
<1>2. k \in 1..Len(Q) /\ Q[k] = R[k]
  BY DEF Longer
<1> QED
  BY <1>1, <1>2 DEF HasRun

\* What a worker holds stays its epoch's.
LEMMA FineStays ==
  ASSUME NEW S, NEW C \in Seq(S), NEW D \in Seq(S), NEW T, NEW R \in Seq(T), NEW Q \in Seq(T),
         Later(C, D), Longer(R, Q), NEW w, NEW e, Fine(w, e, C, R)
  PROVE  Fine(w, e, D, Q)
<1>1. Own(e, C) \subseteq Own(e, D)
  BY DEF Own, Later
<1>2. \A i \in Own(e, C) : i \in 1..Len(C)
  BY DEF Own
<1>3. w.pending \in Seq(Own(e, D)) /\ w.batch \in Seq(Own(e, D))
  BY <1>1 DEF Fine
<1>4. w.at \in InTurn => w.command \in 1..Len(C)
  BY <1>2 DEF Fine
<1>5. w.at \in InTurn => D[w.command].kind = "start"
  BY <1>4 DEF Fine, Later
<1>6. w.at \in InTurn => HasRun(w.command, Q)
  BY LongerHas DEF Fine
<1> QED
  BY <1>1, <1>3, <1>5, <1>6 DEF Fine

\* What was dealt with stays so.
LEMMA DoneStays ==
  ASSUME NEW S, NEW C \in Seq(S), NEW D \in Seq(S), NEW T, NEW R \in Seq(T), NEW Q \in Seq(T),
         Later(C, D), Longer(R, Q), NEW W, NEW V,
         \A e \in Epochs : W[e].at \in LetGo => V[e].at \in LetGo,
         NEW i \in 1..Len(C), C[i].epoch \in Epochs, Done(i, C, R, W)
  PROVE  Done(i, D, Q, V)
<1>1. D[i].kind = C[i].kind /\ D[i].epoch = C[i].epoch
  BY DEF Later
<1>2. D[i].kind = "start" => HasRun(i, Q)
  BY <1>1, LongerHas DEF Done
<1>3. D[i].kind = "release" => V[D[i].epoch].at \in LetGo
  BY <1>1 DEF Done
<1> QED
  BY <1>2, <1>3 DEF Done

\* One start for an instruction, as long as no start is added.
LEMMA StartsStay ==
  ASSUME Inv, commands' \in Seq(Command), Len(commands') = Len(commands),
         Later(commands, commands')
  PROVE  OneStartPerInstruction'
BY ZenonT(30) DEF Inv, Typed, OneStartPerInstruction, Ids, Later

\* A step that neither leases nor ends an epoch, and writes the record of at
\* most one worker.
LEMMA StepKeeps ==
  ASSUME Inv, NEW e \in Epochs, NEW y, workers' = [workers EXCEPT ![e] = y],
         Typed', Later(commands, commands'), Longer(ran, ran'), OneStartPerInstruction',
         UNCHANGED epoch, held' => held,
         Fine(y, e, commands', ran'),
         workers[e].at = "idle" => y.at = "idle",
         workers[e].at \in LetGo => y.at \in LetGo,
         status' = status \/ (status' \notin ClaimableStatuses /\ epoch = e),
         held' /\ epoch = e /\ y.at \in InTurn => status' = "running",
         RanInv',
         \A i \in 1..Len(commands') : commands'[i].acked =>
           (i \in Ids /\ commands[i].acked) \/ Done(i, commands', ran', workers')
  PROVE  Inv'
<1>1. /\ commands \in Seq(Command) /\ commands' \in Seq(Command)
      /\ ran \in Seq(CommandIds \X Epochs) /\ ran' \in Seq(CommandIds \X Epochs)
      /\ epoch \in Epochs
  BY DEF Inv, Typed
<1>2. /\ workers' = [f \in Epochs |-> workers'[f]]
      /\ workers'[e] = y /\ \A f \in Epochs : f # e => workers'[f] = workers[f]
  BY DEF Inv, WorkersInv
<1>3. WorkersInv'
  <2>1. ASSUME NEW f \in Epochs
        PROVE  Fine(workers'[f], f, commands', ran')
    <3>1. CASE f = e
      BY <1>2, <3>1
    <3>2. CASE f # e
      <4>1. Fine(workers[f], f, commands, ran) /\ workers'[f] = workers[f]
        BY <1>2, <3>2 DEF Inv, WorkersInv
      <4> QED
        BY <1>1, <4>1, FineStays
    <3> QED
      BY <3>1, <3>2
  <2> QED
    BY <1>2, <2>1 DEF WorkersInv
<1>4. LeaseInv'
  <2>1. \A f \in Epochs : f > epoch' => workers'[f].at = "idle"
    BY <1>2 DEF Inv, LeaseInv
  <2>2. workers'[epoch'].at # "idle" => status' \notin ClaimableStatuses
    BY <1>1, <1>2 DEF Inv, LeaseInv
  <2>3. TurnIsVisible'
    BY <1>1, <1>2 DEF Inv, LeaseInv, TurnIsVisible, Holds, InTurn
  <2> QED
    BY <2>1, <2>2, <2>3 DEF LeaseInv
<1>5. AckInv'
  <2>1. \A f \in Epochs : workers[f].at \in LetGo => workers'[f].at \in LetGo
    BY <1>2
  <2>2. ASSUME NEW i \in Ids, commands[i].acked
        PROVE  Done(i, commands', ran', workers')
    <3>1. Done(i, commands, ran, workers) /\ i \in 1..Len(commands)
      BY <2>2 DEF Inv, AckInv, Ids
    <3>2. commands[i].epoch \in Epochs
      <4>1. commands[i] \in Command
        BY <1>1, <3>1
      <4> QED
        BY <4>1 DEF Command
    <3> QED
      BY ZenonT(30), <1>1, <2>1, <3>1, <3>2, DoneStays
  <2> QED
    BY ZenonT(30), <2>2 DEF AckInv, Ids
<1> QED
  BY <1>3, <1>4, <1>5 DEF Inv

-----------------------------------------------------------------------------
(* The requests.                                                           *)

\* Later, if nothing happens.
LEMMA NothingLater ==
  ASSUME Typed
  PROVE  Later(commands, commands) /\ Longer(ran, ran)
BY DEF Typed, Later, Longer

\* The turns that ran stay of their epoch.
LEMMA RanStays ==
  ASSUME Typed, RanInv, UNCHANGED ran, commands' \in Seq(Command), Later(commands, commands')
  PROVE  RanInv'
<1>1. \A i, e : i \in Own(e, commands) => i \in Own(e, commands')
  BY DEF Typed, Own, Later
<1> QED
  BY <1>1 DEF RanInv

\* A step that leaves the workers alone, and acknowledges nothing.
LEMMA QuietKeeps ==
  ASSUME Inv, UNCHANGED <<epoch, status, workers, ran>>, held' => held, Typed',
         Later(commands, commands'), OneStartPerInstruction',
         \A i \in 1..Len(commands') : commands'[i].acked => i \in Ids /\ commands[i].acked
  PROVE  Inv'
<1>1. PICK e \in Epochs : e = epoch
  BY DEF Inv, Typed
<1>2. PICK y : y = workers[e]
  OBVIOUS
<1>3. workers' = [workers EXCEPT ![e] = y]
  BY <1>2 DEF Inv, WorkersInv
<1>4. Longer(ran, ran')
  BY NothingLater DEF Inv
<1>5. Fine(y, e, commands, ran)
  BY <1>2 DEF Inv, WorkersInv
<1>6. Fine(y, e, commands', ran')
  BY <1>4, <1>5, FineStays DEF Inv, Typed
<1>7. RanInv'
  BY RanStays DEF Inv, Typed
<1>8. held' /\ epoch = e /\ y.at \in InTurn => status' = "running"
  BY <1>1, <1>2 DEF Inv, LeaseInv, TurnIsVisible, Holds, InTurn
<1> QED
  BY ZenonT(30), <1>2, <1>3, <1>4, <1>6, <1>7, <1>8, StepKeeps

\* A step of the same commands.
LEMMA IdleKeeps ==
  ASSUME Inv, UNCHANGED <<epoch, status, workers, ran, commands>>, held' => held, Typed'
  PROVE  Inv'
<1>1. Later(commands, commands')
  BY NothingLater DEF Inv
<1>2. OneStartPerInstruction'
  BY DEF Inv, OneStartPerInstruction, Ids
<1>3. \A i \in 1..Len(commands') : commands'[i].acked => i \in Ids /\ commands[i].acked
  BY DEF Ids
<1> QED
  BY <1>1, <1>2, <1>3, QuietKeeps

\* A request that is noted.
LEMMA BeginTyped ==
  ASSUME calls \subseteq Call, NEW kind \in {"start", "release", "cancel"},
         NEW key \in Items \cup Epochs \cup {NoKey}, Begin(kind, key)
  PROVE  calls' \subseteq Call
<1>1. PICK c : c = [kind |-> kind, key |-> key, stored |-> FALSE]
  BY ZenonT(30)
<1>2. c \in Call
  BY <1>1 DEF Call
<1>3. calls' = calls \cup {c}
  BY <1>1 DEF Begin
<1> QED
  BY <1>2, <1>3

\* The requests that only begin.
LEMMA RequestKeeps ==
  ASSUME Inv, NEW kind \in {"start", "release", "cancel"},
         NEW key \in Items \cup Epochs \cup {NoKey}, Request(kind, key),
         UNCHANGED <<run, commands, queue, workers, ran>>
  PROVE  Inv'
<1>1. UNCHANGED <<epoch, held, status>>
  BY DEF run
<1>2. Typed'
  BY <1>1, BeginTyped DEF Inv, Typed, Request
<1> QED
  BY <1>1, <1>2, IdleKeeps

\* An instruction is queued behind the turn.
LEMMA QueueInstructionKeeps ==
  ASSUME Inv, NEW item \in Items, QueueInstruction(item)
  PROVE  Inv'
<1>1. UNCHANGED <<epoch, held, status, commands, calls, workers, ran>>
  BY DEF QueueInstruction, run
<1>2. Typed'
  BY <1>1 DEF Inv, Typed, QueueInstruction
<1> QED
  BY <1>1, <1>2, IdleKeeps

\* An instruction leaves the queue.
LEMMA RemoveQueuedKeeps ==
  ASSUME Inv, NEW call \in calls, RemoveQueued(call)
  PROVE  Inv'
<1>1. UNCHANGED <<epoch, held, status, commands, workers, ran>> /\ calls' \subseteq calls
  BY DEF RemoveQueued, run
<1>2. PICK set : set = Range(queue) \ {call.key}
  BY ZenonT(30)
<1>3. queue' \in Seq(Items \cap set)
  BY <1>2, ThoseFacts DEF Inv, Typed, RemoveQueued
<1>4. queue' \in Seq(Items)
  BY <1>3
<1>5. Typed'
  BY <1>1, <1>4 DEF Inv, Typed
<1> QED
  BY <1>1, <1>5, IdleKeeps

\* The control plane restarts.
LEMMA RestartKeeps == ASSUME Inv, Restart PROVE Inv'
<1>1. UNCHANGED <<epoch, held, status, commands, workers, ran, queue>> /\ calls' = {}
  BY DEF Restart, run
<1>2. Typed'
  BY <1>1 DEF Inv, Typed
<1> QED
  BY <1>1, <1>2, IdleKeeps

\* The command of a call is stored, once for its key.
LEMMA StoreKeeps ==
  ASSUME Inv, NEW call \in calls, Store(call)
  PROVE  Inv'
<1>1. UNCHANGED <<epoch, held, status, queue, workers, ran>>
  BY DEF Store, run
<1>2. call \in Call /\ epoch \in Epochs /\ commands \in Seq(Command)
  BY DEF Inv, Typed
<1>3. calls' \subseteq Call
  <2>1. [call EXCEPT !.stored = TRUE] \in Call
    BY ZenonT(30), <1>2 DEF Call
  <2> QED
    BY ZenonT(30), <2>1 DEF Store, Inv, Typed
<1>4. CASE UNCHANGED commands
  <2>1. Typed'
    BY <1>1, <1>3, <1>4 DEF Inv, Typed
  <2> QED
    BY <1>1, <1>4, <2>1, IdleKeeps
<1>5. CASE ~Exists(call) /\ Len(commands) < MaxCommands /\ ~UNCHANGED commands
  <2>1. PICK c : c = [kind |-> call.kind, epoch |-> epoch, key |-> call.key,
                      claimed |-> FALSE, acked |-> FALSE]
    BY ZenonT(30)
  <2>2. c \in Command
    BY <1>2, <2>1 DEF Command, Call
  <2>3. c.kind = call.kind /\ c.epoch = epoch /\ c.key = call.key /\ ~c.acked
    BY <2>1
  <2>4. commands' = Append(commands, c)
    BY <1>5, <2>1 DEF Store, QueueCommand
  <2>5. /\ commands' \in Seq(Command) /\ Len(commands') = Len(commands) + 1
        /\ Len(commands) \in Nat
        /\ commands'[Len(commands) + 1] = c
        /\ \A i \in 1..Len(commands) : commands'[i] = commands[i]
    BY <1>2, <2>2, <2>4
  <2>6. Typed'
    BY <1>1, <1>3, <1>5, <2>5, BoundsAssumption DEF Inv, Typed
  <2>7. Later(commands, commands')
    BY <2>5 DEF Later
  <2>8. \A i \in 1..Len(commands') : commands'[i].acked => i \in Ids /\ commands[i].acked
    <3>1. \A i \in 1..Len(commands') : i \in 1..Len(commands) \/ i = Len(commands) + 1
      BY <2>5
    <3> QED
      BY <2>3, <2>5, <3>1 DEF Ids
  <2>9. OneStartPerInstruction'
    <3> SUFFICES ASSUME NEW i \in 1..Len(commands'), NEW j \in 1..Len(commands'),
                        commands'[i].kind = "start", commands'[j].kind = "start",
                        commands'[i].key \in Items, commands'[i].key = commands'[j].key,
                        commands'[i].epoch = commands'[j].epoch
                 PROVE  i = j
      BY DEF OneStartPerInstruction, Ids
    <3>1. ASSUME NEW k \in 1..Len(commands), commands[k].kind = c.kind, commands[k].key = c.key,
                 commands[k].epoch = c.epoch, c.key \in Items
          PROVE  FALSE
      BY <1>5, <2>3, <3>1, KeysAssumption DEF Exists, Ids
    <3>2. CASE i \in 1..Len(commands) /\ j \in 1..Len(commands)
      BY <2>5, <3>2 DEF Inv, OneStartPerInstruction, Ids
    <3>3. CASE i \in 1..Len(commands) /\ j = Len(commands) + 1
      BY <2>5, <3>1, <3>3
    <3>4. CASE j \in 1..Len(commands) /\ i = Len(commands) + 1
      BY <2>5, <3>1, <3>4
    <3> QED
      BY <2>5, <3>2, <3>3, <3>4
  <2> QED
    BY <1>1, <2>6, <2>7, <2>8, <2>9, QuietKeeps
<1> QED
  BY <1>4, <1>5 DEF Store, QueueCommand

\* A claim lapses.
LEMMA ClaimLapsesKeeps ==
  ASSUME Inv, NEW i \in Ids, ClaimLapses(i)
  PROVE  Inv'
<1>1. UNCHANGED <<epoch, held, status, queue, calls, workers, ran>>
  BY DEF ClaimLapses, run
<1>2. commands \in Seq(Command) /\ i \in 1..Len(commands)
  BY DEF Inv, Typed, Ids
<1>3. PICK c : c = [commands[i] EXCEPT !.claimed = FALSE]
  BY ZenonT(30)
<1>4. /\ c \in Command /\ c.kind = commands[i].kind /\ c.epoch = commands[i].epoch
      /\ c.key = commands[i].key /\ c.acked = commands[i].acked
  <2>1. commands[i] \in Command
    BY <1>2
  <2> QED
    BY ZenonT(30), <1>3, <2>1 DEF Command
<1>5. commands' = [commands EXCEPT ![i] = c]
  BY <1>2, <1>3 DEF ClaimLapses
<1>6. /\ commands' \in Seq(Command) /\ Len(commands') = Len(commands)
      /\ commands'[i] = c /\ \A j \in 1..Len(commands) : j # i => commands'[j] = commands[j]
  BY <1>2, <1>4, <1>5
<1>7. Later(commands, commands')
  BY <1>2, <1>4, <1>6 DEF Later
<1>8. Typed'
  BY <1>1, <1>6 DEF Inv, Typed
<1>9. OneStartPerInstruction'
  BY <1>6, <1>7, StartsStay
<1>10. \A j \in 1..Len(commands') : commands'[j].acked => j \in Ids /\ commands[j].acked
  BY <1>4, <1>6 DEF Ids
<1> QED
  BY <1>1, <1>7, <1>8, <1>9, <1>10, QuietKeeps

-----------------------------------------------------------------------------
(* The lease.                                                              *)

\* An epoch that is claimed has had no worker.
LEMMA AcquireKeeps == ASSUME Inv, AcquireLease PROVE Inv'
<1>1. /\ status \in ClaimableStatuses /\ status' = "preparing"
      /\ UNCHANGED <<epoch, commands, queue, calls, ran>>
      /\ workers' = [workers EXCEPT ![epoch] = Leased(epoch)]
  BY DEF AcquireLease
<1>2. epoch \in Epochs /\ workers[epoch].at = "idle"
  BY <1>1 DEF Inv, Typed, LeaseInv
<1>3. PICK y : y = Leased(epoch)
  OBVIOUS
<1>4. /\ WorkerShape(y) /\ y.at = "preparing" /\ y.pending = <<>> /\ y.batch = <<>>
  BY ZenonT(30), <1>3 DEF Leased, NewWorker, WorkerShape
<1>5. Fine(y, epoch, commands, ran)
  <2>1. <<>> \in Seq(Own(epoch, commands))
    OBVIOUS
  <2> QED
    BY <1>4, <2>1 DEF Fine, InTurn
<1>6. /\ workers' = [e \in Epochs |-> workers'[e]]
      /\ workers'[epoch] = y /\ \A e \in Epochs : e # epoch => workers'[e] = workers[e]
  BY <1>1, <1>2, <1>3 DEF Inv, WorkersInv
<1>7. WorkersInv'
  <2>1. \A e \in Epochs : Fine(workers'[e], e, commands, ran)
    BY <1>5, <1>6 DEF Inv, WorkersInv
  <2> QED
    BY <1>1, <1>6, <2>1 DEF WorkersInv
<1>8. LeaseInv'
  <2>1. \A e \in Epochs : e > epoch' => workers'[e].at = "idle"
    BY <1>1, <1>2, <1>6, BoundsAssumption DEF Inv, LeaseInv, Epochs
  <2>2. status' \notin ClaimableStatuses
    BY <1>1 DEF ClaimableStatuses
  <2>3. TurnIsVisible'
    BY <1>1, <1>4, <1>6 DEF TurnIsVisible, Holds
  <2> QED
    BY <2>1, <2>2, <2>3 DEF LeaseInv
<1>9. AckInv'
  <2>1. \A e \in Epochs : workers[e].at \in LetGo => workers'[e].at \in LetGo
    BY <1>2, <1>6 DEF LetGo
  <2>2. ASSUME NEW i \in Ids, commands[i].acked
        PROVE  Done(i, commands, ran, workers')
    <3>1. Done(i, commands, ran, workers) /\ commands[i] \in Command
      BY <2>2 DEF Inv, AckInv, Ids, Typed
    <3>2. commands[i].epoch \in Epochs
      BY <3>1 DEF Command
    <3> QED
      BY <2>1, <3>1, <3>2 DEF Done
  <2> QED
    BY ZenonT(30), <1>1, <2>2 DEF AckInv, Ids
<1>10. Typed' /\ RanInv' /\ OneStartPerInstruction'
  BY <1>1 DEF Inv, Typed, RanInv, OneStartPerInstruction, Ids
<1> QED
  BY <1>7, <1>8, <1>9, <1>10 DEF Inv

\* The run is given up to a new epoch, which has no worker yet.
LEMMA NewEpochKeeps ==
  ASSUME Inv, epoch < MaxEpoch, epoch' = epoch + 1,
         UNCHANGED <<commands, queue, calls, workers, ran>>
  PROVE  Inv'
<1>1. epoch \in Nat /\ MaxEpoch \in Nat /\ epoch' \in Epochs
  BY BoundsAssumption DEF Inv, Typed, Epochs
<1>2. Typed' /\ WorkersInv' /\ RanInv' /\ AckInv' /\ OneStartPerInstruction'
  BY <1>1 DEF Inv, Typed, WorkersInv, RanInv, AckInv, OneStartPerInstruction, Ids
<1>3. workers[epoch'].at = "idle" /\ \A e \in Epochs : e > epoch' => workers[e].at = "idle"
  BY <1>1 DEF Inv, LeaseInv, Epochs
<1>4. LeaseInv'
  BY <1>3 DEF LeaseInv, TurnIsVisible, Holds
<1> QED
  BY <1>2, <1>4 DEF Inv

\* The lease lapses, is expired or given up.
LEMMA LeasesKeep == ASSUME Inv, Leases PROVE Inv'
<1>1. CASE LeaseLapses
  <2>1. UNCHANGED <<epoch, status, commands, queue, calls, workers, ran>> /\ ~held'
    BY <1>1 DEF LeaseLapses
  <2>2. Typed'
    BY <2>1 DEF Inv, Typed
  <2> QED
    BY <2>1, <2>2, IdleKeeps
<1>2. CASE ExpireLease \/ Recover
  BY <1>2, NewEpochKeeps DEF ExpireLease, Recover
<1> QED
  BY <1>1, <1>2, AcquireKeeps DEF Leases

-----------------------------------------------------------------------------
(* The worker.                                                             *)

\* What a claim and its answers leave of the commands.
LEMMA MarkedFacts ==
  ASSUME commands \in Seq(Command), NEW a, NEW b, NEW C, C = Marked(a, b)
  PROVE  /\ C \in Seq(Command) /\ Len(C) = Len(commands) /\ Later(commands, C)
         /\ \A i \in 1..Len(C) : C[i].acked => commands[i].acked \/ i \in Range(b)
<1> DEFINE new(i) == IF i \in Range(b)
                     THEN [commands[i] EXCEPT !.claimed = FALSE, !.acked = TRUE]
                     ELSE IF i \in Range(a) THEN [commands[i] EXCEPT !.claimed = TRUE]
                     ELSE commands[i]
<1>1. ASSUME NEW i \in 1..Len(commands)
      PROVE  /\ new(i) \in Command /\ new(i).kind = commands[i].kind
             /\ new(i).key = commands[i].key /\ new(i).epoch = commands[i].epoch
             /\ new(i).acked => commands[i].acked \/ i \in Range(b)
  <2>1. commands[i] \in Command
    OBVIOUS
  <2>2. ASSUME NEW c, c = [commands[i] EXCEPT !.claimed = FALSE, !.acked = TRUE]
                      \/ c = [commands[i] EXCEPT !.claimed = TRUE]
        PROVE  c \in Command /\ c.kind = commands[i].kind /\ c.key = commands[i].key
               /\ c.epoch = commands[i].epoch
    BY ZenonT(30), <2>1, <2>2 DEF Command
  <2>3. ASSUME NEW c, c = [commands[i] EXCEPT !.claimed = TRUE]
        PROVE  c.acked = commands[i].acked
    BY <2>1, <2>3 DEF Command
  <2>4. CASE i \in Range(b)
    BY <2>2, <2>4
  <2>5. CASE i \notin Range(b) /\ i \in Range(a)
    BY <2>2, <2>3, <2>5
  <2>6. CASE i \notin Range(b) /\ i \notin Range(a)
    BY <2>1, <2>6
  <2> QED
    BY <2>4, <2>5, <2>6
<1>2. C = [i \in 1..Len(commands) |-> new(i)]
  BY ZenonT(30) DEF Marked, Ids
<1> HIDE DEF new
<1>3. Len(commands) \in Nat
  OBVIOUS
<1>4. C \in Seq(Command) /\ Len(C) = Len(commands) /\ \A i \in 1..Len(commands) : C[i] = new(i)
  BY <1>1, <1>2, <1>3
<1> QED
  BY <1>1, <1>3, <1>4 DEF Later

\* A step of the worker of epoch e that changes the commands by marks only.
LEMMA WorkerKeeps ==
  ASSUME Inv, NEW e \in Epochs, NEW y, workers' = [workers EXCEPT ![e] = y],
         UNCHANGED <<epoch, queue, ran>>, calls' \subseteq Call,
         commands' \in Seq(Command), Len(commands') = Len(commands),
         Later(commands, commands'), held' => held,
         Fine(y, e, commands, ran),
         workers[e].at = "idle" => y.at = "idle",
         workers[e].at \in LetGo => y.at \in LetGo,
         status' = status \/ (status' \notin ClaimableStatuses /\ epoch = e),
         held' /\ epoch = e /\ y.at \in InTurn => status' = "running",
         \A i \in 1..Len(commands') : commands'[i].acked =>
           commands[i].acked \/ Done(i, commands, ran, workers')
  PROVE  Inv'
<1>1. /\ commands \in Seq(Command) /\ ran \in Seq(CommandIds \X Epochs)
      /\ Longer(ran, ran')
  BY NothingLater DEF Inv, Typed
<1>2. Typed' /\ RanInv' /\ OneStartPerInstruction'
  BY RanStays, StartsStay DEF Inv, Typed
<1>3. Fine(y, e, commands', ran')
  BY <1>1, FineStays
<1>4. ASSUME NEW i \in 1..Len(commands'), commands'[i].acked
      PROVE  (i \in Ids /\ commands[i].acked) \/ Done(i, commands', ran', workers')
  <2>1. i \in 1..Len(commands) /\ commands[i] \in Command
    BY <1>1
  <2>2. commands[i].epoch \in Epochs
    BY <2>1 DEF Command
  <2>3. Done(i, commands, ran, workers') => Done(i, commands', ran', workers')
    BY <1>1, <2>1, <2>2 DEF Done, Later
  <2> QED
    BY ZenonT(30), <1>4, <2>1, <2>3 DEF Ids
<1> QED
  BY ZenonT(30), <1>1, <1>2, <1>3, <1>4, StepKeeps

\* What the invariant looks at in a worker.
Looks(w, at, pending, batch, command) ==
  /\ WorkerShape(w) /\ w.at = at /\ w.pending = pending /\ w.batch = batch
  /\ w.command = command

\* A worker that is not about a command.
LEMMA FreeFine ==
  ASSUME NEW e, NEW C, NEW R, NEW w, NEW at, NEW p, NEW q, NEW c, Looks(w, at, p, q, c),
         at \notin InTurn \cup {"selected"}, p \in Seq(Own(e, C)), q \in Seq(Own(e, C))
  PROVE  Fine(w, e, C, R)
BY DEF Fine, Looks

\* A worker that is still about the same command.
LEMMA SameFine ==
  ASSUME NEW e, NEW C, NEW R, NEW x, Fine(x, e, C, R), NEW w, NEW p, NEW q,
         Looks(w, x.at, p, q, x.command), p \in Seq(Own(e, C)), q \in Seq(Own(e, C))
  PROVE  Fine(w, e, C, R)
BY DEF Fine, Looks

\* A worker as the invariant has it.
LEMMA WorkerFacts ==
  ASSUME Inv, NEW e \in Epochs
  PROVE  /\ Fine(workers[e], e, commands, ran) /\ WorkerShape(workers[e])
         /\ workers[e].pending \in Seq(Own(e, commands))
         /\ workers[e].batch \in Seq(Own(e, commands))
         /\ workers = [f \in Epochs |-> workers[f]]
         /\ commands \in Seq(Command) /\ calls \subseteq Call
         /\ Holds(e) /\ workers[e].at \in InTurn => status = "running"
BY DEF Inv, Typed, WorkersInv, Fine, LeaseInv, TurnIsVisible, InTurn

\* The commands are as they were.
LEMMA SameCommands ==
  ASSUME Inv, UNCHANGED commands
  PROVE  /\ commands' \in Seq(Command) /\ Len(commands') = Len(commands)
         /\ Later(commands, commands')
         /\ \A i \in 1..Len(commands') : commands'[i].acked => commands[i].acked
BY NothingLater DEF Inv, Typed

\* A step of the main thread that is done with a command, or not yet at one.
LEMMA MovesKeep ==
  ASSUME Inv, NEW e \in Epochs, NEW y, workers' = [workers EXCEPT ![e] = y],
         UNCHANGED <<epoch, commands, queue, ran>>, calls' \subseteq Call, held' => held,
         NEW at, NEW p \in Seq(Own(e, commands)), NEW q \in Seq(Own(e, commands)), NEW c,
         Looks(y, at, p, q, c), at \notin InTurn \cup {"selected", "idle"},
         workers[e].at # "idle", workers[e].at \in LetGo => at \in LetGo,
         status' = status \/ (status' \notin ClaimableStatuses /\ epoch = e)
  PROVE  Inv'
<1>1. Fine(y, e, commands, ran) /\ y.at = at
  BY FreeFine DEF Looks
<1>2. /\ commands' \in Seq(Command) /\ Len(commands') = Len(commands)
      /\ Later(commands, commands')
      /\ \A i \in 1..Len(commands') : commands'[i].acked => commands[i].acked
  BY SameCommands
<1> QED
  BY ZenonT(30), <1>1, <1>2, WorkerKeeps

\* The worker has prepared the run and waits for a start.
LEMMA PreparedKeeps == ASSUME Inv, NEW e \in Epochs, Prepared(e) PROVE Inv'
<1> DEFINE x == workers[e]
<1>1. /\ x.at = "preparing" /\ epoch = e /\ status' = "ready"
      /\ UNCHANGED <<epoch, held, commands, queue, calls, ran>>
  BY DEF Prepared, Holds
<1>2. PICK at : at = "waiting"
  OBVIOUS
<1>3. PICK y : y = [x EXCEPT !.at = at]
  BY ZenonT(30)
<1>4. workers' = [workers EXCEPT ![e] = y]
  BY <1>2, <1>3, WorkerFacts DEF Prepared
<1>5. Looks(y, at, x.pending, x.batch, x.command)
  <2>1. WorkerShape(x)
    BY WorkerFacts
  <2> HIDE DEF x
  <2> QED
    BY <1>3, <2>1 DEF Looks, WorkerShape
<1>6. at \notin InTurn \cup {"selected", "idle"} /\ x.at # "idle" /\ x.at \notin LetGo
  BY <1>1, <1>2 DEF InTurn, LetGo
<1>7. status' \notin ClaimableStatuses
  BY <1>1 DEF ClaimableStatuses
<1> QED
  BY ZenonT(30), <1>1, <1>4, <1>5, <1>6, <1>7, WorkerFacts, MovesKeep

\* The engine's turn ends and its router is joined.
LEMMA EngineEndsKeeps == ASSUME Inv, NEW e \in Epochs, EngineEnds(e) PROVE Inv'
<1> DEFINE x == workers[e]
<1>1. x.at = "turn" /\ UNCHANGED <<epoch, held, status, commands, queue, calls, ran>>
  BY DEF EngineEnds, run
<1>2. PICK at : at = "joining"
  OBVIOUS
<1>3. PICK y : y = [x EXCEPT !.at = at]
  BY ZenonT(30)
<1>4. workers' = [workers EXCEPT ![e] = y]
  BY <1>2, <1>3, WorkerFacts DEF EngineEnds
<1>5. Looks(y, at, x.pending, x.batch, x.command)
  <2>1. WorkerShape(x)
    BY WorkerFacts
  <2> HIDE DEF x
  <2> QED
    BY <1>3, <2>1 DEF Looks, WorkerShape
<1>6. Fine(y, e, commands, ran) /\ y.at \notin {"idle"}
  BY <1>1, <1>2, <1>5, WorkerFacts DEF Fine, Looks, InTurn
<1>7. /\ commands' \in Seq(Command) /\ Len(commands') = Len(commands)
      /\ Later(commands, commands')
      /\ \A i \in 1..Len(commands') : commands'[i].acked => commands[i].acked
  BY <1>1, SameCommands
<1>8. x.at \in InTurn /\ x.at # "idle" /\ x.at \notin LetGo
  BY <1>1 DEF InTurn, LetGo
<1>9. held' /\ epoch = e => status' = "running"
  BY <1>1, <1>8, WorkerFacts DEF Holds
<1> QED
  BY ZenonT(30), <1>1, <1>4, <1>6, <1>7, <1>8, <1>9, WorkerFacts, WorkerKeeps

\* The turn is reported as completed and the worker waits again.
LEMMA FinishTurnKeeps == ASSUME Inv, NEW e \in Epochs, FinishTurn(e) PROVE Inv'
<1> DEFINE x == workers[e]
<1>1. /\ x.at = "joining" /\ epoch = e /\ status' = "ready"
      /\ UNCHANGED <<epoch, held, commands, queue, ran>>
  BY DEF FinishTurn, Holds
<1>2. PICK at, no : at = "waiting" /\ no = FALSE
  BY ZenonT(30)
<1>3. PICK y : y = [x EXCEPT !.at = at, !.routing = no, !.command = 0, !.stopped = no]
  OBVIOUS
<1>4. workers' = [workers EXCEPT ![e] = y]
  BY ZenonT(30), <1>2, <1>3, WorkerFacts DEF FinishTurn
<1>5. Looks(y, at, x.pending, x.batch, 0)
  <2>1. WorkerShape(x)
    BY WorkerFacts
  <2> HIDE DEF x
  <2> QED
    BY ZenonT(30), <1>3, <2>1 DEF Looks, WorkerShape
<1>6. at \notin InTurn \cup {"selected", "idle"} /\ x.at # "idle" /\ x.at \notin LetGo
  BY <1>1, <1>2 DEF InTurn, LetGo
<1>7. status' \notin ClaimableStatuses
  BY <1>1 DEF ClaimableStatuses
<1>8. calls' \subseteq Call
  <2>1. CASE UNCHANGED calls
    BY <2>1, WorkerFacts
  <2>2. CASE queue # <<>> /\ Begin("start", Head(queue))
    <3>1. PICK key : key = Head(queue)
      OBVIOUS
    <3>2. key \in Items \cup Epochs \cup {NoKey}
      BY <2>2, <3>1 DEF Inv, Typed
    <3>3. Begin("start", key) /\ "start" \in {"start", "release", "cancel"}
      BY <2>2, <3>1
    <3> QED
      BY <3>2, <3>3, WorkerFacts, BeginTyped
  <2> QED
    BY <2>1, <2>2 DEF FinishTurn
<1> QED
  BY ZenonT(30), <1>1, <1>4, <1>5, <1>6, <1>7, <1>8, WorkerFacts, MovesKeep

\* A released run is reported as completed.
LEMMA CloseRunKeeps == ASSUME Inv, NEW e \in Epochs, CloseRun(e) PROVE Inv'
<1> DEFINE x == workers[e]
<1>1. /\ x.at = "released" /\ epoch = e /\ status' = "completed" /\ ~held'
      /\ UNCHANGED <<epoch, commands, queue, calls, ran>>
  BY DEF CloseRun, Holds
<1>2. PICK at : at = "gone"
  OBVIOUS
<1>3. PICK y : y = [x EXCEPT !.at = at]
  BY ZenonT(30)
<1>4. workers' = [workers EXCEPT ![e] = y]
  BY <1>2, <1>3, WorkerFacts DEF CloseRun
<1>5. Looks(y, at, x.pending, x.batch, x.command)
  <2>1. WorkerShape(x)
    BY WorkerFacts
  <2> HIDE DEF x
  <2> QED
    BY <1>3, <2>1 DEF Looks, WorkerShape
<1>6. at \notin InTurn \cup {"selected", "idle"} /\ x.at # "idle" /\ at \in LetGo
  BY <1>1, <1>2 DEF InTurn, LetGo
<1>7. status' \notin ClaimableStatuses
  BY <1>1 DEF ClaimableStatuses
<1> QED
  BY ZenonT(30), <1>1, <1>4, <1>5, <1>6, <1>7, WorkerFacts, MovesKeep

\* The thread of the lease ends.
LEMMA GoneKeeps ==
  ASSUME Inv, NEW e \in Epochs, Serving(e), NEW p \in Seq(Own(e, commands)), Gone(e, p),
         UNCHANGED <<epoch, commands, queue, calls, ran>>, held' => held,
         status' = status \/ (status' \notin ClaimableStatuses /\ epoch = e)
  PROVE  Inv'
<1>1. PICK at : at = "gone"
  OBVIOUS
<1>2. PICK y : y = [NewWorker EXCEPT !.at = at, !.pending = p]
  OBVIOUS
<1>3. workers' = [workers EXCEPT ![e] = y]
  BY <1>1, <1>2 DEF Gone
<1>4. PICK no : no = <<>>
  OBVIOUS
<1>5. Looks(y, at, p, no, 0)
  BY ZenonT(30), <1>2, <1>4 DEF Looks, WorkerShape, NewWorker
<1>6. no \in Seq(Own(e, commands))
  BY <1>4
<1>7. at \notin InTurn \cup {"selected", "idle"} /\ workers[e].at # "idle" /\ at \in LetGo
  BY <1>1 DEF InTurn, LetGo, Serving
<1> QED
  BY ZenonT(30), <1>3, <1>5, <1>6, <1>7, WorkerFacts, MovesKeep

\* The thread of a lease fails, or dies with its computer.
LEMMA EndsKeep ==
  ASSUME Inv, NEW e \in Epochs, WorkerFails(e) \/ WorkerDies(e)
  PROVE  Inv'
<1>1. CASE WorkerFails(e)
  <2>1. /\ Serving(e) /\ Gone(e, workers[e].pending)
        /\ UNCHANGED <<epoch, commands, queue, calls, ran>>
    BY <1>1 DEF WorkerFails
  <2>2. held' => held
    BY ZenonT(30), <1>1 DEF WorkerFails
  <2>3. status' = status \/ (status' \notin ClaimableStatuses /\ epoch = e)
    BY <1>1 DEF WorkerFails, Holds, ClaimableStatuses
  <2> QED
    BY <2>1, <2>2, <2>3, WorkerFacts, GoneKeeps
<1>2. CASE WorkerDies(e)
  <2>1. PICK p : p = <<>>
    OBVIOUS
  <2>2. p \in Seq(Own(e, commands))
    BY <2>1
  <2>3. /\ Serving(e) /\ Gone(e, p)
        /\ UNCHANGED <<epoch, held, status, commands, queue, calls, ran>>
    BY <1>2, <2>1 DEF WorkerDies, run
  <2> QED
    BY <2>2, <2>3, GoneKeeps
<1> QED
  BY <1>1, <1>2

\* What a worker can claim is its epoch's.
LEMMA ClaimableOwn ==
  ASSUME Inv, NEW e
  PROVE  Claimable(e) \in Seq(Own(e, commands))
<1>1. Newest \in Seq(Ids)
  <2>1. Len(commands) \in Nat
    BY DEF Inv, Typed
  <2>2. \A i \in 1..Len(commands) : Len(commands) + 1 - i \in 1..Len(commands)
    BY <2>1
  <2> QED
    BY <2>1, <2>2 DEF Newest, Ids
<1>2. PICK set : set = {i \in Ids : /\ ~commands[i].acked /\ ~commands[i].claimed
                                    /\ commands[i].epoch = e}
  BY ZenonT(30)
<1>3. Claimable(e) \in Seq(Ids \cap set)
  BY <1>1, <1>2, ThoseFacts DEF Claimable
<1>4. Ids \cap set \subseteq Own(e, commands)
  BY <1>2 DEF Own, Ids
<1> QED
  BY <1>3, <1>4

\* With what it holds already.
LEMMA TakenOwn ==
  ASSUME Inv, NEW e \in Epochs
  PROVE  workers[e].pending \o Claimable(e) \in Seq(Own(e, commands))
BY ClaimableOwn, WorkerFacts

\* Commands that are no work need nothing done.
LEMMA NoWorkDone ==
  ASSUME NEW i \in Ids \ Work
  PROVE  \A R, W : Done(i, commands, R, W)
BY DEF Work, Done

\* One command is acknowledged.
LEMMA OneMarked ==
  ASSUME Inv, NEW i, commands' = Marked(<<>>, <<i>>), Done(i, commands, ran, workers')
  PROVE  /\ commands' \in Seq(Command) /\ Len(commands') = Len(commands)
         /\ Later(commands, commands')
         /\ \A j \in 1..Len(commands') : commands'[j].acked =>
              commands[j].acked \/ Done(j, commands, ran, workers')
<1>1. /\ commands' \in Seq(Command) /\ Len(commands') = Len(commands)
      /\ Later(commands, commands')
      /\ \A j \in 1..Len(commands') :
           commands'[j].acked => commands[j].acked \/ j \in Range(<<i>>)
  BY MarkedFacts DEF Inv, Typed
<1>2. \A j \in Range(<<i>>) : j = i
  BY DEF Range
<1> QED
  BY <1>1, <1>2

\* The main thread claims commands, answers those that are no work and selects one.
LEMMA WaitForStartKeeps == ASSUME Inv, NEW e \in Epochs, WaitForStart(e) PROVE Inv'
<1> DEFINE x == workers[e]
<1>1. PICK taken : taken = x.pending \o Claimable(e)
  BY ZenonT(30)
<1>2. PICK work : work = Those(taken, Work)
  OBVIOUS
<1>3. /\ x.at = "waiting" /\ epoch = e /\ commands' = Marked(Claimable(e), Answered(taken))
      /\ UNCHANGED <<epoch, held, status, queue, calls, ran>>
  BY <1>1 DEF WaitForStart, run, Holds
<1>4. PICK y : y = IF work = <<>> THEN [x EXCEPT !.pending = <<>>]
                   ELSE [x EXCEPT !.at = "selected", !.command = work[1],
                                  !.pending = Defer(<<>>, Tail(work))]
  BY ZenonT(30)
<1>5. workers' = [workers EXCEPT ![e] = y]
  BY <1>1, <1>2, <1>4 DEF WaitForStart
<1>6. taken \in Seq(Own(e, commands))
  BY <1>1, TakenOwn
<1>7. work \in Seq(Own(e, commands))
  <2>1. work \in Seq(Own(e, commands) \cap Work)
    BY <1>2, <1>6, ThoseFacts
  <2> QED
    BY <2>1
<1>8. Fine(y, e, commands, ran) /\ y.at \in {"waiting", "selected"}
  <2>1. CASE work = <<>>
    <3>1. PICK p : p = <<>>
      OBVIOUS
    <3>2. y = [x EXCEPT !.pending = p]
      BY <1>4, <2>1, <3>1
    <3>3. Looks(y, x.at, p, x.batch, x.command)
      <4>1. WorkerShape(x)
        BY WorkerFacts
      <4> HIDE DEF x
      <4> QED
        BY <3>2, <4>1 DEF Looks, WorkerShape
    <3>4. p \in Seq(Own(e, commands))
      BY <3>1
    <3> QED
      BY <1>3, <3>3, <3>4, WorkerFacts, SameFine DEF Looks
  <2>2. CASE work # <<>>
    <3>1. PICK at, c, p : at = "selected" /\ c = work[1] /\ p = Defer(<<>>, Tail(work))
      OBVIOUS
    <3>2. y = [x EXCEPT !.at = at, !.command = c, !.pending = p]
      BY <1>4, <2>2, <3>1
    <3>3. Looks(y, at, p, x.batch, c)
      <4>1. WorkerShape(x)
        BY WorkerFacts
      <4> HIDE DEF x
      <4> QED
        BY ZenonT(30), <3>2, <4>1 DEF Looks, WorkerShape
    <3>4. PICK l : l = <<>> \o Tail(work)
      BY ZenonT(30)
    <3>5. l \in Seq(Own(e, commands)) /\ c \in Own(e, commands)
      BY <1>7, <2>2, <3>1, <3>4
    <3>6. p = Distinct(l)
      BY <3>1, <3>4 DEF Defer
    <3>7. p \in Seq(Own(e, commands))
      BY <3>5, <3>6, DistinctFacts
    <3>8. y.at = "selected" /\ at \notin InTurn
      BY <3>1, <3>3 DEF Looks, InTurn
    <3> QED
      BY <3>3, <3>5, <3>7, <3>8, WorkerFacts DEF Fine, Looks
  <2> QED
    BY <2>1, <2>2
<1>9. /\ commands' \in Seq(Command) /\ Len(commands') = Len(commands)
      /\ Later(commands, commands')
      /\ \A i \in 1..Len(commands') :
           commands'[i].acked => commands[i].acked \/ i \in Range(Answered(taken))
  BY <1>3, MarkedFacts, WorkerFacts
<1>10. \A i \in Range(Answered(taken)) : Done(i, commands, ran, workers')
  <2>1. PICK rest : rest = Ids \ Work
    BY ZenonT(30)
  <2>2. Answered(taken) \in Seq(Own(e, commands) \cap rest)
    BY <1>6, <2>1, ThoseFacts DEF Answered
  <2>3. \A i \in Range(Answered(taken)) : i \in rest
    BY <2>2 DEF Range
  <2> QED
    BY <2>1, <2>3, NoWorkDone
<1>11. x.at # "idle" /\ x.at \notin LetGo /\ y.at \notin InTurn
  BY <1>3, <1>8 DEF LetGo, InTurn
<1> QED
  BY ZenonT(30), <1>3, <1>5, <1>8, <1>9, <1>10, <1>11, WorkerFacts, WorkerKeeps

\* The selected start becomes a turn.
LEMMA BeginTurnKeeps == ASSUME Inv, NEW e \in Epochs, BeginTurn(e) PROVE Inv'
<1> DEFINE x == workers[e]
<1> DEFINE c == workers[e].command
<1>1. /\ x.at = "selected" /\ epoch = e /\ commands[c].kind = "start" /\ status' = "running"
      /\ UNCHANGED <<epoch, held, commands, queue, calls>>
  BY DEF BeginTurn, Holds
<1>2. PICK at, no : at = "starting" /\ no = FALSE
  BY ZenonT(30)
<1>3. PICK y : y = [x EXCEPT !.at = at, !.stopped = no]
  OBVIOUS
<1>4. workers' = [workers EXCEPT ![e] = y]
  BY ZenonT(30), <1>2, <1>3, WorkerFacts DEF BeginTurn
<1>5. Looks(y, at, x.pending, x.batch, c)
  <2>1. WorkerShape(x) /\ c = x.command
    BY ZenonT(30), WorkerFacts
  <2> HIDE DEF x, c
  <2>2. PICK z : z = [x EXCEPT !.at = at]
    BY ZenonT(30)
  <2>3. Looks(z, at, x.pending, x.batch, x.command)
    BY <2>1, <2>2 DEF Looks, WorkerShape
  <2>4. y = [z EXCEPT !.stopped = no]
    BY ZenonT(30), <1>3, <2>2
  <2>5. Looks(y, at, x.pending, x.batch, x.command)
    BY <2>3, <2>4 DEF Looks, WorkerShape
  <2> QED
    BY ZenonT(30), <2>1, <2>5
<1>6. c \in Own(e, commands) /\ c \in CommandIds
  <2>1. c \in Own(e, commands)
    BY <1>1, WorkerFacts DEF Fine
  <2>2. c \in 1..Len(commands) /\ Len(commands) \in Nat /\ Len(commands) <= MaxCommands
    BY <2>1 DEF Own, Inv, Typed
  <2> QED
    BY <2>1, <2>2, BoundsAssumption DEF CommandIds
<1>7. PICK t : t = <<c, e>>
  BY ZenonT(30)
<1>8. t \in CommandIds \X Epochs /\ t[1] = c /\ t[2] = e
  BY <1>6, <1>7
<1>9. ran' = Append(ran, t) /\ ran \in Seq(CommandIds \X Epochs)
  BY <1>7 DEF BeginTurn, Inv, Typed
<1>10. /\ ran' \in Seq(CommandIds \X Epochs) /\ Len(ran') = Len(ran) + 1 /\ Len(ran) \in Nat
       /\ ran'[Len(ran) + 1] = t /\ \A k \in 1..Len(ran) : ran'[k] = ran[k]
  BY <1>8, <1>9
<1>11. Longer(ran, ran')
  BY <1>10 DEF Longer
<1>12. HasRun(c, ran')
  <2>1. Len(ran) + 1 \in 1..Len(ran')
    BY <1>10
  <2> QED
    BY <1>8, <1>10, <2>1 DEF HasRun
<1>13. RanInv'
  <2>1. ASSUME NEW k \in 1..Len(ran')
        PROVE  ran'[k][1] \in Own(ran'[k][2], commands)
    <3>1. CASE k \in 1..Len(ran)
      BY <1>10, <3>1 DEF Inv, RanInv
    <3>2. CASE k = Len(ran) + 1
      BY <1>6, <1>8, <1>10, <3>2
    <3> QED
      BY <1>10, <3>1, <3>2
  <2> QED
    BY <1>1, <2>1 DEF RanInv
<1>14. Typed' /\ OneStartPerInstruction' /\ Later(commands, commands')
  BY <1>1, <1>10, NothingLater DEF Inv, Typed, OneStartPerInstruction, Ids
<1>15. Fine(y, e, commands', ran')
  BY <1>1, <1>5, <1>6, <1>12, WorkerFacts DEF Fine, Looks
<1>16. x.at # "idle" /\ x.at \notin LetGo /\ status' \notin ClaimableStatuses
  BY <1>1 DEF LetGo, ClaimableStatuses
<1>17. \A i \in 1..Len(commands') : commands'[i].acked => i \in Ids /\ commands[i].acked
  BY <1>1 DEF Ids
<1> QED
  BY ZenonT(30), <1>1, <1>4, <1>11, <1>13, <1>14, <1>15, <1>16, <1>17, StepKeeps

\* The start of the turn is acknowledged once its turn has begun.
LEMMA AckStartKeeps == ASSUME Inv, NEW e \in Epochs, AckStart(e) PROVE Inv'
<1> DEFINE x == workers[e]
<1>1. /\ x.at = "starting" /\ Holds(e) /\ commands' = Marked(<<>>, <<x.command>>)
      /\ UNCHANGED <<epoch, held, status, queue, calls, ran>>
  BY DEF AckStart, run
<1>2. PICK at, yes : at = "turn" /\ yes = TRUE
  OBVIOUS
<1>3. PICK y : y = [x EXCEPT !.at = at, !.routing = yes]
  OBVIOUS
<1>4. workers' = [workers EXCEPT ![e] = y]
  BY ZenonT(30), <1>2, <1>3, WorkerFacts DEF AckStart
<1>5. Looks(y, at, x.pending, x.batch, x.command)
  <2>1. WorkerShape(x)
    BY WorkerFacts
  <2> HIDE DEF x
  <2> QED
    BY ZenonT(30), <1>3, <2>1 DEF Looks, WorkerShape
<1>6. Fine(y, e, commands, ran) /\ y.at # "idle"
  BY <1>1, <1>2, <1>5, WorkerFacts DEF Fine, Looks, InTurn
<1>7. Done(x.command, commands, ran, workers')
  BY <1>1, WorkerFacts DEF Fine, InTurn, Done
<1>8. x.at \in InTurn /\ x.at # "idle" /\ x.at \notin LetGo
  BY <1>1 DEF InTurn, LetGo
<1>9. status' = "running"
  BY <1>1, <1>8, WorkerFacts
<1>10. /\ commands' \in Seq(Command) /\ Len(commands') = Len(commands)
       /\ Later(commands, commands')
       /\ \A j \in 1..Len(commands') : commands'[j].acked =>
            commands[j].acked \/ Done(j, commands, ran, workers')
  BY <1>1, <1>7, OneMarked
<1> QED
  BY ZenonT(30), <1>1, <1>4, <1>6, <1>8, <1>9, <1>10, WorkerFacts, WorkerKeeps

\* The release is acknowledged as the worker lets the run go.
LEMMA ReleaseKeeps == ASSUME Inv, NEW e \in Epochs, Release(e) PROVE Inv'
<1> DEFINE x == workers[e]
<1>1. /\ x.at = "selected" /\ Holds(e) /\ commands' = Marked(<<>>, <<x.command>>)
      /\ commands[x.command].kind = "release"
      /\ UNCHANGED <<epoch, held, status, queue, calls, ran>>
  BY DEF Release, run
<1>2. PICK at : at = "released"
  OBVIOUS
<1>3. PICK y : y = [x EXCEPT !.at = at]
  BY ZenonT(30)
<1>4. workers' = [workers EXCEPT ![e] = y]
  BY <1>2, <1>3, WorkerFacts DEF Release
<1>5. Looks(y, at, x.pending, x.batch, x.command)
  <2>1. WorkerShape(x)
    BY WorkerFacts
  <2> HIDE DEF x
  <2> QED
    BY <1>3, <2>1 DEF Looks, WorkerShape
<1>6. at \notin InTurn \cup {"selected", "idle"} /\ at \in LetGo /\ y.at = at
  BY <1>2, <1>5 DEF InTurn, LetGo, Looks
<1>7. Fine(y, e, commands, ran)
  BY <1>5, <1>6, WorkerFacts, FreeFine
<1>8. x.command \in Own(e, commands) /\ workers'[e] = y
  BY <1>1, <1>4, WorkerFacts DEF Fine
<1>9. Done(x.command, commands, ran, workers')
  BY <1>1, <1>6, <1>8 DEF Done, Own
<1>10. x.at # "idle" /\ x.at \notin LetGo
  BY <1>1 DEF LetGo
<1>11. /\ commands' \in Seq(Command) /\ Len(commands') = Len(commands)
       /\ Later(commands, commands')
       /\ \A j \in 1..Len(commands') : commands'[j].acked =>
            commands[j].acked \/ Done(j, commands, ran, workers')
  BY <1>1, <1>9, OneMarked
<1> QED
  BY ZenonT(30), <1>1, <1>4, <1>6, <1>7, <1>10, <1>11, WorkerFacts, WorkerKeeps

-----------------------------------------------------------------------------
(* The router.                                                             *)

\* A step of the router: it leaves the main thread where it is.
LEMMA RouterKeeps ==
  ASSUME Inv, NEW e \in Epochs, NEW y, workers' = [workers EXCEPT ![e] = y],
         UNCHANGED <<epoch, held, status, queue, calls, ran>>,
         NEW p \in Seq(Own(e, commands)), NEW q \in Seq(Own(e, commands)),
         Looks(y, workers[e].at, p, q, workers[e].command),
         commands' \in Seq(Command), Len(commands') = Len(commands),
         Later(commands, commands'),
         \A i \in 1..Len(commands') : commands'[i].acked =>
           commands[i].acked \/ Done(i, commands, ran, workers')
  PROVE  Inv'
<1>1. Fine(y, e, commands, ran) /\ y.at = workers[e].at
  BY ZenonT(30), WorkerFacts, SameFine DEF Looks
<1>2. held' /\ epoch = e /\ y.at \in InTurn => status' = "running"
  BY <1>1, WorkerFacts DEF Holds
<1> QED
  BY ZenonT(30), <1>1, <1>2, WorkerFacts, WorkerKeeps

\* The router claims and acknowledges nothing.
LEMMA ClaimMarked ==
  ASSUME Inv, NEW a, commands' = Marked(a, <<>>)
  PROVE  /\ commands' \in Seq(Command) /\ Len(commands') = Len(commands)
         /\ Later(commands, commands')
         /\ \A j \in 1..Len(commands') : commands'[j].acked => commands[j].acked
<1>1. /\ commands' \in Seq(Command) /\ Len(commands') = Len(commands)
      /\ Later(commands, commands')
      /\ \A j \in 1..Len(commands') :
           commands'[j].acked => commands[j].acked \/ j \in Range(<<>>)
  BY MarkedFacts DEF Inv, Typed
<1>2. \A j : j \notin Range(<<>>)
  BY DEF Range
<1> QED
  BY <1>1, <1>2

\* The router claims a batch during the turn.
LEMMA RouterTakesKeeps ==
  ASSUME Inv, NEW e \in Epochs, RouterTakes(e)
  PROVE  Inv'
<1> DEFINE x == workers[e]
<1>1. /\ commands' = Marked(Claimable(e), <<>>)
      /\ UNCHANGED <<epoch, held, status, queue, calls, ran>>
  BY DEF RouterTakes, run
<1>2. PICK q, p : q = x.pending \o Claimable(e) /\ p = <<>>
  BY ZenonT(30)
<1>3. PICK y : y = [x EXCEPT !.batch = q, !.pending = p]
  OBVIOUS
<1>4. workers' = [workers EXCEPT ![e] = y]
  BY ZenonT(30), <1>2, <1>3, WorkerFacts DEF RouterTakes
<1>5. Looks(y, x.at, p, q, x.command)
  <2>1. WorkerShape(x)
    BY WorkerFacts
  <2> HIDE DEF x
  <2> QED
    BY ZenonT(30), <1>3, <2>1 DEF Looks, WorkerShape
<1>6. p \in Seq(Own(e, commands)) /\ q \in Seq(Own(e, commands))
  BY <1>2, TakenOwn
<1> QED
  BY ZenonT(30), <1>1, <1>4, <1>5, <1>6, ClaimMarked, RouterKeeps

\* The answer to a claim of the router is lost.
LEMMA RouterClaimLostKeeps ==
  ASSUME Inv, NEW e \in Epochs, RouterClaimLost(e)
  PROVE  Inv'
<1> DEFINE x == workers[e]
<1>1. /\ commands' = Marked(Claimable(e), <<>>)
      /\ UNCHANGED <<epoch, held, status, queue, calls, ran>>
  BY DEF RouterClaimLost, run
<1>2. PICK no : no = FALSE
  BY ZenonT(30)
<1>3. PICK y : y = [x EXCEPT !.routing = no]
  BY ZenonT(30)
<1>4. workers' = [workers EXCEPT ![e] = y]
  BY ZenonT(30), <1>2, <1>3, WorkerFacts DEF RouterClaimLost
<1>5. Looks(y, x.at, x.pending, x.batch, x.command)
  <2>1. WorkerShape(x)
    BY WorkerFacts
  <2> HIDE DEF x
  <2> QED
    BY <1>3, <2>1 DEF Looks, WorkerShape
<1> QED
  BY ZenonT(30), <1>1, <1>4, <1>5, WorkerFacts, ClaimMarked, RouterKeeps

\* The first of a batch, and the rest of it.
LEMMA BatchFacts ==
  ASSUME Inv, NEW e \in Epochs, workers[e].batch # <<>>
  PROVE  /\ Head(workers[e].batch) \in Own(e, commands)
         /\ Head(workers[e].batch) \in Ids
         /\ Tail(workers[e].batch) \in Seq(Own(e, commands))
<1>1. PICK q \in Seq(Own(e, commands)) : q = workers[e].batch
  BY WorkerFacts
<1>2. Head(q) \in Own(e, commands) /\ Tail(q) \in Seq(Own(e, commands))
  BY <1>1
<1> QED
  BY <1>1, <1>2 DEF Own, Ids

\* The router puts off a command that is work for the main thread.
LEMMA RouterDefersKeeps ==
  ASSUME Inv, NEW e \in Epochs, RouterDefers(e)
  PROVE  Inv'
<1> DEFINE x == workers[e]
<1>1. /\ x.batch # <<>> /\ UNCHANGED <<epoch, held, status, commands, queue, calls, ran>>
  BY DEF RouterDefers, run
<1>2. PICK l : l = x.pending \o <<Head(x.batch)>>
  BY ZenonT(30)
<1>3. PICK p, q : p = Distinct(l) /\ q = Tail(x.batch)
  BY ZenonT(30)
<1>4. PICK y : y = [x EXCEPT !.pending = p, !.batch = q]
  OBVIOUS
<1>5. workers' = [workers EXCEPT ![e] = y]
  BY ZenonT(30), <1>2, <1>3, <1>4, WorkerFacts DEF RouterDefers, Defer
<1>6. Looks(y, x.at, p, q, x.command)
  <2>1. WorkerShape(x)
    BY WorkerFacts
  <2> HIDE DEF x
  <2> QED
    BY ZenonT(30), <1>4, <2>1 DEF Looks, WorkerShape
<1>7. l \in Seq(Own(e, commands)) /\ q \in Seq(Own(e, commands))
  BY <1>1, <1>2, <1>3, BatchFacts, WorkerFacts
<1>8. p \in Seq(Own(e, commands))
  BY <1>3, <1>7, DistinctFacts
<1> QED
  BY ZenonT(30), <1>1, <1>5, <1>6, <1>7, <1>8, SameCommands, RouterKeeps

\* The router carries out a command of the turn and acknowledges it.
LEMMA RouterCancelsKeeps ==
  ASSUME Inv, NEW e \in Epochs, RouterCancels(e)
  PROVE  Inv'
<1> DEFINE x == workers[e]
<1>1. PICK i : i = Head(x.batch)
  OBVIOUS
<1>2. /\ x.batch # <<>> /\ i \notin Work /\ commands' = Marked(<<>>, <<i>>)
      /\ UNCHANGED <<epoch, held, status, queue, calls, ran>>
  BY <1>1 DEF RouterCancels, run
<1>3. PICK q, yes : q = Tail(x.batch) /\ yes = TRUE
  BY ZenonT(30)
<1>4. PICK y : y = [x EXCEPT !.batch = q, !.stopped = yes]
  OBVIOUS
<1>5. workers' = [workers EXCEPT ![e] = y]
  BY ZenonT(30), <1>3, <1>4, WorkerFacts DEF RouterCancels
<1>6. Looks(y, x.at, x.pending, q, x.command)
  <2>1. WorkerShape(x)
    BY WorkerFacts
  <2> HIDE DEF x
  <2> QED
    BY ZenonT(30), <1>4, <2>1 DEF Looks, WorkerShape
<1>7. q \in Seq(Own(e, commands)) /\ i \in Ids
  BY <1>1, <1>2, <1>3, BatchFacts
<1>8. Done(i, commands, ran, workers')
  BY <1>2, <1>7, NoWorkDone
<1> QED
  BY ZenonT(30), <1>2, <1>5, <1>6, <1>7, <1>8, WorkerFacts,
     OneMarked, RouterKeeps

\* The acknowledgement of a routed command is lost.
LEMMA RouterAckFailsKeeps ==
  ASSUME Inv, NEW e \in Epochs, RouterAckFails(e)
  PROVE  Inv'
<1> DEFINE x == workers[e]
<1>1. PICK i : i = Head(x.batch)
  OBVIOUS
<1>2. /\ x.batch # <<>> /\ i \notin Work
      /\ UNCHANGED commands \/ commands' = Marked(<<>>, <<i>>)
      /\ UNCHANGED <<epoch, held, status, queue, calls, ran>>
  BY <1>1 DEF RouterAckFails, run
<1>3. PICK q, no, yes : q = <<>> /\ no = FALSE /\ yes = TRUE
  BY ZenonT(30)
<1>4. PICK y : y = [x EXCEPT !.batch = q, !.routing = no, !.stopped = yes]
  OBVIOUS
<1>5. workers' = [workers EXCEPT ![e] = y]
  BY ZenonT(30), <1>3, <1>4, WorkerFacts DEF RouterAckFails
<1>6. Looks(y, x.at, x.pending, q, x.command)
  <2>1. WorkerShape(x)
    BY WorkerFacts
  <2> HIDE DEF x
  <2> QED
    BY ZenonT(30), <1>4, <2>1 DEF Looks, WorkerShape
<1>7. q \in Seq(Own(e, commands)) /\ i \in Ids
  BY <1>1, <1>2, <1>3, BatchFacts
<1>8. Done(i, commands, ran, workers')
  BY <1>2, <1>7, NoWorkDone
<1> QED
  BY ZenonT(30), <1>2, <1>5, <1>6, <1>7, <1>8, WorkerFacts,
     SameCommands, OneMarked, RouterKeeps

-----------------------------------------------------------------------------
(* The whole.                                                              *)

\* It holds of a new run.
LEMMA InitInv == Init => Inv
<1> SUFFICES ASSUME Init
             PROVE  Inv
  OBVIOUS
<1>1. PICK y : y = NewWorker
  OBVIOUS
<1>2. WorkerShape(y) /\ y.at = "idle" /\ y.pending = <<>> /\ y.batch = <<>>
  BY <1>1 DEF NewWorker, WorkerShape
<1>3. workers = [e \in Epochs |-> y]
  BY <1>1 DEF Init
<1>4. \A e \in Epochs : workers[e] = y
  BY <1>3
<1>5. \A e \in Epochs : Fine(y, e, commands, ran)
  <2>1. \A e \in Epochs : <<>> \in Seq(Own(e, commands))
    OBVIOUS
  <2> QED
    BY <1>2, <2>1 DEF Fine, InTurn
<1>6. WorkersInv
  BY <1>3, <1>4, <1>5 DEF WorkersInv
<1>7. epoch \in Epochs
  BY BoundsAssumption DEF Init, Epochs
<1>8. calls \subseteq Call
  <2>1. [kind |-> "start", key |-> NoKey, stored |-> FALSE] \in Call
    BY DEF Call
  <2> QED
    BY <2>1 DEF Init
<1>9. Typed
  BY <1>7, <1>8, BoundsAssumption DEF Typed, Init
<1>10. LeaseInv
  BY <1>2, <1>4, <1>7 DEF LeaseInv, TurnIsVisible
<1>11. RanInv /\ AckInv /\ OneStartPerInstruction
  BY DEF Init, RanInv, AckInv, OneStartPerInstruction, Ids
<1> QED
  BY <1>6, <1>9, <1>10, <1>11 DEF Inv

\* Every step keeps it.
LEMMA NextInv == Inv /\ [Next]_vars => Inv'
<1> SUFFICES ASSUME Inv, [Next]_vars
             PROVE  Inv'
  OBVIOUS
<1>1. CASE UNCHANGED vars
  <2>1. UNCHANGED <<epoch, held, status, commands, queue, calls, workers, ran>>
    BY <1>1 DEF vars
  <2>2. Typed'
    BY <2>1 DEF Inv, Typed
  <2> QED
    BY <2>1, <2>2, IdleKeeps
<1>2. CASE Requests
  <2>1. CASE SubmitTurn \/ Cancel
    BY <2>1, RequestKeeps DEF SubmitTurn, Cancel
  <2>2. CASE ReleaseWorkspace
    BY <2>2, RequestKeeps DEF ReleaseWorkspace, Inv, Typed
  <2>3. CASE RunNextQueued
    <3>1. Head(queue) \in Items
      BY <2>3 DEF RunNextQueued, Inv, Typed
    <3> QED
      BY <2>3, <3>1, RequestKeeps DEF RunNextQueued
  <2> QED
    BY <1>2, <2>1, <2>2, <2>3, QueueInstructionKeeps, StoreKeeps, RemoveQueuedKeeps,
       RestartKeeps DEF Requests
<1>3. ASSUME NEW e \in Epochs, Main(e)
      PROVE  Inv'
  BY <1>3, PreparedKeeps, WaitForStartKeeps, BeginTurnKeeps, AckStartKeeps, EngineEndsKeeps,
     FinishTurnKeeps, ReleaseKeeps, CloseRunKeeps DEF Main
<1>4. ASSUME NEW e \in Epochs, Router(e)
      PROVE  Inv'
  BY <1>4, RouterTakesKeeps, RouterClaimLostKeeps, RouterDefersKeeps, RouterCancelsKeeps,
     RouterAckFailsKeeps DEF Router
<1> QED
  BY <1>1, <1>2, <1>3, <1>4, LeasesKeep, ClaimLapsesKeeps, EndsKeep DEF Next

\* The inductive invariant.
LEMMA AlwaysInv == Spec => []Inv
BY InitInv, NextInv, PTL DEF Spec

\* While the holder of the lease has a turn, the run is running.
THEOREM TurnsAreVisible == Spec => []TurnIsVisible
<1>1. Inv => TurnIsVisible
  BY DEF Inv, LeaseInv
<1> QED
  BY <1>1, AlwaysInv, PTL

\* An epoch has one start command for a queued instruction, however often
\* start_next_queued is called or interrupted.
THEOREM InstructionsStartOnce == Spec => []OneStartPerInstruction
<1>1. Inv => OneStartPerInstruction
  BY DEF Inv
<1> QED
  BY <1>1, AlwaysInv, PTL

\* A worker runs commands of its own epoch only.
THEOREM EpochsRunTheirOwn == Spec => []TurnsOfTheirEpoch
<1>1. Inv => TurnsOfTheirEpoch
  BY DEF Inv, RanInv, TurnsOfTheirEpoch, Own
<1> QED
  BY <1>1, AlwaysInv, PTL

\* A start is acknowledged once its turn has been started, and not before.
THEOREM AcknowledgedStartsRan == Spec => []AckedStartRan
<1>1. Inv => AckedStartRan
  BY DEF Inv, AckInv, Done, HasRun, AckedStartRan
<1> QED
  BY <1>1, AlwaysInv, PTL

\* Only a worker that begins a turn adds one to those that ran.
LEMMA OnlyBeginTurnRuns ==
  ASSUME Next
  PROVE  UNCHANGED ran \/ \E e \in Epochs : BeginTurn(e)
<1>1. ASSUME Requests \/ Leases PROVE UNCHANGED ran
  BY ZenonT(30), <1>1
     DEF Requests, SubmitTurn, ReleaseWorkspace, Cancel, RunNextQueued, QueueInstruction,
     Store, RemoveQueued, Restart, Leases, AcquireLease, LeaseLapses, ExpireLease, Recover
<1>2. ASSUME NEW e \in Epochs, Main(e) PROVE UNCHANGED ran \/ BeginTurn(e)
  BY <1>2 DEF Main, Prepared, WaitForStart, AckStart, EngineEnds, FinishTurn, Release, CloseRun
<1>3. ASSUME NEW e \in Epochs, Router(e) \/ WorkerFails(e) \/ WorkerDies(e) PROVE UNCHANGED ran
  BY <1>3 DEF Router, RouterTakes, RouterClaimLost, RouterDefers, RouterCancels, RouterAckFails,
     WorkerFails, WorkerDies
<1> QED
  BY <1>1, <1>2, <1>3 DEF Next, ClaimLapses

\* No turn is started in a workspace that was given up.
THEOREM ReleasedStartsNothing == Spec => NoTurnAfterRelease
<1> DEFINE A == \A e \in Epochs, i \in Ids :
                  /\ commands[i].kind = "release" /\ commands[i].acked
                  /\ commands[i].epoch = e
                  => \A k \in Len(ran) + 1..Len(ran') : ran'[k][2] # e
<1>1. Inv /\ [Next]_vars => [A]_vars
  <2> SUFFICES ASSUME Inv, Next, NEW e \in Epochs, NEW i \in Ids,
                      commands[i].kind = "release", commands[i].acked,
                      commands[i].epoch = e, NEW k \in Len(ran) + 1..Len(ran')
               PROVE  ran'[k][2] # e
    OBVIOUS
  <2>1. ran \in Seq(CommandIds \X Epochs) /\ Len(ran) \in Nat
    BY DEF Inv, Typed
  <2>2. workers[e].at \in LetGo
    BY DEF Inv, AckInv, Done
  <2>3. CASE UNCHANGED ran
    BY <2>1, <2>3
  <2>4. ASSUME NEW f \in Epochs, BeginTurn(f) PROVE ran'[k][2] # e
    <3>1. f # e
      BY <2>2, <2>4 DEF BeginTurn, LetGo
    <3>2. PICK t : t = <<workers[f].command, f>>
      BY ZenonT(30)
    <3>3. ran' = Append(ran, t) /\ t[2] = f
      BY <2>4, <3>2 DEF BeginTurn
    <3>4. Len(ran') = Len(ran) + 1 /\ ran'[Len(ran) + 1] = t
      BY <2>1, <3>3
    <3>5. k = Len(ran) + 1
      BY <2>1, <3>4
    <3> QED
      BY <3>1, <3>3, <3>4, <3>5
  <2> QED
    BY <2>3, <2>4, OnlyBeginTurnRuns
<1> QED
  BY <1>1, AlwaysInv, PTL DEF Spec, NoTurnAfterRelease
=============================================================================
