-------------------------- MODULE RuntimeCommands --------------------------
(***************************************************************************)
(* The commands of one remote Task Run: how the control plane persists,    *)
(* claims and acknowledges them (coding/control_service.py), how turns,    *)
(* queued instructions, stops and releases become commands                 *)
(* (coding/remote_execution.py, service_turns.py), and how a runtime's     *)
(* main thread and its command router serve them (runtime_worker.py).      *)
(*                                                                         *)
(* TaskRuns is the specification of leases; here an epoch has at most one  *)
(* worker, which can lose its lease at any time and learns of it from the  *)
(* first call that is refused.  Steering, approvals and agent commands are *)
(* answered by the thread that takes them exactly as cancel is, and cancel *)
(* stands for all of them; a turn that waits for an approval is a running  *)
(* turn.  The router is joined before the next turn: the 30 seconds after  *)
(* which the code stops waiting for it are taken to suffice.               *)
(***************************************************************************)
EXTENDS RunState, Sequences, FiniteSets, Functions, Lists

CONSTANTS
  Items,          \* the instructions a user may queue behind a turn
  NoKey,          \* the key of a command that no later call can repeat
  MaxEpoch, MaxCommands,  \* bounds on unbounded counters
  MaxCalls,       \* bound on the users' requests in progress at once
  Redelivers,     \* whether a claim may lapse before its acknowledgement
  Loses           \* whether an answer to the router may be lost

Epochs == 1..MaxEpoch

CommandIds == 1..MaxCommands

ASSUME BoundsAssumption == {MaxEpoch, MaxCommands, MaxCalls} \subseteq Nat \ {0}

ASSUME KeysAssumption == NoKey \notin Items /\ (Items \cup {NoKey}) \cap Epochs = {}

ASSUME SwitchesAssumption == Redelivers \in BOOLEAN /\ Loses \in BOOLEAN

VARIABLES
  epoch, held, status,  \* the run: its epoch, a live lease, its status
  commands,  \* every command persisted for the run, oldest first
  queue,     \* the session's queued_instructions
  calls,     \* requests that have read the run and not yet done their writes
  workers,   \* the worker of each epoch
  ran        \* history: <<command, epoch>> of every turn, in order

run == <<epoch, held, status>>

vars == <<epoch, held, status, commands, queue, calls, workers, ran>>

\* RuntimeCommand.
Command == [kind: {"start", "release", "cancel"}, epoch: Epochs,
            key: Items \cup Epochs \cup {NoKey},
            claimed: BOOLEAN, acked: BOOLEAN]

Call == [kind: {"start", "release", "cancel"},
         key: Items \cup Epochs \cup {NoKey}, stored: BOOLEAN]

\* What a RemoteRuntimeWorker is doing for its lease: `pending' is
\* _pending_commands, `batch' what the router took and has not yet routed,
\* `command' the one selected, `stopped' whether its turn was cancelled.
Worker == [at: {"idle", "preparing", "waiting", "selected", "starting", "turn",
                "joining", "released", "gone"},
           pending: Seq(CommandIds), batch: Seq(CommandIds), routing: BOOLEAN,
           command: CommandIds \cup {0}, stopped: BOOLEAN]

NewWorker == [at |-> "idle", pending |-> <<>>, batch |-> <<>>, routing |-> FALSE,
              command |-> 0, stopped |-> FALSE]

\* _require_fence, for the worker of epoch e.
Holds(e) == held /\ epoch = e

Ids == 1..Len(commands)

Work == {i \in Ids : commands[i].kind \in {"start", "release"}}

-----------------------------------------------------------------------------
(* Requests: each reads the run, and writes later. *)

Begin(kind, key) ==
  calls' = calls \cup {[kind |-> kind, key |-> key, stored |-> FALSE]}

\* A user's request comes in.
Request(kind, key) ==
  /\ Cardinality(calls) < MaxCalls
  /\ Begin(kind, key)

\* submit_turn of a run that _continue_completed_task finds unfinished.
SubmitTurn ==
  /\ status \notin TerminalRunStatuses
  /\ Request("start", NoKey)
  /\ UNCHANGED <<run, commands, queue, workers, ran>>

\* release_workspace.
ReleaseWorkspace ==
  /\ status \notin TerminalRunStatuses
  /\ Request("release", epoch)
  /\ UNCHANGED <<run, commands, queue, workers, ran>>

\* cancel: the turn the run is in is the one to stop.
Cancel ==
  /\ status = "running"
  /\ Request("cancel", NoKey)
  /\ UNCHANGED <<run, commands, queue, workers, ran>>

\* run_next_queued, through start_next_queued.
RunNextQueued ==
  /\ queue # <<>>
  /\ status = "ready"
  /\ Request("start", Head(queue))
  /\ UNCHANGED <<run, commands, queue, workers, ran>>

\* queue_turn of service_turns.py; instruction ids are fresh.
QueueInstruction(item) ==
  /\ status = "running"
  /\ \A i \in Ids : commands[i].key # item
  /\ \A i \in 1..Len(queue) : queue[i] # item
  /\ \A call \in calls : call.key # item
  /\ queue' = Append(queue, item)
  /\ UNCHANGED <<run, commands, calls, workers, ran>>

\* Mutant of Exists: the idempotency key is not looked up.
NeverExists(call) == FALSE

\* queue_command finds the command of an earlier call with this key.
Exists(call) ==
  /\ call.key # NoKey
  /\ \E i \in Ids : /\ commands[i].kind = call.kind
                    /\ commands[i].key = call.key
                    /\ commands[i].epoch = epoch

\* queue_command, in the epoch the run has by now.
QueueCommand(call) ==
  \/ /\ Exists(call)
     /\ UNCHANGED commands
  \/ /\ ~Exists(call)
     /\ Len(commands) < MaxCommands
     /\ commands' = Append(commands,
          [kind |-> call.kind, epoch |-> epoch, key |-> call.key,
           claimed |-> FALSE, acked |-> FALSE])

\* The call stores its command; start_next_queued has another write to do.
Store(call) ==
  /\ ~call.stored
  /\ QueueCommand(call)
  /\ calls' = (calls \ {call}) \cup
       (IF call.key \in Items THEN {[call EXCEPT !.stored = TRUE]} ELSE {})
  /\ UNCHANGED <<run, queue, workers, ran>>

\* The second write of start_next_queued.
RemoveQueued(call) ==
  /\ call.stored
  /\ queue' = Those(queue, Range(queue) \ {call.key})
  /\ calls' = calls \ {call}
  /\ UNCHANGED <<run, commands, workers, ran>>

\* The control plane stops and starts again: its calls are gone, its records
\* are not.
Restart ==
  /\ calls # {}
  /\ calls' = {}
  /\ UNCHANGED <<run, commands, queue, workers, ran>>

-----------------------------------------------------------------------------
(* The run's lease. *)

\* Mutant of Leased: the worker keeps what the process deferred before.
LeasedWithLeftovers(e) ==
  [NewWorker EXCEPT !.at = "preparing",
                    !.pending = IF e > 1 THEN workers[e - 1].pending ELSE <<>>]

\* run_once empties _pending_commands before it serves a lease.
Leased(e) == [NewWorker EXCEPT !.at = "preparing"]

\* claim_run and the runtime's run_once.
AcquireLease ==
  /\ status \in ClaimableStatuses
  /\ status' = "preparing"
  /\ held' = TRUE
  /\ workers' = [workers EXCEPT ![epoch] = Leased(epoch)]
  /\ UNCHANGED <<epoch, commands, queue, calls, ran>>

\* lease_expires_at passes.
LeaseLapses ==
  /\ held
  /\ held' = FALSE
  /\ UNCHANGED <<epoch, status, commands, queue, calls, workers, ran>>

\* expire_leases.
ExpireLease ==
  /\ ~held
  /\ status \in LeasedStatuses
  /\ epoch < MaxEpoch
  /\ epoch' = epoch + 1
  /\ status' = "recovering"
  /\ UNCHANGED <<held, commands, queue, calls, workers, ran>>

\* recover_run.  (One that arrives when the run is leased again does to that
\* lease what LeaseLapses and ExpireLease do.)
Recover ==
  /\ status \in {"failed", "recovering"}
  /\ epoch < MaxEpoch
  /\ epoch' = epoch + 1
  /\ status' = "recovering"
  /\ UNCHANGED <<held, commands, queue, calls, workers, ran>>

-----------------------------------------------------------------------------
(* Delivery. *)

\* list_commands: newest first.
Newest == [i \in Ids |-> Len(commands) + 1 - i]

\* claim_commands: what it returns to the worker of the current epoch.
Claimable(e) ==
  Those(Newest, {i \in Ids : /\ ~commands[i].acked /\ ~commands[i].claimed
                             /\ commands[i].epoch = e})

\* The commands once those of `claimed' are claimed and those of `answered'
\* acknowledged.
Marked(claimed, answered) ==
  [i \in Ids |->
     IF i \in Range(answered)
     THEN [commands[i] EXCEPT !.claimed = FALSE, !.acked = TRUE]
     ELSE IF i \in Range(claimed) THEN [commands[i] EXCEPT !.claimed = TRUE]
     ELSE commands[i]]

\* Mutant of ClaimLapses: a claim has no timeout.
ClaimsLast(i) == FALSE /\ UNCHANGED vars

\* claim_expires_at passes.  (Nobody reads it in commands of an older epoch.)
ClaimLapses(i) ==
  /\ Redelivers
  /\ commands[i].claimed
  /\ commands[i].epoch = epoch
  /\ commands' = [commands EXCEPT ![i].claimed = FALSE]
  /\ UNCHANGED <<run, queue, calls, workers, ran>>

\* _defer_command for each of `list' in turn: no id is held twice.
Defer(pending, list) == Distinct(pending \o list)

-----------------------------------------------------------------------------
(* The worker's main thread. *)

\* The workspace is prepared and set up: status "ready".
Prepared(e) ==
  /\ workers[e].at = "preparing"
  /\ Holds(e)
  /\ status' = "ready"
  /\ workers' = [workers EXCEPT ![e].at = "waiting"]
  /\ UNCHANGED <<epoch, held, commands, queue, calls, ran>>

\* Mutant of Answered: the work that is taken is acknowledged with the rest.
AnsweredWithWork(list) == list

\* What _wait_for_start acknowledges itself: turn commands, with an error.
Answered(list) == Those(list, Ids \ Work)

\* One round of _wait_for_start: the first start or release is selected, the
\* others are deferred.
WaitForStart(e) ==
  LET taken == workers[e].pending \o Claimable(e)
      work  == Those(taken, Work)
  IN  /\ workers[e].at = "waiting"
      /\ Holds(e)
      /\ taken # <<>>
      /\ commands' = Marked(Claimable(e), Answered(taken))
      /\ workers' = [workers EXCEPT ![e] =
           IF work = <<>> THEN [@ EXCEPT !.pending = <<>>]
           ELSE [@ EXCEPT !.at = "selected", !.command = work[1],
                          !.pending = Defer(<<>>, Tail(work))]]
      /\ UNCHANGED <<run, queue, calls, ran>>

\* Mutant of BeginTurn: the turn is started without the "running" status.
BeginUnannounced(e) ==
  /\ workers[e].at = "selected"
  /\ commands[workers[e].command].kind = "start"
  /\ Holds(e)
  /\ ran' = Append(ran, <<workers[e].command, e>>)
  /\ workers' = [workers EXCEPT ![e].at = "starting", ![e].stopped = FALSE]
  /\ UNCHANGED <<run, commands, queue, calls>>

\* _run_turn up to _start_turn: status "running", then the engine gets it.
BeginTurn(e) ==
  /\ workers[e].at = "selected"
  /\ commands[workers[e].command].kind = "start"
  /\ Holds(e)
  /\ status' = "running"
  /\ ran' = Append(ran, <<workers[e].command, e>>)
  /\ workers' = [workers EXCEPT ![e].at = "starting", ![e].stopped = FALSE]
  /\ UNCHANGED <<epoch, held, commands, queue, calls>>

\* The start is acknowledged and the router thread runs.
AckStart(e) ==
  /\ workers[e].at = "starting"
  /\ Holds(e)
  /\ commands' = Marked(<<>>, <<workers[e].command>>)
  /\ workers' = [workers EXCEPT ![e].at = "turn", ![e].routing = TRUE]
  /\ UNCHANGED <<run, queue, calls, ran>>

\* The engine has no more events: the router is told to stop.
EngineEnds(e) ==
  /\ workers[e].at = "turn"
  /\ workers' = [workers EXCEPT ![e].at = "joining"]
  /\ UNCHANGED <<run, commands, queue, calls, ran>>

\* The router is joined; turn_completed is accepted, and unless the turn was
\* stopped accept_event goes on to start_next_queued.
FinishTurn(e) ==
  /\ workers[e].at = "joining"
  /\ workers[e].batch = <<>>
  /\ Holds(e)
  /\ status' = "ready"
  /\ workers' = [workers EXCEPT ![e].at = "waiting", ![e].routing = FALSE,
                                ![e].command = 0, ![e].stopped = FALSE]
  /\ IF queue # <<>> /\ ~workers[e].stopped
     THEN Begin("start", Head(queue))
     ELSE UNCHANGED calls
  /\ UNCHANGED <<epoch, held, commands, queue, ran>>

\* Mutant of Release: the worker goes back to waiting for a start.
ReleaseAndServe(e) ==
  /\ workers[e].at = "selected"
  /\ commands[workers[e].command].kind = "release"
  /\ Holds(e)
  /\ commands' = Marked(<<>>, <<workers[e].command>>)
  /\ workers' = [workers EXCEPT ![e].at = "waiting"]
  /\ UNCHANGED <<run, queue, calls, ran>>

\* _execute on a release: the workspace goes, the command is acknowledged.
Release(e) ==
  /\ workers[e].at = "selected"
  /\ commands[workers[e].command].kind = "release"
  /\ Holds(e)
  /\ commands' = Marked(<<>>, <<workers[e].command>>)
  /\ workers' = [workers EXCEPT ![e].at = "released"]
  /\ UNCHANGED <<run, queue, calls, ran>>

\* ... and the run is closed, which gives up its lease.
CloseRun(e) ==
  /\ workers[e].at = "released"
  /\ Holds(e)
  /\ status' = "completed"
  /\ held' = FALSE
  /\ workers' = [workers EXCEPT ![e].at = "gone"]
  /\ UNCHANGED <<epoch, commands, queue, calls, ran>>

\* A worker that serves its lease.
Serving(e) == workers[e].at \notin {"idle", "gone"}

\* The lease's thread of the process has ended, leaving what it deferred.
Gone(e, deferred) ==
  workers' = [workers EXCEPT ![e] =
                [NewWorker EXCEPT !.at = "gone", !.pending = deferred]]

\* Preparing, the engine or a call of the main thread raises: run_once
\* publishes an error event, which only the holder of the lease gets accepted.
WorkerFails(e) ==
  /\ Serving(e)
  /\ Gone(e, workers[e].pending)
  /\ IF Holds(e) THEN status' = "failed" /\ held' = FALSE
                 ELSE UNCHANGED <<held, status>>
  /\ UNCHANGED <<epoch, commands, queue, calls, ran>>

\* The process ends without a word.
WorkerDies(e) ==
  /\ Serving(e)
  /\ Gone(e, <<>>)
  /\ UNCHANGED <<run, commands, queue, calls, ran>>

-----------------------------------------------------------------------------
(* The worker's command router, which lives as long as a turn. *)

\* _route_commands takes what is pending and what it can claim.
RouterTakes(e) ==
  LET taken == workers[e].pending \o Claimable(e)
  IN  /\ workers[e].at = "turn"
      /\ workers[e].routing
      /\ workers[e].batch = <<>>
      /\ Holds(e)
      /\ taken # <<>>
      /\ commands' = Marked(Claimable(e), <<>>)
      /\ workers' = [workers EXCEPT ![e].batch = taken, ![e].pending = <<>>]
      /\ UNCHANGED <<run, queue, calls, ran>>

\* The commands are claimed, the answer is lost: the thread ends, and what was
\* pending stays.
RouterClaimLost(e) ==
  /\ Loses
  /\ workers[e].at = "turn"
  /\ workers[e].routing
  /\ workers[e].batch = <<>>
  /\ Holds(e)
  /\ commands' = Marked(Claimable(e), <<>>)
  /\ workers' = [workers EXCEPT ![e].routing = FALSE]
  /\ UNCHANGED <<run, queue, calls, ran>>

\* _route_command of a start or a release.
RouterDefers(e) ==
  /\ workers[e].batch # <<>>
  /\ Head(workers[e].batch) \in Work
  /\ workers' = [workers EXCEPT
       ![e].pending = Defer(@, <<Head(workers[e].batch)>>),
       ![e].batch = Tail(@)]
  /\ UNCHANGED <<run, commands, queue, calls, ran>>

\* _route_command of a cancel: the engine is told, then the control plane.
RouterCancels(e) ==
  LET i == Head(workers[e].batch)
  IN  /\ workers[e].batch # <<>>
      /\ i \notin Work
      /\ Holds(e)
      /\ commands' = Marked(<<>>, <<i>>)
      /\ workers' = [workers EXCEPT ![e].batch = Tail(@), ![e].stopped = TRUE]
      /\ UNCHANGED <<run, queue, calls, ran>>

\* ... but its acknowledgement is refused, or lost on the way there or back.
\* The thread ends and the rest of its batch is dropped.
RouterAckFails(e) ==
  LET i == Head(workers[e].batch)
  IN  /\ workers[e].batch # <<>>
      /\ i \notin Work
      /\ Loses \/ ~Holds(e)
      /\ \/ UNCHANGED commands
         \/ Holds(e) /\ commands' = Marked(<<>>, <<i>>)
      /\ workers' = [workers EXCEPT ![e].batch = <<>>, ![e].routing = FALSE,
                                 ![e].stopped = TRUE]
      /\ UNCHANGED <<run, queue, calls, ran>>

-----------------------------------------------------------------------------
\* A remote task is created: its run is queued and its first turn is about to
\* be submitted.
Init ==
  /\ epoch = 1
  /\ held = FALSE
  /\ status = "queued"
  /\ commands = <<>>
  /\ queue = <<>>
  /\ calls = {[kind |-> "start", key |-> NoKey, stored |-> FALSE]}
  /\ workers = [e \in Epochs |-> NewWorker]
  /\ ran = <<>>

Requests ==
  \/ SubmitTurn \/ ReleaseWorkspace \/ Cancel \/ RunNextQueued
  \/ \E item \in Items : QueueInstruction(item)
  \/ \E call \in calls : Store(call) \/ RemoveQueued(call)
  \/ Restart

Leases == AcquireLease \/ LeaseLapses \/ ExpireLease \/ Recover

Main(e) ==
  Prepared(e) \/ WaitForStart(e) \/ BeginTurn(e) \/ AckStart(e)
    \/ EngineEnds(e) \/ FinishTurn(e) \/ Release(e) \/ CloseRun(e)

Router(e) ==
  RouterTakes(e) \/ RouterClaimLost(e) \/ RouterDefers(e) \/ RouterCancels(e)
    \/ RouterAckFails(e)

Next ==
  \/ Requests
  \/ Leases
  \/ \E i \in Ids : ClaimLapses(i)
  \/ \E e \in Epochs : Main(e) \/ Router(e) \/ WorkerFails(e) \/ WorkerDies(e)

Spec == Init /\ [][Next]_vars

\* The runtime and the control plane go on: threads are scheduled, engines end
\* their turns, clocks pass the expiry of a claim and of a dead worker's lease.
Fairness ==
  /\ WF_vars(AcquireLease)
  /\ WF_vars(LeaseLapses /\ ~Serving(epoch))
  /\ \A i \in CommandIds : WF_vars(i \in Ids /\ ClaimLapses(i))
  /\ \A e \in Epochs : WF_vars(Main(e)) /\ WF_vars(Router(e))

FairSpec == Spec /\ Fairness

-----------------------------------------------------------------------------
\* Every variable has its type.
TypeOK ==
  /\ epoch \in Epochs
  /\ held \in BOOLEAN
  /\ status \in RunStatus
  /\ commands \in Seq(Command) /\ Len(commands) <= MaxCommands
  /\ queue \in Seq(Items)
  /\ calls \subseteq Call
  /\ workers \in [Epochs -> Worker]
  /\ ran \in Seq(CommandIds \X Epochs)

\* A turn is never under way behind the back of the control plane: while the
\* holder of the lease has a turn, the run is running, whatever requests,
\* recoveries and deferred commands did in between (_run_turn).
TurnIsVisible ==
  \A e \in Epochs :
    Holds(e) /\ workers[e].at \in {"starting", "turn", "joining"} =>
      status = "running"

\* However often a turn completion is redelivered, start_next_queued called
\* again or interrupted between its two writes, an epoch has one start command
\* for a queued instruction (queue_command's idempotency key).
OneStartPerInstruction ==
  \A i, j \in Ids :
    /\ commands[i].kind = "start" /\ commands[j].kind = "start"
    /\ commands[i].key \in Items
    /\ commands[i].key = commands[j].key
    /\ commands[i].epoch = commands[j].epoch
    => i = j

\* A worker gives its engine only commands of the epoch it serves: nothing an
\* earlier execution deferred reaches a later one (run_once, claim_commands).
TurnsOfTheirEpoch ==
  \A k \in 1..Len(ran) : commands[ran[k][1]].epoch = ran[k][2]

\* A start command is acknowledged only once its turn has been started, so a
\* worker that dies before leaves it unacknowledged (_run_turn).
AckedStartRan ==
  \A i \in Ids :
    commands[i].kind = "start" /\ commands[i].acked =>
      \E k \in 1..Len(ran) : ran[k][1] = i

\* After a worker has given up the workspace it starts no turn in it, although
\* starts may be pending, claimed or still arriving (_execute).
NoTurnAfterRelease ==
  [][\A e \in Epochs, i \in Ids :
       /\ commands[i].kind = "release" /\ commands[i].acked
       /\ commands[i].epoch = e
       => \A k \in Len(ran) + 1..Len(ran') : ran'[k][2] # e]_vars

\* A start that the worker holding the lease has yet to acknowledge.
Unserved(i) ==
  /\ i \in Ids
  /\ commands[i].kind = "start" /\ ~commands[i].acked
  /\ Holds(commands[i].epoch)

\* As long as the lease lasts, a start of its epoch is eventually acknowledged,
\* whatever the router took and lost (claim_commands' timeout, _defer_command).
StartIsServed == \A i \in CommandIds : []<>~Unserved(i)

-----------------------------------------------------------------------------
(* What the repository says and the code does not keep. *)

\* "Commands are persisted, idempotent by key, claimed with a timeout and
\* explicitly acknowledged": a start that has been acknowledged is over, and is
\* not run again.
AckedStartIsOver ==
  [][\A k \in Len(ran) + 1..Len(ran') : ~commands[ran'[k][1]].acked]_vars
=============================================================================
