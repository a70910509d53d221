----------------------------- MODULE LocalTasks -----------------------------
(***************************************************************************)
(* One coding task on this computer, from its creation to its deletion:    *)
(* the thread that prepares its workspace, the thread of each turn         *)
(* (coding/turns.py), the engine's reader thread with its approvals and    *)
(* questions, the instructions that wait in the task's queue, the calls of *)
(* the API (coding/service_turns.py, coding/service.py) and the shutdown.  *)
(*                                                                         *)
(* The threads share the task's record, the slot _running[task], the       *)
(* reservation of _maintenance_session and two locks: CodingService._lock  *)
(* and RuntimeManager.session_lock(task).  What a thread does under the    *)
(* first in one go is one step; the locks are variables for the two places *)
(* where a thread waits for one of them while it holds the other.          *)
(***************************************************************************)
EXTENDS Naturals, Sequences, Functions, RunState

CONSTANTS
  Items,       \* the instructions; an item also names the turn that runs it
  Immediate,   \* the items that are commands such as /status: no turn runs
  Callers,     \* the API calls, one each
  Ops,         \* what they may call
  Asks,        \* what the engine may ask: "approval", "question"
  Faults,      \* what may fail: "prepare" the workspace, "engine"
  MaxCrashes,
  Prep,        \* the thread that prepares the workspace
  Nobody

ASSUME LocalTasksAssumption ==
  /\ Immediate \subseteq Items
  /\ Ops \subseteq {"submit", "steer", "queue", "remove", "promote", "next",
                    "cancel", "answer", "config", "mode", "delete"}
  /\ Asks \subseteq {"approval", "question"}
  /\ Faults \subseteq {"prepare", "engine"}
  /\ MaxCrashes \in Nat
  /\ Nobody # Prep /\ {Nobody, Prep} \cap (Items \cup Callers) = {}
  /\ Items \cap Callers = {}

VARIABLES
  task,      \* session.json
  run,       \* the status of its Task Run
  disk,      \* its workspace exists
  slot,      \* _running[task]
  reserved,  \* who is in _maintenance_session
  lock,      \* who keeps CodingService._lock over several steps
  slock,     \* who has RuntimeManager.session_lock(task)
  thread,    \* how far every thread is
  engine,    \* the engine's turn of an item
  ask,       \* the request the engine makes in that turn, and its waiter
  app,       \* how far the process is in its shutdown
  crashes,
  given,     \* history: how often an item reached the engine
  queued,    \* history: the items that were accepted into the queue
  removed,   \* history: the items a caller was told will not run
  meant      \* history: the follow-ups accepted for the slot of a turn

locks == <<reserved, lock, slock>>
past == <<given, queued, removed, meant>>
vars == <<task, run, disk, slot, reserved, lock, slock, thread, engine, ask, app,
          crashes, given, queued, removed, meant>>

Threads == Items \cup Callers \cup {Prep}

SessionStatus == {"ready", "running", "awaiting_approval", "completed",
                  "cancelled", "interrupted", "failed"}

Busy == {"running", "awaiting_approval"}

\* CodingSession: `path' is workspace_path # "", `card' and `question' the
\* turns that pending_approval and pending_question belong to.
Session ==
  [there: BOOLEAN, status: SessionStatus, path: BOOLEAN, queue: Seq(Items),
   card: Items \cup {Nobody}, question: Items \cup {Nobody}]

\* RunningTurn: `active' is turn_id # "".
Slot ==
  [of: Items \cup {Prep, Nobody}, cancel: BOOLEAN, stop: BOOLEAN,
   gone: BOOLEAN, active: BOOLEAN, steers: Seq(Items)]

SlotFor(r, steers) ==
  [of |-> r, cancel |-> FALSE, stop |-> FALSE, gone |-> FALSE, active |-> FALSE,
   steers |-> steers]

NoSlot == SlotFor(Nobody, <<>>)

\* A thread: what it was started for, where it is, and its locals.
Thread ==
  [op: {"none", "turn", "prepare"} \cup Ops, at: STRING,
   item: Items \cup {Nobody}, to: Items \cup {Nobody}, steers: Seq(Items),
   index: Nat, why: SessionStatus]

Idle(op) == [op |-> op, at |-> "none", item |-> Nobody, to |-> Nobody,
             steers |-> <<>>, index |-> 0, why |-> "completed"]

At(r, at) == thread[r].at = at

Goes(r, at) == thread' = [thread EXCEPT ![r].at = at]

\* A thread that is over keeps nothing but that.
Over(r, at) == [Idle(thread[r].op) EXCEPT !.at = at]

Ends(r) == thread' = [thread EXCEPT ![r] = Over(r, "done")]

Up == app # "down"

\* CodingService._lock can be taken (it is reentrant).
Free(r) == lock \in {Nobody, r}

\* sync_session: a status the table refuses is logged, and a task that is
\* preparing reads as running while its run does not.
Synced(r, status) ==
  IF r = "preparing" /\ status = "running" THEN r
  ELSE IF CanTransition([status |-> r], status) THEN status ELSE r

\* _emit with an update: the session is saved, then its run follows.
Emits(session) == task' = session /\ run' = Synced(run, session.status)

\* finish_turn, fail_turn, interrupt_turn.
Settled(status) ==
  [task EXCEPT !.status = status, !.card = Nobody, !.question = Nobody]

RunFinished == run \in TerminalRunStatuses \cup {"interrupted"}

\* The request of the engine, and its waiter.
Ask ==
  [kind: {"none", "approval", "question"},
   at: {"none", "registered", "waiting", "done"}, closed: BOOLEAN]

NoAsk == [kind |-> "none", at |-> "none", closed |-> FALSE]

-----------------------------------------------------------------------------
(* A new task.                                                             *)

\* create_session: the run is preparing, the placeholder reads as running,
\* and the slot is taken before the thread starts.
Create ==
  /\ Up /\ thread[Prep].op = "none"
  /\ task' = [task EXCEPT !.there = TRUE, !.status = "running"]
  /\ run' = "preparing"
  /\ slot' = SlotFor(Prep, <<>>)
  /\ \E i \in Items : thread' = [thread EXCEPT ![Prep] =
       [Idle("prepare") EXCEPT !.at = "making", !.item = i]]
  /\ UNCHANGED <<disk, locks, engine, ask, app, crashes, past>>

\* SessionFactory.complete: the workspace is made.
PrepMakes ==
  /\ Up /\ At(Prep, "making")
  /\ \/ disk' = TRUE /\ Goes(Prep, "made")
     \/ "prepare" \in Faults /\ disk' = FALSE /\ Goes(Prep, "failing")
  /\ UNCHANGED <<task, run, slot, locks, engine, ask, app, crashes, past>>

\* _adopt_preparation: the placeholder may be gone by now.
PrepAdopts ==
  /\ Up /\ At(Prep, "made")
  /\ task' = [task EXCEPT !.path = task.there]
  /\ Goes(Prep, IF task.there THEN "adopted" ELSE "failing")
  /\ UNCHANGED <<run, disk, slot, locks, engine, ask, app, crashes, past>>

\* The run is ready, and the event that says so makes it follow the
\* placeholder, which is running.
PrepReady ==
  /\ Up /\ At(Prep, "adopted")
  /\ run' = IF task.there THEN Synced("ready", task.status) ELSE run
  /\ Goes(Prep, IF task.there THEN "prepared" ELSE "failing")
  /\ UNCHANGED <<task, disk, slot, locks, engine, ask, app, crashes, past>>

\* Mutant of PrepUndoes: the record forgets the workspace, nothing releases it.
PrepForgets ==
  /\ Up /\ At(Prep, "failing")
  /\ task' = [task EXCEPT !.path = FALSE]
  /\ Goes(Prep, "failed")
  /\ UNCHANGED <<run, disk, slot, locks, engine, ask, app, crashes, past>>

\* What `complete' does with an exception.
PrepUndoes ==
  /\ Up /\ At(Prep, "failing")
  /\ disk' = FALSE
  /\ task' = [task EXCEPT !.path = FALSE]
  /\ Goes(Prep, "failed")
  /\ UNCHANGED <<run, slot, locks, engine, ask, app, crashes, past>>

\* Mutant of PrepGivesUp: a stopped preparation has nothing to report.
PrepGivesUpQuietly ==
  /\ Up /\ At(Prep, "failed") /\ Free(Prep)
  /\ slot' = NoSlot
  /\ IF slot.cancel THEN Ends(Prep) ELSE Goes(Prep, "reporting")
  /\ UNCHANGED <<task, run, disk, locks, engine, ask, app, crashes, past>>

\* The slot is given back, and a task nobody deleted will say what failed.
PrepGivesUp ==
  /\ Up /\ At(Prep, "failed") /\ Free(Prep)
  /\ slot' = NoSlot
  /\ IF slot.gone THEN Ends(Prep) ELSE Goes(Prep, "reporting")
  /\ UNCHANGED <<task, run, disk, locks, engine, ask, app, crashes, past>>

PrepReports ==
  /\ Up /\ At(Prep, "reporting")
  /\ IF task.there THEN Emits(Settled("failed")) ELSE UNCHANGED <<task, run>>
  /\ Ends(Prep)
  /\ UNCHANGED <<disk, slot, locks, engine, ask, app, crashes, past>>

\* Mutant of CanLaunch: the status is trusted, the slot is not looked at.
CanLaunchByStatus(r) ==
  /\ reserved \in {Nobody, r}
  /\ task.status \notin Busy /\ task.path

\* The checks of _submit_turn.
CanLaunch(r) ==
  /\ reserved \in {Nobody, r} /\ slot.of = Nobody
  /\ task.status \notin Busy /\ task.path

\* Mutant of Launched: the new slot does not take the follow-ups over.
LaunchedAnew(i, steers, session, from) ==
  /\ task' = [session EXCEPT !.status = "running"]
  /\ run' = Synced(from, "running")
  /\ slot' = SlotFor(i, <<>>)
  /\ meant' = [meant EXCEPT ![i] = Range(steers)]

\* ... and what it does: thread i runs the turn, with the follow-ups that
\* were accepted while the slot was another's.
Launched(i, steers, session, from) ==
  /\ task' = [session EXCEPT !.status = "running"]
  /\ run' = Synced(from, "running")
  /\ slot' = SlotFor(i, steers)
  /\ meant' = [meant EXCEPT ![i] = Range(steers)]

First == thread[Prep].item

TurnOf(i) == [Idle("turn") EXCEPT !.at = "opening", !.item = i]

\* _prepare_and_start, once the workspace is there: it is released if the
\* task was deleted, kept if it was stopped, and otherwise the first turn
\* starts with what was sent meanwhile.  A first prompt that is a command
\* runs under CodingService._lock.
PrepStarts ==
  /\ Up /\ At(Prep, "prepared") /\ Free(Prep)
  /\ \/ /\ slot.gone
        /\ disk' = FALSE /\ slot' = NoSlot /\ Ends(Prep)
        /\ UNCHANGED <<task, run, lock, reserved, meant>>
     \/ /\ slot.cancel /\ ~slot.gone
        /\ Emits(Settled("cancelled")) /\ slot' = NoSlot /\ Ends(Prep)
        /\ UNCHANGED <<disk, lock, reserved, meant>>
     \/ /\ ~slot.cancel /\ First \notin Immediate
        /\ Launched(First, slot.steers, task, run)
        /\ thread' = [thread EXCEPT ![Prep] = Over(Prep, "done"), ![First] = TurnOf(First)]
        /\ UNCHANGED <<disk, lock, reserved>>
     \/ /\ ~slot.cancel /\ First \in Immediate
        /\ task' = [task EXCEPT !.status = "ready"]
        /\ slot' = NoSlot
        /\ lock' = Prep /\ reserved' = Prep
        /\ thread' = [thread EXCEPT ![Prep].at = "command", ![Prep].steers = slot.steers]
        /\ UNCHANGED <<run, disk, meant>>
  /\ UNCHANGED <<slock, engine, ask, app, crashes, given, queued, removed>>

\* Mutant of PrepGoesOn: the lock stays taken when nothing waits.
PrepGoesOnLocked ==
  /\ Up /\ At(Prep, "waiting")
  /\ IF thread[Prep].steers = <<>> /\ task.queue # <<>>
     THEN Goes(Prep, "next") ELSE Ends(Prep)
  /\ UNCHANGED <<task, run, disk, slot, locks, engine, ask, app, crashes, past>>

\* _start_waiting_work, after that command: the first follow-up is a turn
\* and the others steer it, or the queue goes on.
PrepGoesOn ==
  /\ Up /\ At(Prep, "waiting")
  /\ LET steers == thread[Prep].steers IN
     \/ /\ steers # <<>> /\ CanLaunch(Prep)
        /\ Launched(Head(steers), Tail(steers), task, run)
        /\ thread' = [thread EXCEPT ![Prep] = Over(Prep, "done"),
                                   ![Head(steers)] = TurnOf(Head(steers))]
        /\ lock' = Nobody
     \/ /\ steers # <<>> => ~CanLaunch(Prep)
        /\ IF steers = <<>> /\ task.queue # <<>>
           THEN Goes(Prep, "next") /\ lock' = lock
           ELSE Ends(Prep) /\ lock' = Nobody
        /\ UNCHANGED <<task, run, slot, meant>>
  /\ UNCHANGED <<disk, reserved, slock, engine, ask, app, crashes, given, queued, removed>>

-----------------------------------------------------------------------------
(* Instructions that start: submit_turn, run_next_queued and commands.     *)

\* An item no caller has sent yet.
Fresh(i) ==
  /\ given[i] = 0 /\ i \notin removed /\ thread[i].op # "turn"
  /\ i \notin Range(task.queue) \cup Range(slot.steers)
  /\ \A r \in Threads : thread[r].item # i /\ i \notin Range(thread[r].steers)

Calls(c, op) == Up /\ thread[c].op = "none" /\ op \in Ops

Begins(c, op, at, i) ==
  thread' = [thread EXCEPT ![c] = [Idle(op) EXCEPT !.at = at, !.item = i]]

\* What a turn that follows a finished run needs first, read from the run.
Follows(i) == IF i \notin Immediate /\ RunFinished THEN "linking" ELSE "launching"

\* submit_turn up to _continue_completed_task's look at the run.
Submit(c) ==
  /\ Calls(c, "submit") /\ task.there
  /\ \E i \in Items : Fresh(i) /\ Begins(c, "submit", Follows(i), i)
  /\ UNCHANGED <<task, run, disk, slot, locks, engine, ask, app, crashes, past>>

\* continue_task and link: a fresh run for the task, which is ready.
Linked == [task EXCEPT !.status = "ready"]

\* A thread leaves its reservation; Prep also has CodingService._lock.
Leaves(r) ==
  /\ Ends(r)
  /\ reserved' = IF reserved = r THEN Nobody ELSE reserved
  /\ lock' = IF lock = r THEN Nobody ELSE lock

Links(r) ==
  /\ Up /\ At(r, "linking")
  /\ IF task.there
     THEN task' = Linked /\ run' = "ready" /\ Goes(r, "launching") /\ UNCHANGED <<reserved, lock>>
     ELSE Leaves(r) /\ UNCHANGED <<task, run>>
  /\ UNCHANGED <<disk, slot, slock, engine, ask, app, crashes, past>>

\* _submit_turn for a caller: a turn, a command under a reservation, or a
\* refusal.
SubmitLaunches(c) ==
  /\ Up /\ thread[c].op = "submit" /\ At(c, "launching") /\ Free(c)
  /\ LET i == thread[c].item IN
     \/ /\ i \notin Immediate /\ task.there /\ CanLaunch(c)
        /\ Launched(i, <<>>, task, run)
        /\ thread' = [thread EXCEPT ![c] = Over(c, "done"), ![i] = TurnOf(i)]
        /\ UNCHANGED reserved
     \/ /\ i \in Immediate /\ task.there /\ slot.of = Nobody /\ reserved = Nobody
        /\ reserved' = c /\ Goes(c, "command")
        /\ UNCHANGED <<task, run, slot, meant>>
     \/ /\ ~(task.there /\ IF i \in Immediate THEN slot.of = Nobody /\ reserved = Nobody
                           ELSE CanLaunch(c))
        /\ Ends(c)
        /\ UNCHANGED <<task, run, slot, meant, reserved>>
  /\ UNCHANGED <<disk, lock, slock, engine, ask, app, crashes, given, queued, removed>>

\* run_immediate: the runtime is opened and used under session_lock.
CommandRuns(r) ==
  /\ Up /\ At(r, "command") /\ slock = Nobody /\ Free(r)
  /\ reserved' = Nobody
  /\ \/ /\ app # "closed"
        /\ given' = [given EXCEPT ![thread[r].item] = @ + 1]
        /\ IF r = Prep
           THEN thread' = [thread EXCEPT ![r].at = "waiting", ![r].item = Nobody]
           ELSE Ends(r)
        /\ UNCHANGED <<task, run, lock>>
     \/ /\ "engine" \in Faults \/ app = "closed"
        /\ IF r = Prep THEN Emits(Settled("failed")) ELSE UNCHANGED <<task, run>>
        /\ lock' = IF lock = r THEN Nobody ELSE lock
        /\ Ends(r)
        /\ UNCHANGED given
  /\ UNCHANGED <<disk, slot, slock, engine, ask, app, crashes, queued, removed, meant>>

\* A caller resumes the queue; it may name the instruction it expects.
CallNext(c) ==
  /\ Calls(c, "next") /\ task.there
  /\ \E i \in Range(task.queue) \cup {Nobody} :
       thread' = [thread EXCEPT ![c] = [Idle("next") EXCEPT !.at = "next", !.to = i]]
  /\ UNCHANGED <<task, run, disk, slot, locks, engine, ask, app, crashes, past>>

\* _require_queue_head and a queue that is empty.
Due(r) ==
  /\ task.there /\ task.queue # <<>>
  /\ thread[r].to \in {Nobody, Head(task.queue)}

\* _maintenance_session.
NextReserves(r) ==
  /\ Up /\ At(r, "next") /\ Free(r)
  /\ IF Due(r) /\ slot.of = Nobody /\ reserved = Nobody
     THEN reserved' = r /\ Goes(r, "reading") /\ UNCHANGED lock
     ELSE Leaves(r)
  /\ UNCHANGED <<task, run, disk, slot, slock, engine, ask, app, crashes, past>>

\* The head of the queue, and the run it would follow, are read here and
\* used in the steps below.
NextReads(r) ==
  /\ Up /\ At(r, "reading")
  /\ IF Due(r)
     THEN LET i == Head(task.queue) IN
          /\ thread' = [thread EXCEPT ![r].item = i, ![r].to = Nobody, ![r].at = Follows(i)]
          /\ UNCHANGED <<reserved, lock>>
     ELSE Leaves(r)
  /\ UNCHANGED <<task, run, disk, slot, slock, engine, ask, app, crashes, past>>

\* Mutant of Without: the queue is left as it is.
WithoutNone(i) == task

\* _remove_queued_instruction.
Without(i) == [task EXCEPT !.queue = SelectSeq(@, LAMBDA j : j # i)]

\* The instruction leaves the queue ...
NextTakes(r) ==
  /\ Up /\ thread[r].op \notin {"submit", "mode"} /\ At(r, "launching")
  /\ LET i == thread[r].item IN
     IF task.there
     THEN /\ task' = Without(i)
          /\ Goes(r, IF i \in Immediate THEN "next command" ELSE "taken")
          /\ UNCHANGED <<reserved, lock>>
     ELSE Leaves(r) /\ UNCHANGED task
  /\ UNCHANGED <<run, disk, slot, slock, engine, ask, app, crashes, past>>

\* ... and starts, or goes back to the head if _submit_turn raises.
NextLaunches(r) ==
  /\ Up /\ At(r, "taken") /\ Free(r)
  /\ LET i == thread[r].item IN
     \/ /\ task.there /\ CanLaunch(r)
        /\ Launched(i, <<>>, task, run)
        /\ thread' = [thread EXCEPT ![r] = Over(r, "done"), ![i] = TurnOf(i)]
        /\ reserved' = Nobody
        /\ lock' = IF lock = r THEN Nobody ELSE lock
     \/ /\ ~(task.there /\ CanLaunch(r))
        /\ task' = IF task.there THEN [task EXCEPT !.queue = <<i>> \o @] ELSE task
        /\ Leaves(r)
        /\ UNCHANGED <<run, slot, meant>>
  /\ UNCHANGED <<disk, slock, engine, ask, app, crashes, given, queued, removed>>

\* A command in the queue; the next instruction follows at once.
NextCommand(r) ==
  /\ Up /\ At(r, "next command") /\ slock = Nobody /\ Free(r)
  /\ LET i == thread[r].item IN
     \/ /\ app # "closed"
        /\ given' = [given EXCEPT ![i] = @ + 1]
        /\ IF task.status \in Busy THEN Leaves(r)
           ELSE /\ thread' = [thread EXCEPT ![r].at = "reading", ![r].item = Nobody]
                /\ UNCHANGED <<reserved, lock>>
        /\ UNCHANGED task
     \/ /\ "engine" \in Faults \/ app = "closed"
        /\ task' = [task EXCEPT !.queue = <<i>> \o @]
        /\ Leaves(r)
        /\ UNCHANGED given
  /\ UNCHANGED <<run, disk, slot, slock, engine, ask, app, crashes, queued, removed, meant>>

-----------------------------------------------------------------------------
(* The thread of a turn: TurnExecutor.execute.                             *)

Fails(i) == Goes(i, "failing")

\* RuntimeManager.open, and the engine is attached to the slot.
TurnOpens(i) ==
  /\ Up /\ At(i, "opening") /\ slock = Nobody /\ Free(i)
  /\ \/ app # "closed" /\ Goes(i, "starting")
     \/ ("engine" \in Faults \/ app = "closed") /\ Goes(i, "recording")
  /\ UNCHANGED <<task, run, disk, slot, locks, engine, ask, app, crashes, past>>

\* _start_operation: the engine has the prompt, the slot has no turn_id yet.
TurnStarts(i) ==
  /\ Up /\ At(i, "starting")
  /\ IF app = "closed"
     THEN Fails(i) /\ UNCHANGED <<engine, given>>
     ELSE /\ engine' = [engine EXCEPT ![i] = "running"]
          /\ given' = [given EXCEPT ![i] = @ + 1]
          /\ thread' = [thread EXCEPT ![i].at = "started", ![i].item = Nobody]
  /\ UNCHANGED <<task, run, disk, slot, locks, ask, app, crashes, queued, removed, meant>>

\* Mutant of TurnActivates: the follow-ups are taken, its cancellation is not.
TurnActivatesUnheeding(i) ==
  /\ Up /\ At(i, "started") /\ Free(i)
  /\ slot' = [slot EXCEPT !.active = TRUE, !.steers = <<>>]
  /\ thread' = [thread EXCEPT ![i].at = "activated", ![i].steers = slot.steers]
  /\ UNCHANGED <<task, run, disk, locks, engine, ask, app, crashes, past>>

\* _activate_turn: from here on a steer and a cancellation go to the engine,
\* and what came before is read in the same step.
TurnActivates(i) ==
  /\ Up /\ At(i, "started") /\ Free(i)
  /\ slot' = [slot EXCEPT !.active = TRUE, !.steers = <<>>]
  /\ thread' = [thread EXCEPT ![i].at = IF slot.cancel THEN "cancelling" ELSE "activated",
                              ![i].steers = IF slot.cancel THEN <<>> ELSE slot.steers]
  /\ UNCHANGED <<task, run, disk, locks, engine, ask, app, crashes, past>>

\* EngineSession.cancel: the engine is asked to stop, and a watchdog closes
\* it if it does not.
Stopped(i) == IF engine[i] = "running" THEN "stopping" ELSE engine[i]

TurnCancels(i) ==
  /\ Up /\ At(i, "cancelling")
  /\ engine' = [engine EXCEPT ![i] = Stopped(i)]
  /\ Goes(i, "live")
  /\ UNCHANGED <<task, run, disk, slot, locks, ask, app, crashes, past>>

\* The follow-ups reach the engine one by one; an engine whose turn is over
\* refuses, and that fails the turn.
TurnSteers(i) ==
  /\ Up /\ At(i, "activated")
  /\ LET steers == thread[i].steers IN
     \/ /\ steers = <<>> /\ Goes(i, "live") /\ UNCHANGED given
     \/ /\ steers # <<>> /\ engine[i] \in {"running", "stopping"}
        /\ given' = [given EXCEPT ![Head(steers)] = @ + 1]
        /\ thread' = [thread EXCEPT ![i].steers = Tail(@)]
     \/ /\ steers # <<>> /\ engine[i] # "running" /\ Fails(i) /\ UNCHANGED given
  /\ UNCHANGED <<task, run, disk, slot, locks, engine, ask, app, crashes, queued, removed, meant>>

\* _collect_events: the end of the turn, and whether it was cancelled or
\* interrupted, are read before the slot is given back.
TurnCollects(i) ==
  /\ Up /\ At(i, "live") /\ Free(i)
  /\ \/ /\ engine[i] \in {"completed", "failed"}
        /\ thread' = [thread EXCEPT
             ![i].at = "settling",
             ![i].why = IF slot.stop THEN "interrupted"
                        ELSE IF slot.cancel THEN "cancelled" ELSE engine[i]]
     \/ engine[i] = "closed" /\ Fails(i)
  /\ UNCHANGED <<task, run, disk, slot, locks, engine, ask, app, crashes, past>>

\* The status and the slot in one step; an interruption has no event, so the
\* run does not follow.  Only a completed turn goes on with the queue.  The
\* engine knows this turn no longer, which reads here like a closed runtime.
TurnSettles(i) ==
  /\ Up /\ At(i, "settling") /\ Free(i)
  /\ LET why == thread[i].why IN
     /\ IF why = "interrupted" THEN task' = Settled(why) /\ UNCHANGED run
        ELSE Emits(Settled(why))
     /\ slot' = NoSlot
     /\ engine' = [engine EXCEPT ![i] = "closed"]
     /\ thread' = [thread EXCEPT ![i] =
          Over(i, IF why = "completed" THEN "next" ELSE "done")]
  /\ UNCHANGED <<disk, locks, ask, app, crashes, past>>

\* An exception: the runtime is closed under session_lock ...
TurnCloses(i) ==
  /\ Up /\ At(i, "failing") /\ slock = Nobody
  /\ engine' = [engine EXCEPT ![i] = "closed"]
  /\ Goes(i, "recording")
  /\ UNCHANGED <<task, run, disk, slot, locks, ask, app, crashes, past>>

\* ... then _record_failure and the slot.  A shutdown sets both flags, and
\* the cancellation is the one that is looked at first.
TurnFails(i) ==
  /\ Up /\ At(i, "recording") /\ Free(i)
  /\ IF slot.stop /\ ~slot.cancel
     THEN task' = Settled("interrupted") /\ UNCHANGED run
     ELSE Emits(Settled(IF slot.cancel THEN "cancelled" ELSE "failed"))
  /\ slot' = NoSlot
  /\ Ends(i)
  /\ UNCHANGED <<disk, locks, engine, ask, app, crashes, past>>

-----------------------------------------------------------------------------
(* The engine.                                                             *)

\* A reader that waits for an answer reads nothing else.
Reading(i) == ask[i].at \notin {"registered", "waiting"}

EngineEnds(i) ==
  /\ Up /\ engine[i] \in {"running", "stopping"} /\ Reading(i)
  /\ \E end \in {"completed", "failed"} : engine' = [engine EXCEPT ![i] = end]
  /\ UNCHANGED <<task, run, disk, slot, locks, thread, ask, app, crashes, past>>

\* The watchdog of a cancellation.
EngineWatched(i) ==
  /\ Up /\ engine[i] = "stopping"
  /\ engine' = [engine EXCEPT ![i] = "closed"]
  /\ UNCHANGED <<task, run, disk, slot, locks, thread, ask, app, crashes, past>>

\* The process of the engine dies.
EngineDies(i) ==
  /\ Up /\ engine[i] = "running" /\ "engine" \in Faults
  /\ engine' = [engine EXCEPT ![i] = "closed"]
  /\ UNCHANGED <<task, run, disk, slot, locks, thread, ask, app, crashes, past>>

-----------------------------------------------------------------------------
(* Approvals and questions.                                                *)

Waiting(i, kind) == ask[i].kind = kind /\ ask[i].at \in {"registered", "waiting"}

\* QuestionBroker.request and _question_opened, which are one step to the
\* other threads: refused when another question waits, when there is no slot
\* and when its turn is being cancelled.
AskQuestion(i) ==
  /\ Up /\ ask[i].kind = "question" /\ ask[i].at = "none" /\ Free(Nobody)
  /\ IF /\ ~\E j \in Items : Waiting(j, "question")
        /\ slot.of # Nobody /\ ~slot.cancel /\ task.there
     THEN /\ ask' = [ask EXCEPT ![i].at = "waiting"]
          /\ Emits([task EXCEPT !.question = i, !.status = "awaiting_approval"])
     ELSE /\ ask' = [ask EXCEPT ![i].at = "done", ![i].closed = TRUE]
          /\ UNCHANGED <<task, run>>
  /\ UNCHANGED <<disk, slot, locks, thread, engine, app, crashes, past>>

\* The engine's request reaches its handler; from here the engine may be
\* closed while the handler is still under way.
AskArrives(i) ==
  /\ Up /\ engine[i] \in {"running", "stopping"} /\ ask[i] = NoAsk
  /\ \E kind \in Asks : ask' = [ask EXCEPT ![i].kind = kind]
  /\ UNCHANGED <<task, run, disk, slot, locks, thread, engine, app, crashes, past>>

\* ApprovalBroker.request up to the registration of its waiter; a second
\* request is declined while one is open.
AskApproval(i) ==
  /\ Up /\ ask[i].kind = "approval" /\ ask[i].at = "none"
  /\ ask' = [ask EXCEPT ![i] =
       IF \E j \in Items : Waiting(j, "approval") /\ ~ask[j].closed
       THEN [@ EXCEPT !.at = "done", !.closed = TRUE] ELSE [@ EXCEPT !.at = "registered"]]
  /\ UNCHANGED <<task, run, disk, slot, locks, thread, engine, app, crashes, past>>

\* _approval_opened, outside every lock and whatever became of the turn.
AskOpens(i) ==
  /\ Up /\ Waiting(i, "approval") /\ ask[i].at = "registered"
  /\ IF task.there
     THEN /\ ask' = [ask EXCEPT ![i].at = "waiting"]
          /\ Emits([task EXCEPT !.card = i, !.status = "awaiting_approval"])
     ELSE /\ ask' = [ask EXCEPT ![i].at = "done", ![i].closed = TRUE]
          /\ UNCHANGED <<task, run>>
  /\ UNCHANGED <<disk, slot, locks, thread, engine, app, crashes, past>>

Resumed(session) ==
  [session EXCEPT !.status = IF @ = "awaiting_approval" THEN "running" ELSE @]

\* _close_approval: whichever approval the card shows.  _question_closed:
\* its own question only.
CardClosed == Resumed([task EXCEPT !.card = Nobody])
QuestionClosed(i) ==
  IF task.question = i THEN Resumed([task EXCEPT !.question = Nobody]) ELSE task

Closes(session) == IF task.there THEN Emits(session) ELSE UNCHANGED <<task, run>>

\* The waiter is woken or its hour is over; who finds it open closes it.
AskEnds(i) ==
  /\ Up /\ ask[i].at = "waiting"
  /\ ask' = [ask EXCEPT ![i].at = "done", ![i].closed = TRUE]
  /\ IF ask[i].closed THEN UNCHANGED <<task, run>>
     ELSE Closes(IF ask[i].kind = "approval" THEN CardClosed ELSE QuestionClosed(i))
  /\ UNCHANGED <<disk, slot, locks, thread, engine, app, crashes, past>>

\* resolve: a question is answered under the broker's lock, an approval is
\* closed under it, then recorded, then its thread is woken.
Answer(c) ==
  /\ Calls(c, "answer")
  /\ \E i \in Items :
       /\ ~ask[i].closed
       /\ \/ /\ task.question = i /\ Waiting(i, "question")
             /\ ask' = [ask EXCEPT ![i].closed = TRUE]
             /\ Closes(QuestionClosed(i))
             /\ thread' = [thread EXCEPT ![c] = [Idle("answer") EXCEPT !.at = "done"]]
          \/ /\ task.card = i /\ Waiting(i, "approval")
             /\ ask' = [ask EXCEPT ![i].closed = TRUE]
             /\ Begins(c, "answer", "recording answer", Nobody)
             /\ UNCHANGED <<task, run>>
  /\ UNCHANGED <<disk, slot, locks, engine, app, crashes, past>>

AnswerRecorded(c) ==
  /\ Up /\ At(c, "recording answer")
  /\ Closes(CardClosed)
  /\ Ends(c)
  /\ UNCHANGED <<disk, slot, locks, engine, ask, app, crashes, past>>

\* cancel_session of both brokers.
OpenAsks(kind) == {i \in Items : Waiting(i, kind) /\ ~ask[i].closed}

SweptTask ==
  LET s == IF task.question \in OpenAsks("question")
           THEN QuestionClosed(task.question) ELSE task
  IN IF OpenAsks("approval") = {} THEN s ELSE Resumed([s EXCEPT !.card = Nobody])

Sweeps ==
  /\ ask' = [i \in Items |-> [ask[i] EXCEPT !.closed =
                 @ \/ i \in OpenAsks("question") \cup OpenAsks("approval")]]
  /\ IF SweptTask = task THEN UNCHANGED <<task, run>> ELSE Closes(SweptTask)

-----------------------------------------------------------------------------
(* The other calls.                                                        *)

\* steer, first look: a card or a question that is open refuses it.
Steer(c) ==
  /\ Calls(c, "steer") /\ task.there
  /\ task.card = Nobody /\ task.question = Nobody
  /\ \E i \in Items \ Immediate : Fresh(i) /\ Begins(c, "steer", "routing", i)
  /\ UNCHANGED <<task, run, disk, slot, locks, engine, ask, app, crashes, past>>

\* steer_queued_turn takes the instruction out of the queue first.
Promote(c) ==
  /\ Calls(c, "promote") /\ task.there /\ slot.of # Nobody /\ Free(c)
  /\ \E k \in 1 .. Len(task.queue) :
       /\ task' = Without(task.queue[k])
       /\ thread' = [thread EXCEPT ![c] =
            [Idle("promote") EXCEPT !.at = "looking", !.item = task.queue[k], !.index = k]]
  /\ UNCHANGED <<run, disk, slot, locks, engine, ask, app, crashes, past>>

Looks(c) ==
  /\ Up /\ At(c, "looking")
  /\ Goes(c, IF task.card = Nobody /\ task.question = Nobody THEN "routing" ELSE "refused")
  /\ UNCHANGED <<task, run, disk, slot, locks, engine, ask, app, crashes, past>>

\* route_steer: to the engine once the turn is active, to the slot before.
Routes(c) ==
  /\ Up /\ At(c, "routing") /\ Free(c)
  /\ LET i == thread[c].item IN
     \/ /\ slot.of # Nobody /\ slot.active
        /\ thread' = [thread EXCEPT ![c].at = "sending", ![c].to = slot.of]
        /\ UNCHANGED <<slot, meant>>
     \/ /\ slot.of # Nobody /\ ~slot.active /\ i \notin Immediate
        /\ slot' = [slot EXCEPT !.steers = Append(@, i)]
        /\ meant' = [meant EXCEPT ![slot.of] = @ \cup {i}]
        /\ Ends(c)
     \/ /\ slot.of = Nobody \/ (~slot.active /\ i \in Immediate)
        /\ Goes(c, "refused")
        /\ UNCHANGED <<slot, meant>>
  /\ UNCHANGED <<task, run, disk, locks, engine, ask, app, crashes, given, queued, removed>>

\* EngineSession.steer, outside every lock: a turn that is over refuses it.
Sends(c) ==
  /\ Up /\ At(c, "sending")
  /\ \/ /\ engine[thread[c].to] \in {"running", "stopping"}
        /\ given' = [given EXCEPT ![thread[c].item] = @ + 1]
        /\ Ends(c)
     \/ /\ engine[thread[c].to] # "running"
        /\ Goes(c, "refused") /\ UNCHANGED given
  /\ UNCHANGED <<task, run, disk, slot, locks, engine, ask, app, crashes, queued, removed, meant>>

\* _restore_queued_instruction: at the index it had, or at the end of a queue
\* that is shorter by now.
Restored(queue, i, k) ==
  LET n == IF k > Len(queue) THEN Len(queue) + 1 ELSE k IN
  IF i \in Range(queue) THEN queue
  ELSE SubSeq(queue, 1, n - 1) \o <<i>> \o SubSeq(queue, n, Len(queue))

\* Mutant of Refused: the instruction does not go back to the queue.
RefusedForGood(c) ==
  /\ Up /\ At(c, "refused") /\ Free(c)
  /\ Ends(c)
  /\ UNCHANGED <<task, run, disk, slot, locks, engine, ask, app, crashes, past>>

\* A steer that raised: the caller of `steer' keeps its text, a promoted
\* instruction goes back to where it was.
Refused(c) ==
  /\ Up /\ At(c, "refused") /\ Free(c)
  /\ task' = IF thread[c].op = "promote" /\ task.there
             THEN [task EXCEPT !.queue = Restored(@, thread[c].item, thread[c].index)]
             ELSE task
  /\ Ends(c)
  /\ UNCHANGED <<run, disk, slot, locks, engine, ask, app, crashes, past>>

\* queue_turn and remove_queued_turn are each one step under the lock.
Queue(c) ==
  /\ Calls(c, "queue") /\ task.there /\ slot.of # Nobody /\ Free(c)
  /\ \E i \in Items :
       /\ Fresh(i)
       /\ Emits([task EXCEPT !.queue = Append(@, i)])
       /\ queued' = queued \cup {i}
  /\ thread' = [thread EXCEPT ![c] = [Idle("queue") EXCEPT !.at = "done"]]
  /\ UNCHANGED <<disk, slot, locks, engine, ask, app, crashes, given, removed, meant>>

RemoveQueued(c) ==
  /\ Calls(c, "remove") /\ task.there /\ Free(c)
  /\ \E i \in Range(task.queue) :
       /\ Emits(Without(i))
       /\ removed' = removed \cup {i}
  /\ thread' = [thread EXCEPT ![c] = [Idle("remove") EXCEPT !.at = "done"]]
  /\ UNCHANGED <<disk, slot, locks, engine, ask, app, crashes, given, queued, meant>>

\* cancel: the flag and the engine's turn are taken in one step ...
Cancel(c) ==
  /\ Calls(c, "cancel") /\ slot.of # Nobody /\ Free(c) /\ task.there
  /\ slot' = [slot EXCEPT !.cancel = TRUE]
  /\ run' = Synced(run, task.status)
  /\ thread' = [thread EXCEPT ![c] =
       [Idle("cancel") EXCEPT !.at = "sweeping", !.to = IF slot.active THEN slot.of ELSE Nobody]]
  /\ UNCHANGED <<task, disk, locks, engine, ask, app, crashes, past>>

\* ... then the open approvals and questions are closed ...
CancelSweeps(c) ==
  /\ Up /\ At(c, "sweeping")
  /\ Sweeps
  /\ Goes(c, "interrupting")
  /\ UNCHANGED <<disk, slot, locks, engine, app, crashes, past>>

\* ... then the engine is told.
CancelTells(c) ==
  /\ Up /\ At(c, "interrupting")
  /\ engine' = IF thread[c].to = Nobody THEN engine
               ELSE [engine EXCEPT ![thread[c].to] = Stopped(thread[c].to)]
  /\ Ends(c)
  /\ UNCHANGED <<task, run, disk, slot, locks, ask, app, crashes, past>>

\* update_session_config, submit_mode_turn and delete_session take
\* session_lock first ...
Maintain(c) ==
  /\ Up /\ thread[c].op = "none" /\ task.there
  /\ \E op \in Ops \cap {"config", "mode"} :
       \E i \in Items \cup {Nobody} :
         /\ IF op = "mode" THEN i \in Items \ Immediate /\ Fresh(i) ELSE i = Nobody
         /\ Begins(c, op, "locking", i)
  /\ UNCHANGED <<task, run, disk, slot, locks, engine, ask, app, crashes, past>>

\* ... delete_session unless the task is still preparing: it flags the slot.
Delete(c) ==
  /\ Calls(c, "delete") /\ task.there /\ Free(c)
  /\ slot' = IF slot.of = Prep THEN [slot EXCEPT !.cancel = TRUE, !.gone = TRUE] ELSE slot
  /\ Begins(c, "delete", IF slot.of = Prep THEN "erasing" ELSE "locking", Nobody)
  /\ UNCHANGED <<task, run, disk, locks, engine, ask, app, crashes, past>>

SessionLock(c) ==
  /\ Up /\ At(c, "locking") /\ slock = Nobody
  /\ slock' = c /\ Goes(c, "reserving")
  /\ UNCHANGED <<task, run, disk, slot, reserved, lock, engine, ask, app, crashes, past>>

\* ... then _maintenance_session, which needs CodingService._lock.
Reserves(c) ==
  /\ Up /\ At(c, "reserving") /\ Free(c)
  /\ IF task.there /\ slot.of = Nobody /\ reserved = Nobody
     THEN reserved' = c /\ Goes(c, "reserved") /\ UNCHANGED slock
     ELSE Ends(c) /\ slock' = Nobody /\ UNCHANGED reserved
  /\ UNCHANGED <<task, run, disk, slot, lock, engine, ask, app, crashes, past>>

ConfigChanges(c) ==
  /\ Up /\ At(c, "reserved") /\ thread[c].op = "config" /\ Free(c)
  /\ reserved' = Nobody /\ slock' = Nobody /\ Ends(c)
  /\ UNCHANGED <<task, run, disk, slot, lock, engine, ask, app, crashes, past>>

\* submit_mode_turn: the fresh run is made where the turn starts.  A task
\* that has changed since the caller looked is refused.
ModeLaunches(c) ==
  /\ Up /\ At(c, "reserved") /\ thread[c].op = "mode" /\ Free(c)
  /\ LET i == thread[c].item IN
     \/ /\ CanLaunch(c)
        /\ Launched(i, <<>>, task, IF RunFinished THEN "ready" ELSE run)
        /\ thread' = [thread EXCEPT ![c] = Over(c, "done"), ![i] = TurnOf(i)]
     \/ Ends(c) /\ UNCHANGED <<task, run, slot, meant>>
  /\ reserved' = Nobody /\ slock' = Nobody
  /\ UNCHANGED <<disk, lock, engine, ask, app, crashes, given, queued, removed>>

\* delete_session: the workspace goes first, the record last.
DeleteCleans(c) ==
  /\ Up /\ At(c, "reserved") /\ thread[c].op = "delete"
  /\ disk' = FALSE /\ Goes(c, "erasing")
  /\ UNCHANGED <<task, run, slot, locks, engine, ask, app, crashes, past>>

DeleteErases(c) ==
  /\ Up /\ At(c, "erasing") /\ Free(c)
  /\ task' = [task EXCEPT !.there = FALSE, !.path = FALSE, !.queue = <<>>,
                          !.card = Nobody, !.question = Nobody]
  /\ reserved' = IF reserved = c THEN Nobody ELSE reserved
  /\ slock' = IF slock = c THEN Nobody ELSE slock
  /\ Ends(c)
  /\ UNCHANGED <<run, disk, slot, lock, engine, ask, app, crashes, past>>

-----------------------------------------------------------------------------
(* Shutdown, crash and start.                                              *)

QuitUnchanged == UNCHANGED <<disk, locks, thread, past>>

\* prepare_shutdown: every slot is marked, open asks are closed, ...
QuitMarks ==
  /\ app = "up" /\ Free(Nobody) /\ crashes < MaxCrashes
  /\ crashes' = crashes + 1
  /\ slot' = IF slot.of = Nobody THEN slot ELSE [slot EXCEPT !.cancel = TRUE]
  /\ app' = IF slot.of = Nobody THEN "told" ELSE "marked"
  /\ UNCHANGED <<task, run, engine, ask>> /\ QuitUnchanged

QuitSweeps ==
  /\ app = "marked"
  /\ Sweeps
  /\ app' = "swept"
  /\ UNCHANGED <<slot, engine, crashes>> /\ QuitUnchanged

\* ... TurnExecutor.interrupt flags the turns that are left, and says so, ...
QuitFlags ==
  /\ app = "swept" /\ Free(Nobody)
  /\ slot' = IF slot.of = Nobody THEN slot ELSE [slot EXCEPT !.stop = TRUE]
  /\ app' = IF slot.of = Nobody THEN "told" ELSE "flagged"
  /\ UNCHANGED <<task, run, engine, ask, crashes>> /\ QuitUnchanged

QuitTells ==
  /\ app = "flagged"
  /\ Closes(Settled("interrupted"))
  /\ app' = "told"
  /\ UNCHANGED <<slot, engine, ask, crashes>> /\ QuitUnchanged

\* ... and RuntimeManager.close_all closes the runtimes for good.
QuitCloses ==
  /\ app = "told"
  /\ engine' = [i \in Items |-> IF engine[i] \in {"running", "stopping"}
                                THEN "closed" ELSE engine[i]]
  /\ app' = "closed"
  /\ UNCHANGED <<task, run, slot, ask, crashes>> /\ QuitUnchanged

\* The process is gone, and with it every thread, slot, lock and runtime.
Gone ==
  /\ app' = "down"
  /\ slot' = NoSlot /\ reserved' = Nobody /\ lock' = Nobody /\ slock' = Nobody
  /\ thread' = [r \in Threads |-> IF thread[r].at \in {"none", "done"} THEN thread[r]
                             ELSE [Over(r, "lost") EXCEPT !.item = thread[r].item]]
  /\ engine' = [i \in Items |-> IF engine[i] = "none" THEN "none" ELSE "closed"]
  /\ ask' = [i \in Items |-> IF ask[i] = NoAsk THEN NoAsk
                             ELSE [ask[i] EXCEPT !.at = "done", !.closed = TRUE]]
  /\ UNCHANGED <<task, run, disk, past>>

Exit == app = "closed" /\ Gone /\ UNCHANGED crashes

Crash == Up /\ crashes < MaxCrashes /\ Gone /\ crashes' = crashes + 1

\* reconcile_interrupted and _fail_abandoned_preparation, before the first
\* request is served.
Boot ==
  /\ app = "down"
  /\ app' = "up"
  /\ LET s == IF task.there /\ task.status \in Busy THEN Settled("interrupted") ELSE task
         abandoned == task.there /\ ~task.path /\ run = "preparing"
     IN IF abandoned
        THEN task' = [s EXCEPT !.status = "failed"] /\ run' = "failed"
        ELSE task' = s /\ UNCHANGED run
  /\ UNCHANGED <<disk, slot, locks, thread, engine, ask, crashes, past>>

-----------------------------------------------------------------------------
Init ==
  /\ task = [there |-> FALSE, status |-> "ready", path |-> FALSE, queue |-> <<>>,
             card |-> Nobody, question |-> Nobody]
  /\ run = "preparing" /\ disk = FALSE
  /\ slot = NoSlot /\ reserved = Nobody /\ lock = Nobody /\ slock = Nobody
  /\ thread = [r \in Threads |-> Idle("none")]
  /\ engine = [i \in Items |-> "none"]
  /\ ask = [i \in Items |-> NoAsk]
  /\ app = "up" /\ crashes = 0
  /\ given = [i \in Items |-> 0] /\ queued = {} /\ removed = {}
  /\ meant = [r \in Items \cup {Prep} |-> {}]

PrepSteps ==
  \/ PrepMakes \/ PrepAdopts \/ PrepReady \/ PrepUndoes \/ PrepGivesUp
  \/ PrepReports \/ PrepStarts \/ PrepGoesOn

TurnSteps(i) ==
  \/ TurnOpens(i) \/ TurnStarts(i) \/ TurnActivates(i) \/ TurnCancels(i)
  \/ TurnSteers(i) \/ TurnCollects(i) \/ TurnSettles(i) \/ TurnCloses(i)
  \/ TurnFails(i)

NextSteps(r) ==
  \/ Links(r) \/ CommandRuns(r) \/ NextReserves(r) \/ NextReads(r)
  \/ NextTakes(r) \/ NextLaunches(r) \/ NextCommand(r)

AskSteps(i) ==
  \/ AskQuestion(i) \/ AskApproval(i) \/ AskOpens(i) \/ AskEnds(i)

CallBegins(c) ==
  \/ Submit(c) \/ CallNext(c) \/ Answer(c) \/ Steer(c) \/ Promote(c) \/ Queue(c)
  \/ RemoveQueued(c) \/ Cancel(c) \/ Maintain(c) \/ Delete(c)

CallSteps(c) ==
  \/ SubmitLaunches(c) \/ AnswerRecorded(c) \/ Looks(c) \/ Routes(c) \/ Sends(c)
  \/ Refused(c) \/ CancelSweeps(c) \/ CancelTells(c) \/ SessionLock(c)
  \/ Reserves(c) \/ ConfigChanges(c) \/ ModeLaunches(c) \/ DeleteCleans(c)
  \/ DeleteErases(c)

QuitSteps == QuitSweeps \/ QuitFlags \/ QuitTells \/ QuitCloses \/ Exit

Next ==
  \/ Create \/ PrepSteps \/ QuitMarks \/ QuitSteps \/ Crash \/ Boot
  \/ \E i \in Items : \/ TurnSteps(i) \/ AskArrives(i) \/ AskSteps(i)
                      \/ EngineEnds(i) \/ EngineWatched(i) \/ EngineDies(i)
  \/ \E r \in Threads : NextSteps(r)
  \/ \E c \in Callers : CallBegins(c) \/ CallSteps(c)

Spec == Init /\ [][Next]_vars

\* Threads run; a waiter's hour and a watchdog's seconds pass.  The engine
\* may work for ever, nobody has to call, and nobody has to start the app.
FairSpec ==
  /\ Spec
  /\ WF_vars(PrepSteps) /\ WF_vars(QuitSteps)
  /\ \A i \in Items : WF_vars(TurnSteps(i)) /\ WF_vars(AskSteps(i)) /\ WF_vars(EngineWatched(i))
  /\ \A r \in Threads : WF_vars(NextSteps(r))
  /\ \A c \in Callers : WF_vars(CallSteps(c))

-----------------------------------------------------------------------------
(* Properties.                                                             *)

\* Every variable has its type.
TypeOK ==
  /\ task \in Session /\ run \in RunStatus /\ disk \in BOOLEAN /\ slot \in Slot
  /\ reserved \in Threads \cup {Nobody}
  /\ lock \in {Prep, Nobody} /\ slock \in Callers \cup {Nobody}
  /\ thread \in [Threads -> Thread] /\ ask \in [Items -> Ask]
  /\ engine \in [Items -> {"none", "running", "stopping", "completed", "failed", "closed"}]
  /\ app \in {"up", "marked", "swept", "flagged", "told", "closed", "down"}
  /\ given \in [Items -> 0 .. 1]
  /\ meant \in [Items \cup {Prep} -> SUBSET Items]

\* One engine turn of the task runs at a time: the slot is given back only
\* after the turn's runtime is closed or its turn is over, whichever of
\* submit_turn, run_next_queued, submit_mode_turn and the preparation starts
\* the next one.
OneTurn ==
  \A i, j \in Items :
    {engine[i], engine[j]} \subseteq {"running", "stopping"} => i = j

\* An instruction that reached the engine waits nowhere else: not in the
\* queue, not among a slot's follow-ups, not in a turn that is starting.  A
\* retry, a promotion and a resumed queue never run it again.
InstructionOnce ==
  \A i \in Items : given[i] = 1 =>
    /\ i \notin Range(task.queue) \cup Range(slot.steers)
    /\ \A r \in Threads : i # thread[r].item /\ i \notin Range(thread[r].steers)

\* An instruction accepted into the queue ("Queued next") is never dropped:
\* it is in the queue, in the hands of the thread that starts or promotes
\* it, given, handed to a slot, or it had its turn, unless it was removed
\* or the task deleted.
QueuedIsSomewhere ==
  task.there =>
    \A i \in queued \ removed :
      \/ i \in Range(task.queue) \/ given[i] = 1 \/ thread[i].op = "turn"
      \/ \E r \in Threads : i = thread[r].item
      \/ \E r \in DOMAIN meant : i \in meant[r]

\* "Instructions sent while the workspace was preparing reach the first turn
\* as soon as it is ready for steering" (_prepare_and_start): no turn ends
\* as completed without every follow-up its slot accepted.
SteersReachTurn ==
  \A i \in Items : At(i, "settling") /\ thread[i].why = "completed" =>
    \A j \in meant[i] : given[j] = 1

\* A task that reads as busy, and so refuses every turn, has a thread that
\* will change that.  Approvals are the exception the code leaves open.
BusyHasOwner ==
  Up /\ task.there /\ task.status \in Busy =>
    \/ slot.of # Nobody \/ At(Prep, "reporting") \/ \E c \in Callers : At(c, "erasing")
    \/ \E i \in Items : ask[i].kind = "approval"

\* Deleting a task while it prepares leaves no workspace behind once the
\* preparation thread has ended, and deleting it later leaves none at all.
DeletedLeavesNothing ==
  ~task.there /\ At(Prep, "done") => ~disk

\* Stop converges: a turn whose slot is marked as cancelled gives the slot
\* back, whatever step of its start or end the mark came in, even when the
\* engine does not react.
CancelEndsTurn == \A r \in Items \cup {Prep} : []<>~(slot.of = r /\ slot.cancel)

\* Every call of the API returns: nobody waits for a lock for ever, except
\* where the preparation thread runs a command under CodingService._lock and
\* waits for session_lock while its owner waits for CodingService._lock.
CallsReturn ==
  \A c \in Callers :
    []<>(\/ thread[c].at \in {"none", "done", "lost"}
         \/ lock = Prep /\ slock = c)

=============================================================================
