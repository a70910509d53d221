-------------------------- MODULE LocalTasksProofs --------------------------
(* One engine turn at a time, for any instructions, calls and faults. *)
EXTENDS LocalTasks, TLAPS

\* Where the thread of a turn is while the slot is its own, and where it is
\* while the engine may be at work.
MidTurn == {"opening", "starting", "started", "activated", "cancelling", "live",
            "settling", "failing", "recording"}
WithEngine == {"started", "activated", "cancelling", "live", "failing"}

\* Where the preparation is while the slot is its own.
Preparing == {"making", "made", "adopted", "failing", "failed", "prepared"}

EngineRuns(i) == engine[i] \in {"running", "stopping"}

\* The records have the fields the steps rewrite.
ThreadShape(t) ==
  t = [op |-> t.op, at |-> t.at, item |-> t.item, to |-> t.to,
       steers |-> t.steers, index |-> t.index, why |-> t.why]

TaskShape(t) ==
  t = [there |-> t.there, status |-> t.status, path |-> t.path,
       queue |-> t.queue, card |-> t.card, question |-> t.question]

SlotShape(s) ==
  s = [of |-> s.of, cancel |-> s.cancel, stop |-> s.stop, gone |-> s.gone,
       active |-> s.active, steers |-> s.steers]

Shape ==
  /\ TaskShape(task) /\ SlotShape(slot)
  /\ thread = [r \in Threads |-> thread[r]]
  /\ \A r \in Threads : ThreadShape(thread[r])
  /\ engine = [i \in Items |-> engine[i]]

\* The slot belongs to the thread that is in a turn or prepares the task, an
\* engine runs only for a thread in its turn, and before the task is created
\* nothing is there.
SlotInv ==
  /\ \A i \in Items : thread[i].at \in MidTurn => slot.of = i
  /\ \A i \in Items : EngineRuns(i) => thread[i].at \in WithEngine
  /\ thread[Prep].at \in Preparing => slot.of = Prep
  /\ thread[Prep].op = "none" =>
       thread[Prep].at = "none" /\ ~task.there /\ ~task.path /\ slot.of = Nobody

Inv == Shape /\ SlotInv

\* The initial state.
LEMMA InitInv == Init => Inv
BY LocalTasksAssumption DEF Init, Inv, Shape, ThreadShape, TaskShape, SlotShape, SlotInv, NoSlot, SlotFor, Idle, Threads,
   MidTurn, WithEngine, Preparing, EngineRuns

-----------------------------------------------------------------------------
(* What a step does to the records, as far as the invariant reads them. *)

\* Thread r alone moves.
Moved(r, at, op) ==
  /\ thread' = [s \in Threads |-> thread'[s]]
  /\ \A s \in Threads : ThreadShape(thread'[s])
  /\ thread'[r].at = at /\ thread'[r].op = op
  /\ \A s \in Threads : s # r => thread'[s] = thread[s]

\* The record keeps its existence and its workspace.
Like(t) == TaskShape(t) /\ t.there = task.there /\ t.path = task.path

SlotKept == SlotShape(slot') /\ slot'.of = slot.of

\* The engine starts no turn.
EngineCalm ==
  /\ engine' = [i \in Items |-> engine'[i]]
  /\ \A i \in Items : EngineRuns(i)' => EngineRuns(i)

\* The record of a turn's thread.
LEMMA TurnRecord ==
  ASSUME NEW i
  PROVE  ThreadShape(TurnOf(i)) /\ TurnOf(i).at = "opening" /\ TurnOf(i).op = "turn"
<1> DEFINE opening == [Idle("turn") EXCEPT !.at = "opening"]
<1>1. opening = [op |-> "turn", at |-> "opening", item |-> Nobody, to |-> Nobody,
                 steers |-> <<>>, index |-> 0, why |-> "completed"]
  BY DEF Idle
<1>2. TurnOf(i) = [opening EXCEPT !.item = i]
  BY Zenon DEF TurnOf
<1> HIDE DEF opening
<1>3. TurnOf(i) = [op |-> "turn", at |-> "opening", item |-> i, to |-> Nobody,
                   steers |-> <<>>, index |-> 0, why |-> "completed"]
  BY <1>1, <1>2
<1> QED
  BY <1>3 DEF ThreadShape

\* A thread that goes on changes its place only.
LEMMA GoesOn ==
  ASSUME Shape, NEW r \in Threads, NEW at, Goes(r, at)
  PROVE  Moved(r, at, thread[r].op)
BY DEF Shape, ThreadShape, Goes, Moved

\* A thread that ends keeps what it was started for.
LEMMA EndsThere ==
  ASSUME Shape, NEW r \in Threads, Ends(r)
  PROVE  Moved(r, "done", thread[r].op)
BY DEF Shape, ThreadShape, Ends, Over, Idle, Moved

\* A thread that goes on with a new value of a local.
LEMMA GoesWith ==
  ASSUME Shape, NEW r \in Threads, NEW at, NEW v,
         \/ thread' = [thread EXCEPT ![r].at = at, ![r].steers = v]
         \/ thread' = [thread EXCEPT ![r].at = at, ![r].item = v]
         \/ thread' = [thread EXCEPT ![r].at = at, ![r].why = v]
         \/ thread' = [thread EXCEPT ![r].at = at, ![r].to = v]
  PROVE  Moved(r, at, thread[r].op)
BY DEF Shape, ThreadShape, Moved

\* A thread that is given a whole new record.
LEMMA SetThere ==
  ASSUME Shape, NEW r \in Threads, NEW t, ThreadShape(t),
         thread' = [thread EXCEPT ![r] = t]
  PROVE  Moved(r, t.at, t.op)
BY DEF Shape, Moved

\* A call that begins.
LEMMA BeginsThere ==
  ASSUME Shape, NEW r \in Threads, NEW at, NEW op, NEW i, Begins(r, op, at, i)
  PROVE  Moved(r, at, op)
BY DEF Shape, ThreadShape, Begins, Idle, Moved

\* Nothing moves.
LEMMA Stays ==
  ASSUME Inv, thread' = thread, SlotKept, EngineCalm, Like(task')
  PROVE  Inv'
BY LocalTasksAssumption
   DEF Inv, Shape, SlotInv, SlotKept, EngineCalm, Like, Threads, EngineRuns

\* Before the task is created its record says so.
TaskFine ==
  TaskShape(task') /\ (thread[Prep].op = "none" => ~task'.there /\ ~task'.path)

\* A record that keeps its existence and its workspace is fine for the thread that prepares it.
LEMMA LikeIsFine == Inv /\ Like(task') => TaskFine
BY DEF Inv, SlotInv, Like, TaskFine

\* A thread moves outside the turn and the preparation, or within the latter.
LEMMA Walks ==
  ASSUME Inv, NEW r \in Threads, NEW at, NEW op, Moved(r, at, op),
         SlotKept, EngineCalm, TaskFine,
         r \in Items => thread[r].at \notin MidTurn /\ at \notin MidTurn,
         r = Prep => /\ op = thread[Prep].op /\ thread[Prep].at # "none"
                     /\ at \in Preparing => thread[Prep].at \in Preparing
  PROVE  Inv'
<1>1. Shape'
  BY DEF Inv, Shape, Moved, SlotKept, EngineCalm, TaskFine
<1>2. Prep \in Threads /\ Items \subseteq Threads /\ Prep \notin Items
  BY LocalTasksAssumption DEF Threads
<1>3. SlotInv'
  BY <1>2 DEF Inv, SlotInv, Moved, SlotKept, EngineCalm, TaskFine, EngineRuns, MidTurn, WithEngine
<1> QED
  BY <1>1, <1>3 DEF Inv

\* The thread of a turn moves within its turn.
LEMMA Works ==
  ASSUME Inv, NEW i \in Items, NEW at, NEW op, Moved(i, at, op),
         SlotKept, Like(task'), engine' = [j \in Items |-> engine'[j]],
         thread[i].at \in MidTurn, at \in MidTurn,
         \A j \in Items : j # i /\ EngineRuns(j)' => EngineRuns(j),
         EngineRuns(i)' => at \in WithEngine
  PROVE  Inv'
<1>1. Shape'
  BY DEF Inv, Shape, Moved, SlotKept, Like
<1>2. Prep \in Threads /\ Items \subseteq Threads /\ Prep \notin Items
  BY LocalTasksAssumption DEF Threads
<1>3. SlotInv'
  BY <1>2 DEF Inv, SlotInv, Moved, SlotKept, Like, EngineRuns
<1> QED
  BY <1>1, <1>3 DEF Inv

\* The owner of the slot gives it back.
LEMMA GivesBack ==
  ASSUME Inv, NEW r \in Threads, NEW at, NEW op, Moved(r, at, op),
         slot' = NoSlot, Like(task'), EngineCalm,
         \/ r \in Items /\ thread[r].at \in MidTurn /\ ~EngineRuns(r)'
         \/ r = Prep /\ thread[r].at \in Preparing /\ op = thread[r].op,
         at \notin MidTurn \cup Preparing
  PROVE  Inv'
<1>1. Shape'
  BY DEF Inv, Shape, Moved, NoSlot, SlotFor, SlotShape, EngineCalm, Like
<1>2. Prep \in Threads /\ Items \subseteq Threads /\ Prep \notin Items
  BY LocalTasksAssumption DEF Threads
<1>3. slot.of = r
  BY DEF Inv, SlotInv
<1>4. SlotInv'
  BY <1>2, <1>3 DEF Inv, SlotInv, Moved, NoSlot, SlotFor, EngineCalm, Like, EngineRuns, MidTurn,
     WithEngine, Preparing
<1> QED
  BY <1>1, <1>4 DEF Inv

\* A turn of item i is launched by thread r, while the slot is free or is
\* that of the preparation, which launches the first turn itself.
LEMMA Launches ==
  ASSUME Inv, NEW r \in Threads, NEW i,
         thread' = [thread EXCEPT ![r] = Over(r, "done"), ![i] = TurnOf(i)],
         SlotShape(slot'), slot'.of = i, engine' = engine, Like(task'),
         \/ slot.of = Nobody /\ task.path
         \/ slot.of = Prep /\ r = Prep /\ thread[Prep].at \in Preparing
  PROVE  Inv'
<1>1. Prep \in Threads /\ Items \subseteq Threads /\ Prep \notin Items /\ Nobody \notin Threads
      /\ Prep # Nobody
  BY LocalTasksAssumption DEF Threads
<1>2. ThreadShape(Over(r, "done")) /\ Over(r, "done").at = "done"
      /\ Over(r, "done").op = thread[r].op
  BY DEF ThreadShape, Over, Idle
<1>3. ThreadShape(TurnOf(i)) /\ TurnOf(i).at = "opening" /\ TurnOf(i).op = "turn"
  BY TurnRecord
<1>4. /\ thread' = [s \in Threads |-> thread'[s]]
      /\ \A s \in Threads : thread'[s] = IF s = i THEN TurnOf(i)
                                         ELSE IF s = r THEN Over(r, "done") ELSE thread[s]
  BY DEF Inv, Shape
<1>5. Shape'
  BY <1>2, <1>3, <1>4 DEF Inv, Shape, Like
<1>6. \A j \in Items : thread[j].at \notin MidTurn /\ ~EngineRuns(j)
  BY <1>1 DEF Inv, SlotInv, MidTurn, WithEngine
<1>7. thread[Prep].op # "none"
  BY DEF Inv, SlotInv, Preparing
<1>8. i # Prep => thread'[Prep].at \notin Preparing
  BY <1>1, <1>2, <1>4 DEF Inv, SlotInv, Preparing
<1>9. thread'[Prep].at \notin Preparing
  BY <1>1, <1>3, <1>4, <1>8 DEF Preparing
<1>10. thread'[Prep].op # "none"
  BY <1>1, <1>2, <1>3, <1>4, <1>7
<1>11. \A j \in Items : thread'[j].at \in MidTurn => slot'.of = j
  BY <1>1, <1>2, <1>3, <1>4, <1>6 DEF MidTurn
<1>12. \A j \in Items : ~EngineRuns(j)'
  BY <1>6 DEF EngineRuns
<1> QED
  BY <1>5, <1>9, <1>10, <1>11, <1>12 DEF Inv, SlotInv

-----------------------------------------------------------------------------
(* The rewritings of the record keep its existence and its workspace. *)

\* The record that is not rewritten.
LEMMA LikeItself == Shape => Like(task)
BY DEF Shape, Like

\* A turn that is settled: its status, its card and its question are written.
LEMMA LikeSettling ==
  ASSUME Shape, NEW a, NEW b, NEW c, NEW t,
         t = [task EXCEPT !.status = a, !.card = b, !.question = c]
  PROVE  Like(t)
BY DEF Shape, Like, TaskShape

\* finish_turn, fail_turn and interrupt_turn.
LEMMA LikeSettled == ASSUME Shape, NEW status PROVE Like(Settled(status))
<1>1. Settled(status) = [task EXCEPT !.status = status, !.card = Nobody, !.question = Nobody]
  BY DEF Settled
<1> QED
  BY <1>1, LikeSettling

\* A change of the status.
LEMMA LikeStatus ==
  ASSUME Shape, NEW status PROVE Like([task EXCEPT !.status = status])
BY DEF Shape, Like, TaskShape

\* A change of the queue.
LEMMA LikeQueue ==
  ASSUME Shape, NEW queue PROVE Like([task EXCEPT !.queue = queue])
BY DEF Shape, Like, TaskShape

\* An approval or a question that is closed.
LEMMA LikeResumed == ASSUME NEW t, Like(t) PROVE Like(Resumed(t))
BY DEF Like, TaskShape, Resumed

\* An approval card that is taken down.
LEMMA LikeCard ==
  ASSUME NEW t, Like(t) PROVE Like([t EXCEPT !.card = Nobody])
BY DEF Like, TaskShape

\* A question that is answered or given up.
LEMMA LikeQuestionClosed ==
  ASSUME Shape, NEW i PROVE Like(QuestionClosed(i))
<1>1. Like([task EXCEPT !.question = Nobody])
  BY DEF Shape, Like, TaskShape
<1> QED
  BY <1>1, LikeItself, LikeResumed DEF QuestionClosed

\* The approval that is closed with its card.
LEMMA LikeCardClosed == Shape => Like(CardClosed)
BY LikeItself, LikeCard, LikeResumed DEF CardClosed

\* Every request of a session closed at once.
LEMMA LikeSwept == ASSUME Shape PROVE Like(SweptTask)
<1> DEFINE s == IF task.question \in OpenAsks("question")
                THEN QuestionClosed(task.question) ELSE task
<1>1. Like(s)
  BY LikeItself, LikeQuestionClosed
<1>2. Like(Resumed([s EXCEPT !.card = Nobody]))
  BY <1>1, LikeCard, LikeResumed
<1> QED
  BY <1>1, <1>2 DEF SweptTask

\* cancel_session of both brokers.
LEMMA LikeSweeps == ASSUME Shape, Sweeps PROVE Like(task')
BY LikeItself, LikeSwept DEF Sweeps, Closes, Emits

\* What a step leaves alone is kept.
LEMMA Unchanged ==
  ASSUME Inv
  PROVE  /\ slot' = slot => SlotKept
         /\ engine' = engine => EngineCalm
         /\ task' = task => Like(task')
BY LikeItself DEF Inv, Shape, SlotKept, EngineCalm, EngineRuns, Like

\* Flags of the slot.
LEMMA SlotFlags ==
  ASSUME Inv, NEW b
  PROVE  /\ slot' = [slot EXCEPT !.cancel = b] => SlotKept
         /\ slot' = [slot EXCEPT !.stop = b] => SlotKept
         /\ slot' = [slot EXCEPT !.steers = b] => SlotKept
BY DEF Inv, Shape, SlotKept, SlotShape

\* The engine's turn of an item ends.
LEMMA EngineCalms ==
  ASSUME Inv, NEW i, NEW end, end \notin {"running", "stopping"},
         engine' = [engine EXCEPT ![i] = end]
  PROVE  EngineCalm
BY DEF Inv, Shape, EngineCalm, EngineRuns

\* cancel asks the engine to stop.
LEMMA EngineStops ==
  ASSUME Inv, NEW i, engine' = [engine EXCEPT ![i] = Stopped(i)]
  PROVE  EngineCalm
BY DEF Inv, Shape, EngineCalm, EngineRuns, Stopped

-----------------------------------------------------------------------------
(* The engine and its requests: no thread of the model moves. *)

\* A turn of the engine that ends, is seen to have ended, or dies.
LEMMA EngineKeeps ==
  ASSUME Inv, NEW i \in Items, EngineEnds(i) \/ EngineWatched(i) \/ EngineDies(i)
  PROVE  Inv'
<1>1. thread' = thread /\ SlotKept /\ Like(task')
  BY Unchanged DEF EngineEnds, EngineWatched, EngineDies
<1>2. EngineCalm
  BY EngineCalms DEF EngineEnds, EngineWatched, EngineDies
<1> QED
  BY <1>1, <1>2, Stays

\* A request of the engine for an answer or an approval, from its arrival to its end.
LEMMA AskKeeps ==
  ASSUME Inv, NEW i \in Items, AskArrives(i) \/ AskSteps(i)
  PROVE  Inv'
<1> USE DEF AskSteps
<1>1. thread' = thread /\ SlotKept /\ EngineCalm
  BY Unchanged DEF AskArrives, AskQuestion, AskApproval, AskOpens, AskEnds
<1>2. Shape
  BY DEF Inv
<1>3. AskQuestion(i) => Like(task')
  <2>1. ASSUME NEW t, t = [task EXCEPT !.question = i, !.status = "awaiting_approval"] PROVE Like(t)
    BY <1>2, <2>1 DEF Shape, Like, TaskShape
  <2> QED
    BY <2>1, Unchanged DEF AskQuestion, Emits
<1>4. AskOpens(i) => Like(task')
  <2>1. ASSUME NEW t, t = [task EXCEPT !.card = i, !.status = "awaiting_approval"] PROVE Like(t)
    BY <1>2, <2>1 DEF Shape, Like, TaskShape
  <2> QED
    BY <2>1, Unchanged DEF AskOpens, Emits
<1>5. AskEnds(i) => Like(task')
  BY <1>2, Unchanged, LikeCardClosed, LikeQuestionClosed DEF AskEnds, Closes, Emits
<1>6. AskArrives(i) \/ AskApproval(i) => Like(task')
  BY Unchanged DEF AskArrives, AskApproval
<1> QED
  BY <1>1, <1>3, <1>4, <1>5, <1>6, Stays

-----------------------------------------------------------------------------
(* Shutdown, crash and start. *)

\* The server that shuts down.
LEMMA QuitKeeps ==
  ASSUME Inv, QuitMarks \/ QuitSweeps \/ QuitFlags \/ QuitTells \/ QuitCloses
  PROVE  Inv'
<1> USE DEF QuitUnchanged
<1>1. thread' = thread
  BY DEF QuitMarks, QuitSweeps, QuitFlags, QuitTells, QuitCloses
<1>2. SlotKept
  BY Unchanged, SlotFlags DEF QuitMarks, QuitSweeps, QuitFlags, QuitTells, QuitCloses
<1>3. EngineCalm
  <2>1. QuitCloses => EngineCalm
    BY DEF Inv, Shape, QuitCloses, EngineCalm, EngineRuns
  <2> QED
    BY <2>1, Unchanged DEF QuitMarks, QuitSweeps, QuitFlags, QuitTells
<1>4. Like(task')
  BY Unchanged, LikeSweeps, LikeSettled
     DEF Inv, QuitMarks, QuitSweeps, QuitFlags, QuitTells, QuitCloses, Closes, Emits
<1> QED
  BY <1>1, <1>2, <1>3, <1>4, Stays

\* The server that starts again.
LEMMA BootKeeps == ASSUME Inv, Boot PROVE Inv'
<1> DEFINE s == IF task.there /\ task.status \in Busy THEN Settled("interrupted") ELSE task
<1>1. Like(s)
  BY LikeItself, LikeSettled DEF Inv
<1>2. Like([s EXCEPT !.status = "failed"])
  BY <1>1 DEF Like, TaskShape
<1>3. Like(task')
  BY <1>1, <1>2 DEF Boot
<1>4. thread' = thread /\ SlotKept /\ EngineCalm
  BY Unchanged DEF Boot
<1> QED
  BY <1>3, <1>4, Stays

\* The end of the process.
LEMMA GoneKeeps == ASSUME Inv, Gone PROVE Inv'
<1>1. \A r \in Threads : Over(r, "lost").at = "lost" /\ Over(r, "lost").op = thread[r].op
                         /\ ThreadShape(Over(r, "lost"))
  BY DEF Over, Idle, ThreadShape
<1>2. ASSUME NEW r \in Threads
      PROVE  /\ ThreadShape(thread'[r]) /\ thread'[r].op = thread[r].op
             /\ thread'[r].at = thread[r].at \/ thread'[r].at = "lost"
             /\ thread'[r].at \in {"none", "done", "lost"}
             /\ thread[r].at = "none" => thread'[r].at = "none"
  <2> DEFINE lost == Over(r, "lost")
  <2>1. lost.at = "lost" /\ lost.op = thread[r].op /\ ThreadShape(lost)
    BY <1>1
  <2> HIDE DEF lost
  <2>2. ASSUME NEW v PROVE LET t == [lost EXCEPT !.item = v] IN
          t.at = "lost" /\ t.op = thread[r].op /\ ThreadShape(t)
    BY <2>1 DEF ThreadShape
  <2>3. thread'[r] = IF thread[r].at \in {"none", "done"} THEN thread[r]
                     ELSE [lost EXCEPT !.item = thread[r].item]
    BY DEF Gone, lost
  <2> QED
    BY <2>2, <2>3 DEF Inv, Shape
<1>3. Shape'
  BY <1>2, Unchanged DEF Inv, Shape, Gone, NoSlot, SlotFor, SlotShape, Like
<1>4. \A i \in Items : ~EngineRuns(i)'
  BY DEF Gone, EngineRuns
<1>5. Prep \in Threads /\ Items \subseteq Threads
  BY DEF Threads
<1>6. SlotInv'
  BY <1>2, <1>4, <1>5 DEF Inv, SlotInv, Gone, NoSlot, SlotFor, MidTurn, Preparing
<1> QED
  BY <1>3, <1>6 DEF Inv

-----------------------------------------------------------------------------
(* The preparation. *)

\* The task that is created.
LEMMA CreateKeeps == ASSUME Inv, Create PROVE Inv'
<1>1. PICK i \in Items : thread' = [thread EXCEPT ![Prep] =
                           [Idle("prepare") EXCEPT !.at = "making", !.item = i]]
  BY DEF Create
<1> DEFINE making == [Idle("prepare") EXCEPT !.at = "making"]
<1>2. making = [op |-> "prepare", at |-> "making", item |-> Nobody, to |-> Nobody,
                steers |-> <<>>, index |-> 0, why |-> "completed"]
  BY DEF Idle
<1>3. thread' = [thread EXCEPT ![Prep] = [making EXCEPT !.item = i]]
  BY <1>1, Zenon
<1> HIDE DEF making
<1>4. [making EXCEPT !.item = i] =
        [op |-> "prepare", at |-> "making", item |-> i, to |-> Nobody,
         steers |-> <<>>, index |-> 0, why |-> "completed"]
  BY <1>2
<1>5. Prep \in Threads /\ Items \subseteq Threads /\ Prep \notin Items /\ Nobody \notin Items
  BY LocalTasksAssumption DEF Threads
<1>6. Moved(Prep, "making", "prepare")
  <2> DEFINE new == [making EXCEPT !.item = i]
  <2>1. ThreadShape(new) /\ new.at = "making" /\ new.op = "prepare"
    BY <1>4 DEF ThreadShape
  <2>2. thread' = [thread EXCEPT ![Prep] = new]
    BY <1>3
  <2> HIDE DEF new
  <2> QED
    BY <1>5, <2>1, <2>2 DEF Inv, Shape, Moved
<1>7. TaskShape(task') /\ SlotShape(slot') /\ slot'.of = Prep
  BY DEF Create, Inv, Shape, TaskShape, SlotShape, SlotFor
<1>8. Shape'
  BY <1>6, <1>7 DEF Create, Inv, Shape, Moved
<1>9. \A j \in Items : thread'[j].at \notin MidTurn /\ ~EngineRuns(j)'
  BY <1>5, <1>6 DEF Create, Inv, SlotInv, Moved, EngineRuns, MidTurn, WithEngine
<1> QED
  BY <1>6, <1>7, <1>8, <1>9 DEF Inv, SlotInv, Moved

\* Up to the moment the workspace is there, or could not be made.
LEMMA PrepWalks ==
  ASSUME Inv, PrepMakes \/ PrepAdopts \/ PrepReady \/ PrepUndoes \/ PrepReports
  PROVE  Inv'
<1> USE DEF PrepMakes, PrepAdopts, PrepReady, PrepUndoes, PrepReports
<1>1. Prep \in Threads /\ Prep \notin Items /\ Shape
  BY LocalTasksAssumption DEF Threads, Inv
<1>2. SlotKept /\ EngineCalm
  BY Unchanged
<1>3. thread[Prep].op # "none" /\ thread[Prep].at # "none"
  BY DEF Inv, SlotInv, At
<1>4. TaskShape(task')
  <2>1. ASSUME NEW path PROVE TaskShape([task EXCEPT !.path = path])
    BY <1>1 DEF Shape, TaskShape
  <2> QED
    BY <1>1, <2>1, LikeSettled DEF Emits, Shape, Like
<1>5. \/ thread[Prep].at \in Preparing
         /\ \E at \in Preparing : Goes(Prep, at)
      \/ Ends(Prep)
  BY DEF At, Preparing
<1>6. CASE Ends(Prep)
  BY <1>1, <1>2, <1>3, <1>4, <1>6, EndsThere, Walks DEF TaskFine, Preparing
<1>7. CASE thread[Prep].at \in Preparing /\ \E at \in Preparing : Goes(Prep, at)
  BY <1>1, <1>2, <1>3, <1>4, <1>7, GoesOn, Walks DEF TaskFine
<1> QED
  BY <1>5, <1>6, <1>7

\* A failed preparation gives the slot up.
LEMMA PrepGivesUpKeeps == ASSUME Inv, PrepGivesUp PROVE Inv'
<1>1. Prep \in Threads /\ Shape
  BY DEF Threads, Inv
<1>2. EngineCalm /\ Like(task') /\ slot' = NoSlot
  BY Unchanged DEF PrepGivesUp
<1>3. thread[Prep].at \in Preparing
  BY DEF PrepGivesUp, At, Preparing
<1>4. Ends(Prep) \/ Goes(Prep, "reporting")
  BY DEF PrepGivesUp
<1>5. Moved(Prep, "done", thread[Prep].op) \/ Moved(Prep, "reporting", thread[Prep].op)
  BY <1>1, <1>4, GoesOn, EndsThere
<1>6. {"done", "reporting"} \cap (MidTurn \cup Preparing) = {}
  BY DEF MidTurn, Preparing
<1> QED
  BY <1>1, <1>2, <1>3, <1>5, <1>6, GivesBack

\* The end of the preparation, with or without a first turn.
LEMMA PrepStartsKeeps == ASSUME Inv, PrepStarts PROVE Inv'
<1>1. Prep \in Threads /\ Shape
  BY DEF Threads, Inv
<1>2. thread[Prep].at \in Preparing /\ slot.of = Prep /\ engine' = engine /\ EngineCalm
  BY Unchanged DEF PrepStarts, At, Preparing, Inv, SlotInv
<1>3. "done" \notin MidTurn \cup Preparing /\ "command" \notin MidTurn \cup Preparing
  BY DEF MidTurn, Preparing
<1>4. CASE /\ slot' = NoSlot /\ Ends(Prep)
           /\ task' = task \/ Emits(Settled("cancelled"))
  <2>1. Like(task')
    BY <1>1, <1>4, Unchanged, LikeSettled DEF Emits
  <2> QED
    BY <1>1, <1>2, <1>3, <1>4, <2>1, EndsThere, GivesBack
<1>5. CASE /\ Launched(First, slot.steers, task, run)
           /\ thread' = [thread EXCEPT ![Prep] = Over(Prep, "done"), ![First] = TurnOf(First)]
  <2>1. Like(task') /\ SlotShape(slot') /\ slot'.of = First
    BY <1>1, <1>5, LikeStatus DEF Launched, SlotFor, SlotShape
  <2> QED
    BY <1>1, <1>2, <1>5, <2>1, Launches
<1>6. CASE /\ task' = [task EXCEPT !.status = "ready"]
           /\ slot' = NoSlot
           /\ thread' = [thread EXCEPT ![Prep].at = "command", ![Prep].steers = slot.steers]
  <2>1. Like(task')
    BY <1>1, <1>6, LikeStatus
  <2>2. Moved(Prep, "command", thread[Prep].op)
    BY <1>1, <1>6, GoesWith
  <2> QED
    BY <1>1, <1>2, <1>3, <1>6, <2>1, <2>2, GivesBack
<1> QED
  BY <1>4, <1>5, <1>6 DEF PrepStarts

\* The preparation goes on with a steer or with the queue.
LEMMA PrepGoesOnKeeps == ASSUME Inv, PrepGoesOn PROVE Inv'
<1>1. Prep \in Threads /\ Prep \notin Items /\ Shape
  BY LocalTasksAssumption DEF Threads, Inv
<1>2. thread[Prep].at = "waiting" /\ engine' = engine /\ EngineCalm
  BY Unchanged DEF PrepGoesOn, At
<1> DEFINE steers == thread[Prep].steers
<1>3. CASE /\ CanLaunch(Prep) /\ Launched(Head(steers), Tail(steers), task, run)
           /\ thread' = [thread EXCEPT ![Prep] = Over(Prep, "done"),
                                      ![Head(steers)] = TurnOf(Head(steers))]
  <2> HIDE DEF steers
  <2>1. Like(task') /\ SlotShape(slot') /\ slot'.of = Head(steers)
    BY <1>1, <1>3, LikeStatus DEF Launched, SlotFor, SlotShape
  <2>2. slot.of = Nobody /\ task.path
    BY <1>3 DEF CanLaunch
  <2> QED
    BY <1>1, <1>2, <1>3, <2>1, <2>2, Launches
<1>4. CASE (Goes(Prep, "next") \/ Ends(Prep)) /\ UNCHANGED <<task, slot>>
  <2>1. SlotKept /\ TaskFine
    BY <1>4, Unchanged, LikeIsFine
  <2>2. Moved(Prep, "next", thread[Prep].op) \/ Moved(Prep, "done", thread[Prep].op)
    BY <1>1, <1>4, GoesOn, EndsThere
  <2> QED
    BY <1>1, <1>2, <2>1, <2>2, Walks DEF Preparing
<1> QED
  BY <1>3, <1>4 DEF PrepGoesOn

-----------------------------------------------------------------------------
(* The thread of a turn. *)

\* The steps within the turn.
LEMMA TurnWorks ==
  ASSUME Inv, NEW i \in Items,
         TurnOpens(i) \/ TurnStarts(i) \/ TurnActivates(i) \/ TurnCancels(i)
           \/ TurnSteers(i) \/ TurnCollects(i) \/ TurnCloses(i)
  PROVE  Inv'
<1>1. i \in Threads /\ Shape
  BY DEF Threads, Inv
<1>2. Like(task')
  BY Unchanged DEF TurnOpens, TurnStarts, TurnActivates, TurnCancels, TurnSteers, TurnCollects,
     TurnCloses
<1>3. EngineRuns(i) => thread[i].at \in WithEngine
  BY DEF Inv, SlotInv
<1>4. CASE TurnOpens(i)
  <2>1. SlotKept /\ EngineCalm /\ thread[i].at = "opening"
    BY <1>4, Unchanged DEF TurnOpens, At
  <2>2. Moved(i, "starting", thread[i].op) \/ Moved(i, "recording", thread[i].op)
    BY <1>1, <1>4, GoesOn DEF TurnOpens
  <2> QED
    BY <1>2, <1>3, <2>1, <2>2, Works DEF EngineCalm, MidTurn, WithEngine
<1>5. CASE TurnStarts(i)
  <2>1. SlotKept /\ thread[i].at = "starting"
    BY <1>5, Unchanged DEF TurnStarts, At
  <2>2. CASE engine' = engine /\ Fails(i)
    BY <1>1, <1>2, <1>3, <2>1, <2>2, Unchanged, GoesOn, Works DEF Fails, EngineCalm, MidTurn, WithEngine
  <2>3. CASE /\ engine' = [engine EXCEPT ![i] = "running"]
             /\ thread' = [thread EXCEPT ![i].at = "started", ![i].item = Nobody]
    <3>1. Moved(i, "started", thread[i].op)
      BY <1>1, <2>3, GoesWith
    <3>2. /\ engine' = [j \in Items |-> engine'[j]]
          /\ \A j \in Items : j # i /\ EngineRuns(j)' => EngineRuns(j)
      BY <1>1, <2>3 DEF Shape, EngineRuns
    <3> QED
      BY <1>2, <2>1, <3>1, <3>2, Works DEF MidTurn, WithEngine
  <2> QED
    BY <1>5, <2>2, <2>3 DEF TurnStarts
<1>6. CASE TurnActivates(i)
  <2>1. SlotKept
    <3>1. ASSUME NEW s, s = [slot EXCEPT !.active = TRUE, !.steers = <<>>]
          PROVE  SlotShape(s) /\ s.of = slot.of
      BY <1>1, <3>1 DEF Shape, SlotShape
    <3> QED
      BY <1>6, <3>1 DEF TurnActivates, SlotKept
  <2>2. EngineCalm /\ thread[i].at = "started"
    BY <1>6, Unchanged DEF TurnActivates, At
  <2>3. Moved(i, "cancelling", thread[i].op) \/ Moved(i, "activated", thread[i].op)
    <3>1. ASSUME NEW at, NEW v, thread' = [thread EXCEPT ![i].at = at, ![i].steers = v]
          PROVE  Moved(i, at, thread[i].op)
      BY <1>1, <3>1, GoesWith
    <3> QED
      BY <1>6, <3>1 DEF TurnActivates
  <2> QED
    BY <1>2, <2>1, <2>2, <2>3, Works DEF EngineCalm, MidTurn, WithEngine
<1>7. CASE TurnCancels(i)
  <2>1. SlotKept /\ thread[i].at = "cancelling"
    BY <1>7, Unchanged DEF TurnCancels, At
  <2>2. EngineCalm
    BY <1>7, EngineStops DEF TurnCancels
  <2>3. Moved(i, "live", thread[i].op)
    BY <1>1, <1>7, GoesOn DEF TurnCancels
  <2> QED
    BY <1>2, <2>1, <2>2, <2>3, Works DEF EngineCalm, MidTurn, WithEngine
<1>8. CASE TurnSteers(i)
  <2>1. SlotKept /\ EngineCalm /\ thread[i].at = "activated"
    BY <1>8, Unchanged DEF TurnSteers, At
  <2>2. \E at \in WithEngine : Moved(i, at, thread[i].op)
    <3>1. ASSUME thread' = [thread EXCEPT ![i].steers = Tail(@)]
          PROVE  Moved(i, thread[i].at, thread[i].op)
      <4>1. ASSUME NEW v, thread' = [thread EXCEPT ![i].steers = v]
            PROVE  Moved(i, thread[i].at, thread[i].op)
        BY <1>1, <4>1 DEF Shape, ThreadShape, Moved
      <4> QED
        BY <3>1, <4>1
    <3> QED
      BY <1>1, <1>8, <2>1, <3>1, GoesOn DEF TurnSteers, Fails, WithEngine
  <2> QED
    BY <1>2, <2>1, <2>2, Works DEF EngineCalm, MidTurn, WithEngine
<1>9. CASE TurnCollects(i)
  <2>1. SlotKept /\ EngineCalm /\ thread[i].at = "live"
    BY <1>9, Unchanged DEF TurnCollects, At
  <2>2. \/ engine[i] \in {"completed", "failed"} /\ Moved(i, "settling", thread[i].op)
        \/ Moved(i, "failing", thread[i].op)
    <3>1. ASSUME NEW v, thread' = [thread EXCEPT ![i].at = "settling", ![i].why = v]
          PROVE  Moved(i, "settling", thread[i].op)
      BY <1>1, <3>1, GoesWith
    <3> QED
      BY <1>1, <1>9, <3>1, GoesOn DEF TurnCollects, Fails
  <2> QED
    BY <1>2, <2>1, <2>2, Works DEF EngineCalm, EngineRuns, MidTurn, WithEngine
<1>10. CASE TurnCloses(i)
  <2>1. SlotKept /\ thread[i].at = "failing"
    BY <1>10, Unchanged DEF TurnCloses, At
  <2>2. EngineCalm /\ ~EngineRuns(i)'
    BY <1>1, <1>10, EngineCalms DEF TurnCloses, EngineRuns, Shape
  <2>3. Moved(i, "recording", thread[i].op)
    BY <1>1, <1>10, GoesOn DEF TurnCloses
  <2> QED
    BY <1>2, <2>1, <2>2, <2>3, Works DEF EngineCalm, MidTurn
<1> QED
  BY <1>4, <1>5, <1>6, <1>7, <1>8, <1>9, <1>10

\* The end of the turn, when its engine no longer runs.
LEMMA TurnEnds == ASSUME Inv, NEW i \in Items, TurnSettles(i) \/ TurnFails(i) PROVE Inv'
<1>1. i \in Threads /\ Shape
  BY DEF Threads, Inv
<1>2. slot' = NoSlot /\ thread[i].at \in {"settling", "recording"}
  BY DEF TurnSettles, TurnFails, At
<1>3. Like(task')
  BY <1>1, LikeSettled DEF TurnSettles, TurnFails, Emits
<1>4. EngineCalm /\ ~EngineRuns(i)'
  <2>1. ~EngineRuns(i)
    BY <1>2 DEF Inv, SlotInv, WithEngine
  <2>2. CASE TurnSettles(i)
    BY <1>1, <2>2, EngineCalms DEF TurnSettles, EngineRuns, Shape
  <2>3. CASE TurnFails(i)
    BY <2>1, <2>3, Unchanged DEF TurnFails, EngineCalm
  <2> QED
    BY <2>2, <2>3
<1>5. Moved(i, "next", thread[i].op) \/ Moved(i, "done", thread[i].op)
  <2>1. CASE TurnFails(i)
    BY <1>1, <2>1, EndsThere DEF TurnFails
  <2>2. ASSUME NEW at PROVE ThreadShape(Over(i, at)) /\ Over(i, at).at = at
                            /\ Over(i, at).op = thread[i].op
    BY DEF Over, Idle, ThreadShape
  <2>3. ASSUME NEW at, thread' = [thread EXCEPT ![i] = Over(i, at)]
        PROVE  Moved(i, at, thread[i].op)
    <3> DEFINE over == Over(i, at)
    <3>1. ThreadShape(over) /\ over.at = at /\ over.op = thread[i].op
      BY <2>2
    <3>2. thread' = [thread EXCEPT ![i] = over]
      BY <2>3
    <3> HIDE DEF over
    <3>3. Moved(i, over.at, over.op)
      BY <1>1, <3>1, <3>2, SetThere
    <3> QED
      BY <3>1, <3>3
  <2>4. CASE TurnSettles(i)
    BY <2>3, <2>4 DEF TurnSettles
  <2> QED
    BY <2>1, <2>4
<1>6. {"next", "done"} \cap (MidTurn \cup Preparing) = {}
  BY DEF MidTurn, Preparing
<1>7. thread[i].at \in MidTurn
  BY <1>2 DEF MidTurn
<1> QED
  BY <1>1, <1>2, <1>3, <1>4, <1>5, <1>6, <1>7, GivesBack

-----------------------------------------------------------------------------
(* The steps that start an instruction. *)

\* A thread that goes on outside the turn and the preparation.
LEMMA WalksOn ==
  ASSUME Inv, NEW r \in Threads, NEW at, Moved(r, at, thread[r].op),
         SlotKept, EngineCalm, Like(task'),
         thread[r].at \notin MidTurn \cup Preparing \cup {"none"},
         at \notin MidTurn \cup Preparing
  PROVE  Inv'
BY LikeIsFine, Walks

\* continue_task and link, and the reservation of run_next_queued.
LEMMA NextBegins ==
  ASSUME Inv, NEW r \in Threads, Links(r) \/ NextReserves(r) \/ NextReads(r) \/ NextTakes(r)
  PROVE  Inv'
<1>1. Shape
  BY DEF Inv
<1>2. SlotKept /\ EngineCalm
  BY Unchanged DEF Links, NextReserves, NextReads, NextTakes
<1>3. Like(task')
  <2>1. ASSUME NEW i PROVE Like(Without(i))
    BY <1>1, LikeQueue DEF Without
  <2> QED
    BY <1>1, <2>1, Unchanged, LikeStatus DEF Links, Linked, NextReserves, NextReads, NextTakes
<1>4. thread[r].at \in {"linking", "next", "reading", "launching"}
  BY DEF Links, NextReserves, NextReads, NextTakes, At
<1>5. \E at \in {"launching", "done", "reading", "linking", "next command", "taken"} :
        Moved(r, at, thread[r].op)
  <2>1. ASSUME NEW i, NEW at,
               thread' = [thread EXCEPT ![r].item = i, ![r].to = Nobody, ![r].at = at]
        PROVE  Moved(r, at, thread[r].op)
    <3>1. ASSUME NEW t, ThreadShape(t), NEW u,
                 u = [t EXCEPT !.item = i, !.to = Nobody, !.at = at]
          PROVE  ThreadShape(u) /\ u.at = at /\ u.op = t.op
      <4>1. u = [op |-> t.op, at |-> at, item |-> i, to |-> Nobody,
                 steers |-> t.steers, index |-> t.index, why |-> t.why]
        BY <3>1 DEF ThreadShape
      <4> QED
        BY <4>1 DEF ThreadShape
    <3>2. thread' = [s \in Threads |->
                       IF s = r THEN [thread[r] EXCEPT !.item = i, !.to = Nobody, !.at = at]
                       ELSE thread[s]]
      BY <1>1, <2>1 DEF Shape
    <3> QED
      BY <1>1, <3>1, <3>2 DEF Shape, Moved
  <2>2. CASE Links(r)
    BY <1>1, <2>2, GoesOn, EndsThere DEF Links, Leaves
  <2>3. CASE NextReserves(r)
    BY <1>1, <2>3, GoesOn, EndsThere DEF NextReserves, Leaves
  <2>4. CASE NextReads(r)
    BY <1>1, <2>1, <2>4, EndsThere DEF NextReads, Leaves, Follows
  <2>5. CASE NextTakes(r)
    BY <1>1, <2>5, GoesOn, EndsThere DEF NextTakes, Leaves
  <2> QED
    BY <2>2, <2>3, <2>4, <2>5
<1> QED
  BY <1>2, <1>3, <1>4, <1>5, WalksOn DEF MidTurn, Preparing

\* run_immediate, for a caller, the preparation or the queue.
LEMMA CommandKeeps ==
  ASSUME Inv, NEW r \in Threads, CommandRuns(r) \/ NextCommand(r)
  PROVE  Inv'
<1>1. Shape
  BY DEF Inv
<1>2. SlotKept /\ EngineCalm
  BY Unchanged DEF CommandRuns, NextCommand
<1>3. Like(task')
  <2>1. CASE CommandRuns(r)
    BY <1>1, <2>1, Unchanged, LikeSettled DEF CommandRuns, Emits
  <2>2. CASE NextCommand(r)
    BY <1>1, <2>2, Unchanged, LikeQueue DEF NextCommand
  <2> QED
    BY <2>1, <2>2
<1>4. thread[r].at \in {"command", "next command"}
  BY DEF CommandRuns, NextCommand, At
<1>5. \E at \in {"waiting", "done", "reading"} : Moved(r, at, thread[r].op)
  <2>1. ASSUME NEW at, thread' = [thread EXCEPT ![r].at = at, ![r].item = Nobody]
        PROVE  Moved(r, at, thread[r].op)
    BY <1>1, <2>1, GoesWith
  <2>2. CASE CommandRuns(r)
    BY <1>1, <2>1, <2>2, EndsThere DEF CommandRuns
  <2>3. CASE NextCommand(r)
    BY <1>1, <2>1, <2>3, EndsThere DEF NextCommand, Leaves
  <2> QED
    BY <2>2, <2>3
<1> QED
  BY <1>2, <1>3, <1>4, <1>5, WalksOn DEF MidTurn, Preparing

\* _submit_turn starts a turn where its checks allow it.
LEMMA SubmitTurn ==
  ASSUME Inv, NEW r \in Threads, NEW i, NEW from, CanLaunch(r),
         Launched(i, <<>>, task, from), engine' = engine,
         thread' = [thread EXCEPT ![r] = Over(r, "done"), ![i] = TurnOf(i)]
  PROVE  Inv'
<1>1. SlotShape(slot') /\ slot'.of = i
  BY DEF Launched, SlotFor, SlotShape
<1>2. Like(task')
  BY LikeStatus DEF Inv, Launched
<1> QED
  BY <1>1, <1>2, Launches DEF CanLaunch

\* The instruction taken from the queue starts, or goes back.
LEMMA NextLaunchesKeeps == ASSUME Inv, NEW r \in Threads, NextLaunches(r) PROVE Inv'
<1>1. Shape /\ EngineCalm /\ thread[r].at = "taken" /\ engine' = engine
  BY Unchanged DEF Inv, NextLaunches, At
<1>2. CASE CanLaunch(r) /\ task.there
  BY <1>1, <1>2, SubmitTurn DEF NextLaunches
<1>3. CASE ~(task.there /\ CanLaunch(r))
  <2>1. SlotKept /\ Moved(r, "done", thread[r].op)
    BY <1>1, <1>3, Unchanged, EndsThere DEF NextLaunches, Leaves
  <2>2. Like(task')
    BY <1>1, <1>3, Unchanged, LikeQueue DEF NextLaunches
  <2> QED
    BY <1>1, <2>1, <2>2, WalksOn DEF MidTurn, Preparing
<1> QED
  BY <1>2, <1>3

-----------------------------------------------------------------------------
(* The calls of the API. *)

\* The thread of a call owns no slot.
LEMMA CallWalks ==
  ASSUME Inv, NEW c \in Callers, NEW at, NEW op, Moved(c, at, op),
         SlotKept, EngineCalm, TaskFine
  PROVE  Inv'
BY LocalTasksAssumption, Walks DEF Threads

\* A call begins with a record of its own.
LEMMA CallRecord ==
  ASSUME NEW op, NEW at, NEW i, NEW k, NEW t,
         \/ t = [Idle(op) EXCEPT !.at = at]
         \/ t = [Idle(op) EXCEPT !.at = at, !.item = i]
         \/ t = [Idle(op) EXCEPT !.at = at, !.to = i]
         \/ t = [Idle(op) EXCEPT !.at = at, !.item = i, !.index = k]
  PROVE  ThreadShape(t)
BY DEF Idle, ThreadShape

\* The records of a call that begins.
LEMMA CallRecords ==
  ASSUME NEW op, NEW at, NEW i, NEW k
  PROVE  /\ ThreadShape([Idle(op) EXCEPT !.at = at])
         /\ ThreadShape([Idle(op) EXCEPT !.at = at, !.item = i])
         /\ ThreadShape([Idle(op) EXCEPT !.at = at, !.to = i])
         /\ ThreadShape([Idle(op) EXCEPT !.at = at, !.item = i, !.index = k])
BY Zenon, CallRecord

\* A call that begins and changes nothing else.
LEMMA CallStarts ==
  ASSUME Inv, NEW c \in Callers, NEW t, ThreadShape(t), thread' = [thread EXCEPT ![c] = t],
         SlotKept, EngineCalm, Like(task')
  PROVE  Inv'
<1>1. c \in Threads /\ Shape
  BY DEF Threads, Inv
<1>2. Moved(c, t.at, t.op)
  BY <1>1, SetThere
<1> QED
  BY <1>2, CallWalks, LikeIsFine

\* Calls that only look before they go on.
LEMMA CallAsks ==
  ASSUME Inv, NEW c \in Callers,
         Submit(c) \/ CallNext(c) \/ Steer(c) \/ Maintain(c) \/ Answer(c) \/ Promote(c)
           \/ Queue(c) \/ RemoveQueued(c)
  PROVE  Inv'
<1>1. Shape /\ SlotKept /\ EngineCalm
  BY Unchanged DEF Inv, Submit, CallNext, Steer, Maintain, Answer, Promote, Queue, RemoveQueued
<1>2. Like(task')
  <2>1. ASSUME NEW i PROVE Like(Without(i)) /\ Like([task EXCEPT !.queue = Append(@, i)])
    BY <1>1, LikeQueue DEF Without
  <2>2. CASE Answer(c)
    BY <1>1, <2>2, Unchanged, LikeQuestionClosed DEF Answer, Closes, Emits
  <2> QED
    BY <1>1, <2>1, <2>2, Unchanged
       DEF Submit, CallNext, Steer, Maintain, Promote, Queue, RemoveQueued, Emits
<1>3. ASSUME NEW op, NEW at, NEW i, Begins(c, op, at, i) PROVE Inv'
  BY Zenon, <1>1, <1>2, <1>3, CallStarts, CallRecords DEF Begins
<1>4. ASSUME NEW op, NEW at, thread' = [thread EXCEPT ![c] = [Idle(op) EXCEPT !.at = at]]
      PROVE  Inv'
  BY Zenon, <1>1, <1>2, <1>4, CallStarts, CallRecords
<1>5. ASSUME NEW i,
             thread' = [thread EXCEPT ![c] = [Idle("next") EXCEPT !.at = "next", !.to = i]]
      PROVE  Inv'
  BY Zenon, <1>1, <1>2, <1>5, CallStarts, CallRecords
<1>6. ASSUME NEW i, NEW k,
             thread' = [thread EXCEPT ![c] =
               [Idle("promote") EXCEPT !.at = "looking", !.item = i, !.index = k]]
      PROVE  Inv'
  BY Zenon, <1>1, <1>2, <1>6, CallStarts, CallRecords
<1>7. CASE Submit(c) \/ Steer(c) \/ Maintain(c)
  BY <1>3, <1>7 DEF Submit, Steer, Maintain
<1>8. CASE Answer(c)
  BY Zenon, <1>3, <1>4, <1>8 DEF Answer
<1>9. CASE CallNext(c)
  BY Zenon, <1>5, <1>9 DEF CallNext
<1>10. CASE Promote(c)
  BY Zenon, <1>6, <1>10 DEF Promote
<1>11. CASE Queue(c) \/ RemoveQueued(c)
  BY Zenon, <1>4, <1>11 DEF Queue, RemoveQueued
<1> QED
  BY <1>7, <1>8, <1>9, <1>10, <1>11

\* cancel and delete_session flag the slot.
LEMMA CallFlags == ASSUME Inv, NEW c \in Callers, Cancel(c) \/ Delete(c) PROVE Inv'
<1>1. EngineCalm /\ Like(task')
  BY Unchanged DEF Cancel, Delete
<1>2. SlotKept
  <2>1. ASSUME NEW s, s = [slot EXCEPT !.cancel = TRUE, !.gone = TRUE]
        PROVE  SlotShape(s) /\ s.of = slot.of
    BY <2>1 DEF Inv, Shape, SlotShape
  <2> QED
    BY <2>1, Unchanged, SlotFlags DEF Cancel, Delete, SlotKept
<1>3. ASSUME NEW at, NEW i, Begins(c, "delete", at, i) PROVE Inv'
  BY Zenon, <1>1, <1>2, <1>3, CallStarts, CallRecords DEF Begins
<1>4. ASSUME NEW i,
             thread' = [thread EXCEPT ![c] = [Idle("cancel") EXCEPT !.at = "sweeping", !.to = i]]
      PROVE  Inv'
  BY Zenon, <1>1, <1>2, <1>4, CallStarts, CallRecords
<1> QED
  BY Zenon, <1>3, <1>4 DEF Cancel, Delete

\* Steps of a call that leave the slot and the engine as they are.
LEMMA CallGoesOn ==
  ASSUME Inv, NEW c \in Callers,
         AnswerRecorded(c) \/ Looks(c) \/ Sends(c) \/ Refused(c) \/ CancelSweeps(c)
           \/ SessionLock(c) \/ Reserves(c) \/ ConfigChanges(c) \/ DeleteCleans(c)
  PROVE  Inv'
<1>1. c \in Threads /\ Shape /\ SlotKept /\ EngineCalm
  BY Unchanged DEF Threads, Inv, AnswerRecorded, Looks, Sends, Refused, CancelSweeps, SessionLock,
     Reserves, ConfigChanges, DeleteCleans
<1>2. Like(task')
  <2>1. CASE AnswerRecorded(c)
    BY <1>1, <2>1, Unchanged, LikeCardClosed DEF AnswerRecorded, Closes, Emits
  <2>2. CASE Refused(c)
    BY <1>1, <2>2, Unchanged, LikeQueue DEF Refused
  <2>3. CASE CancelSweeps(c)
    BY <1>1, <2>3, LikeSweeps DEF CancelSweeps
  <2> QED
    BY <2>1, <2>2, <2>3, Unchanged DEF Looks, Sends, SessionLock, Reserves, ConfigChanges, DeleteCleans
<1>3. Ends(c) \/ \E at : Goes(c, at)
  BY Zenon DEF AnswerRecorded, Looks, Sends, Refused, CancelSweeps, SessionLock, Reserves,
     ConfigChanges, DeleteCleans
<1> QED
  BY <1>1, <1>2, <1>3, GoesOn, EndsThere, LikeIsFine, CallWalks

\* route_steer: a follow-up for the slot.
LEMMA CallRoutes == ASSUME Inv, NEW c \in Callers, Routes(c) PROVE Inv'
<1>1. c \in Threads /\ Shape /\ EngineCalm /\ Like(task')
  BY Unchanged DEF Threads, Inv, Routes
<1>2. SlotKept
  <2>1. ASSUME NEW i PROVE slot' = [slot EXCEPT !.steers = Append(@, i)] => SlotKept
    BY SlotFlags
  <2> QED
    BY <2>1, Unchanged DEF Routes
<1>3. \E at : Moved(c, at, thread[c].op)
  <2>1. ASSUME NEW i, thread' = [thread EXCEPT ![c].at = "sending", ![c].to = i]
        PROVE  Moved(c, "sending", thread[c].op)
    BY <1>1, <2>1, GoesWith
  <2> QED
    BY <1>1, <2>1, GoesOn, EndsThere DEF Routes
<1> QED
  BY <1>1, <1>2, <1>3, LikeIsFine, CallWalks

\* cancel, once the engine is told.
LEMMA CallTells == ASSUME Inv, NEW c \in Callers, CancelTells(c) PROVE Inv'
<1>1. c \in Threads /\ Shape /\ SlotKept /\ Like(task') /\ Ends(c)
  BY Unchanged DEF Threads, Inv, CancelTells
<1>2. EngineCalm
  BY Unchanged, EngineStops DEF CancelTells
<1> QED
  BY <1>1, <1>2, EndsThere, LikeIsFine, CallWalks

\* delete_session, once the record is gone.
LEMMA CallErases == ASSUME Inv, NEW c \in Callers, DeleteErases(c) PROVE Inv'
<1>1. c \in Threads /\ Shape /\ SlotKept /\ EngineCalm /\ Ends(c)
  BY Unchanged DEF Threads, Inv, DeleteErases
<1>2. TaskFine
  <2>1. ASSUME NEW t, t = [task EXCEPT !.there = FALSE, !.path = FALSE, !.queue = <<>>,
                                       !.card = Nobody, !.question = Nobody]
        PROVE  TaskShape(t) /\ ~t.there /\ ~t.path
    <3>1. t = [there |-> FALSE, status |-> task.status, path |-> FALSE, queue |-> <<>>,
               card |-> Nobody, question |-> Nobody]
      BY <1>1, <2>1 DEF Shape, TaskShape
    <3> QED
      BY <3>1 DEF TaskShape
  <2> QED
    BY <2>1 DEF DeleteErases, TaskFine
<1> QED
  BY <1>1, <1>2, EndsThere, CallWalks

\* submit_turn and submit_mode_turn start a turn, a command or nothing.
LEMMA CallLaunches ==
  ASSUME Inv, NEW c \in Callers, SubmitLaunches(c) \/ ModeLaunches(c)
  PROVE  Inv'
<1>1. c \in Threads /\ Shape /\ engine' = engine /\ EngineCalm
  BY Unchanged DEF Threads, Inv, SubmitLaunches, ModeLaunches
<1>2. CASE task' = task /\ slot' = slot /\ (Ends(c) \/ Goes(c, "command"))
  BY <1>1, <1>2, Unchanged, GoesOn, EndsThere, LikeIsFine, CallWalks
<1>3. ASSUME NEW i, NEW from, CanLaunch(c), Launched(i, <<>>, task, from),
             thread' = [thread EXCEPT ![c] = Over(c, "done"), ![i] = TurnOf(i)]
      PROVE  Inv'
  BY <1>1, <1>3, SubmitTurn
<1>4. CASE SubmitLaunches(c)
  BY Zenon, <1>2, <1>3, <1>4 DEF SubmitLaunches
<1>5. CASE ModeLaunches(c)
  BY Zenon, <1>2, <1>3, <1>5 DEF ModeLaunches
<1> QED
  BY <1>4, <1>5

-----------------------------------------------------------------------------
(* Every step. *)

\* Every step keeps the invariant.
LEMMA NextInv == Inv /\ [Next]_vars => Inv'
<1> SUFFICES ASSUME Inv, [Next]_vars PROVE Inv'
  OBVIOUS
<1>1. CASE Create
  BY <1>1, CreateKeeps
<1>2. CASE PrepSteps
  BY <1>2, PrepWalks, PrepGivesUpKeeps, PrepStartsKeeps, PrepGoesOnKeeps DEF PrepSteps
<1>3. CASE QuitMarks \/ QuitSteps
  BY <1>3, QuitKeeps, GoneKeeps DEF QuitSteps, Exit
<1>4. CASE Crash
  BY <1>4, GoneKeeps DEF Crash
<1>5. CASE Boot
  BY <1>5, BootKeeps
<1>6. ASSUME NEW i \in Items, TurnSteps(i) PROVE Inv'
  BY <1>6, TurnWorks, TurnEnds DEF TurnSteps
<1>7. ASSUME NEW i \in Items, AskArrives(i) \/ AskSteps(i) PROVE Inv'
  BY <1>7, AskKeeps
<1>8. ASSUME NEW i \in Items, EngineEnds(i) \/ EngineWatched(i) \/ EngineDies(i) PROVE Inv'
  BY <1>8, EngineKeeps
<1>9. ASSUME NEW r \in Threads, NextSteps(r) PROVE Inv'
  BY <1>9, NextBegins, CommandKeeps, NextLaunchesKeeps DEF NextSteps
<1>10. ASSUME NEW c \in Callers, CallBegins(c) PROVE Inv'
  BY <1>10, CallAsks, CallFlags DEF CallBegins
<1>11. ASSUME NEW c \in Callers, CallSteps(c) PROVE Inv'
  BY <1>11, CallGoesOn, CallRoutes, CallTells, CallErases, CallLaunches DEF CallSteps
<1>12. CASE UNCHANGED vars
  BY <1>12, Unchanged, Stays DEF vars
<1> QED
  BY <1>1, <1>2, <1>3, <1>4, <1>5, <1>6, <1>7, <1>8, <1>9, <1>10, <1>11, <1>12 DEF Next

\* Two engines that run are those of two threads in their turn, and the slot
\* is only one thread's.
LEMMA InvOneTurn == Inv => OneTurn
BY DEF Inv, SlotInv, OneTurn, EngineRuns, MidTurn, WithEngine

\* Whatever calls, faults, shutdowns and crashes a task meets, and whoever
\* starts its next turn (_submit_turn, run_next_queued, submit_mode_turn or
\* _prepare_and_start), one engine turn of it runs at a time: the slot is
\* taken in the step that checks it, and TurnExecutor.execute gives it back
\* after its engine.
THEOREM OneTurnAtATime == Spec => []OneTurn
<1>1. Spec => []Inv
  BY InitInv, NextInv, PTL DEF Spec
<1> QED
  BY <1>1, InvOneTurn, PTL

=============================================================================
