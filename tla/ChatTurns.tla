----------------------------- MODULE ChatTurns -----------------------------
(***************************************************************************)
(* The turns of one conversation on a server with file buffers: the        *)
(* registry that admits a turn (streaming/registry.py), the producer that  *)
(* saves its question and its answer and writes its stream                 *)
(* (handlers/responses.py), the buffer files and their readers             *)
(* (streaming/buffer.py), the delete of a turn (services/conversations.py),*)
(* shutdown, crashes and the recovery of a boot (streaming/recovery.py).   *)
(*                                                                         *)
(* A step is what runs between two awaits of the event loop, one statement *)
(* of the thread a database unit or a delete runs in, or one database      *)
(* commit.  A turn is routed to the router's direct answer or to the       *)
(* agent.  Hidden tool rows are part of the answer's row.                  *)
(***************************************************************************)
EXTENDS Naturals, Sequences, FiniteSets, SequencesExt, FiniteSetsExt

CONSTANTS
  Turns,        \* the POSTs to /responses
  NoTurn,
  Routes,       \* how a turn may be answered: "direct" by the router, "agent"
  MaxFrames,    \* bound on the frames of a turn before its final one
  MaxStops,     \* bound on the calls of /cancel
  MaxDeletes,   \* bound on the deletes of a turn
  MaxCrashes,   \* bound on the ends of the process
  MaxTimeouts,  \* bound on the firings of the idle watchdog
  Faults        \* what may fail: "busy" no database connection, "split" the
                \* second commit of a direct answer, "escape" the error handler

ASSUME ChatTurnsAssumption ==
  /\ NoTurn \notin Turns
  /\ {MaxFrames, MaxStops, MaxDeletes, MaxCrashes, MaxTimeouts} \subseteq Nat
  /\ Routes \subseteq {"agent", "direct"}
  /\ Faults \subseteq {"busy", "split", "escape"}

VARIABLES
  turn,      \* each turn's handle, lifecycle, producer and buffer object
  current,   \* RunRegistry._by_cid: the conversation's handle
  writer,    \* the turn that holds conversation_writes
  rows,      \* the conversation's messages, in order
  files,     \* turn number -> the buffer file of that name
  data,      \* the records of a file
  reader,    \* the tail of each turn's own response
  deletion,  \* how far the delete thread is
  server,    \* how far the process is in its boot or shutdown
  spent,     \* how much of the bounds is used
  excused    \* history: turns whose last save, or whose recovery, failed

vars == <<turn, current, writer, rows, files, data, reader, deletion, server,
          spent, excused>>

Numbers == 0..(2 * Cardinality(Turns))

Reasons == {"completed", "cancelled", "interrupted", "error"}

\* A file is named by the turn that created it.  A producer keeps its file
\* open, so it writes on after the file's name is gone.
NoFile == NoTurn

\* TurnLifecycle, RunHandle and the locals of the producer.  `at' is where the
\* producer waits and `unit' how far its database unit is.
Turn ==
  [at: {"none", "gate", "unstarted", "asking", "answering", "saving", "framing",
        "ended", "dead", "lost", "refused"},
   num: Numbers, route: {"agent", "direct"},
   unit: {"none", "queued", "checked", "half", "saved", "skipped", "failed"},
   why: Reasons, sent: 0..MaxFrames, file: Turns \cup {NoFile},
   cancel: BOOLEAN, doomed: BOOLEAN, saved: BOOLEAN, closed: BOOLEAN,
   discarded: BOOLEAN, shutting: BOOLEAN, timedOut: BOOLEAN, stalled: BOOLEAN]

NewTurn ==
  [at |-> "none", num |-> 0, route |-> "agent", unit |-> "none",
   why |-> "completed", sent |-> 0, file |-> NoFile, cancel |-> FALSE,
   doomed |-> FALSE, saved |-> FALSE, closed |-> FALSE, discarded |-> FALSE,
   shutting |-> FALSE, timedOut |-> FALSE, stalled |-> FALSE]

\* A turn that is over: what nothing looks at any more is forgotten.
Over(x, at) ==
  [NewTurn EXCEPT !.at = at, !.num = x.num, !.file = x.file, !.saved = x.saved,
                  !.closed = x.closed, !.discarded = x.discarded,
                  !.shutting = x.shutting, !.doomed = x.doomed]

\* Message: `ended' is the terminal event among an answer's events.
Row == [turn: Turns, role: {"user", "assistant"}, pending: BOOLEAN,
        ended: {"none", "completed", "failed"}]

\* TurnRecord: a client frame, a final client frame, or a terminal record.
Terminals == Reasons \cup {"restart"}

Record == [turn: Turns \cup {NoTurn},
           kind: {"frame", "sse_completed", "sse_failed"} \cup Terminals]

\* sse_from_buffer over FileStreamBuffer.tail; `off' is the reader's offset in
\* the file, `foreign' whether it has read another turn's record while the
\* server was not past its shutdown.
Reader == [at: {"none", "open", "done", "cut"}, off: Nat, foreign: BOOLEAN,
           term: BOOLEAN]

\* RunHandle.is_running.
Live(t) ==
  turn[t].at \in {"unstarted", "asking", "answering", "saving", "framing"}

\* RunHandle.is_answering: "framing" is StreamBuffer.is_finishing.
Answering(t) == Live(t) /\ turn[t].at # "framing" /\ ~turn[t].closed

Up == server \notin {"down", "sealing"}

-----------------------------------------------------------------------------
(* The buffer. *)

\* The records `kinds' of t written at the end of its open file; a file
\* without a name is nobody's to read.
Written(t, kinds) ==
  LET f == turn[t].file IN
  IF files[turn[t].num] = f
  THEN [data EXCEPT ![f] = @ \o [i \in DOMAIN kinds |-> [turn |-> t, kind |-> kinds[i]]]]
  ELSE data

\* FileStreamBuffer.__init__ truncates what a turn at the number left.
Cleared(f) == <<>>

\* FileStreamBuffer.tail: what is new in the file of that name.
Unread(t) ==
  LET f == files[turn[t].num]
      d == IF f = NoFile THEN <<>> ELSE data[f]
  IN SubSeq(d, reader[t].off + 1, Len(d))

Read(t) ==
  LET new == Unread(t)
      ends == \E i \in DOMAIN new : new[i].kind \in Terminals
  IN /\ Up /\ reader[t].at = "open"
     /\ new # <<>> \/ turn[t].closed
     /\ reader' = [reader EXCEPT
          ![t].at = IF ends \/ turn[t].closed THEN "done" ELSE "open",
          ![t].off = IF ends \/ turn[t].closed THEN 0 ELSE @ + Len(new),
          ![t].foreign = @ \/ (server # "stopped" /\ \E i \in DOMAIN new : new[i].turn # t),
          ![t].term = @ \/ ends]
     /\ UNCHANGED <<turn, current, writer, rows, files, data, deletion, server,
                    spent, excused>>

-----------------------------------------------------------------------------
(* Admission. *)

MessageCount == Len(rows)

\* _refuse_while_answering, then _read_turn_start: the turn's number is the
\* message count.  The routing gate runs next.
Post(t, r) ==
  /\ Up /\ turn[t].at = "none"
  /\ turn' = [turn EXCEPT ![t] =
       IF current # NoTurn /\ Answering(current) THEN [@ EXCEPT !.at = "refused"]
       ELSE [@ EXCEPT !.at = "gate", !.num = MessageCount, !.route = r]]
  /\ UNCHANGED <<current, writer, rows, files, data, reader, deletion, server,
                 spent, excused>>

\* Mutant of Refused: a start that names an ended turn's number is admitted.
RefusedWhileAnswering(t) == current # NoTurn /\ Answering(current)

\* RunRegistry.start raises TurnInProgress.
Refused(t) ==
  /\ current # NoTurn
  /\ \/ Answering(current)
     \/ turn[current].saved /\ turn[t].num <= turn[current].num

\* RunRegistry.start: the wait for a turn that writes its terminal record is
\* the third conjunct.  With file buffers it is the only await.
Start(t) ==
  LET n == turn[t].num
      f == IF files[n] = NoFile THEN t ELSE files[n]
  IN /\ Up /\ turn[t].at = "gate"
     /\ Refused(t) \/ ~(current # NoTurn /\ turn[current].at = "framing")
     /\ IF Refused(t)
        THEN /\ turn' = [turn EXCEPT ![t] = [NewTurn EXCEPT !.at = "refused"]]
             /\ UNCHANGED <<current, files, data, reader>>
        ELSE /\ files' = [files EXCEPT ![n] = f]
             /\ data' = [data EXCEPT ![f] = Cleared(f)]
             /\ turn' = [turn EXCEPT ![t].at = "unstarted", ![t].file = f]
             /\ current' = t
             /\ reader' = [reader EXCEPT ![t].at = "open"]
     /\ UNCHANGED <<writer, rows, deletion, server, spent, excused>>

-----------------------------------------------------------------------------
(* The producer on the event loop. *)

\* The first step of the turn's task; one that is cancelled before it never
\* runs its body.
Begin(t) ==
  /\ Up /\ turn[t].at = "unstarted"
  /\ turn' = [turn EXCEPT ![t] =
       IF turn[t].cancel THEN Over(@, "dead")
       ELSE [@ EXCEPT !.at = IF turn[t].route = "direct" THEN "saving" ELSE "asking",
                      !.unit = "queued"]]
  /\ UNCHANGED <<current, writer, rows, files, data, reader, deletion, server,
                 spent, excused>>

\* A frame of the harness, dropped once the turn is deleted.
Emit(t) ==
  /\ Up /\ turn[t].at = "answering" /\ ~turn[t].discarded
  /\ turn[t].sent < MaxFrames /\ Len(data[turn[t].file]) < MaxFrames
  /\ turn' = [turn EXCEPT ![t].sent = @ + 1]
  /\ data' = Written(t, <<"frame">>)
  /\ UNCHANGED <<current, writer, rows, files, reader, deletion, server, spent,
                 excused>>

\* A frame of the model-wait ticker or of the first take, which write beside
\* the producer and do not look at the delete.
SideFrame(t) ==
  /\ Up /\ turn[t].route = "agent" /\ turn[t].at \in {"answering", "saving"}
  /\ Len(data[turn[t].file]) < MaxFrames
  /\ data' = Written(t, <<"frame">>)
  /\ UNCHANGED <<turn, current, writer, rows, files, reader, deletion, server,
                 spent, excused>>

\* finish and end_turn call persist, which saves nothing for a question that
\* was never saved.
Ending(x, why, asked) ==
  [x EXCEPT !.at = "saving", !.why = why, !.cancel = FALSE,
            !.unit = IF asked THEN "queued" ELSE "saved"]

\* The CancelledError branch of _run_turn: a deleted turn is dropped.
Unwound(x, asked) ==
  IF x.discarded THEN Over(x, "ended")
  ELSE Ending(x, IF x.shutting \/ x.timedOut \/ x.stalled THEN "interrupted"
                 ELSE "cancelled", asked)

\* The harness ends, raises, or sees the cancel; it may also swallow the cancel.
HarnessEnds(t) ==
  /\ Up /\ turn[t].at = "answering"
  /\ \/ \E why \in {"completed", "error"} :
          turn' = [turn EXCEPT ![t] = Ending(@, why, TRUE)]
     \/ /\ turn[t].cancel
        /\ turn' = [turn EXCEPT ![t] = Unwound(@, TRUE)]
     \/ /\ turn[t].cancel
        /\ turn' = [turn EXCEPT ![t].cancel = FALSE]
  /\ UNCHANGED <<current, writer, rows, files, data, reader, deletion, server,
                 spent, excused>>

-----------------------------------------------------------------------------
(* The database units. *)

\* A unit starts in its thread once its turn holds conversation_writes and a
\* connection is free, and looks whether the turn was deleted.
UnitStarts(t) ==
  /\ Up /\ Live(t) /\ turn[t].unit = "queued" /\ writer = NoTurn
  /\ \/ /\ turn' = [turn EXCEPT ![t].unit = IF turn[t].discarded THEN "skipped" ELSE "checked"]
        /\ writer' = t
        /\ UNCHANGED excused
     \/ /\ "busy" \in Faults
        /\ turn' = [turn EXCEPT ![t].unit = "failed"]
        /\ excused' = excused \cup {t}
        /\ UNCHANGED writer
  /\ UNCHANGED <<current, rows, files, data, reader, deletion, server, spent>>

Question(t, pending) ==
  [turn |-> t, role |-> "user", pending |-> pending, ended |-> "none"]

Answer(t, ended) ==
  [turn |-> t, role |-> "assistant", pending |-> FALSE, ended |-> ended]

\* clear_pending with the id of the turn's question.
Settled(rs, t) ==
  [i \in DOMAIN rs |-> IF rs[i].turn = t THEN [rs[i] EXCEPT !.pending = FALSE] ELSE rs[i]]

\* The terminal event among the events persist saves; a Stop adds none.
EventOf(why) ==
  CASE why = "completed" -> "completed"
    [] why = "cancelled" -> "none"
    [] OTHER -> "failed"

\* _save_answer: a turn without text and events saves no row.
AnswerRows(t) ==
  IF turn[t].why = "cancelled" /\ turn[t].sent = 0 THEN Settled(rows, t)
  ELSE Append(Settled(rows, t), Answer(t, EventOf(turn[t].why)))

\* The commits of _start_turn, of _save_answer, and the two commits of a direct
\* answer, the second of which may fail.
UnitCommits(t) ==
  /\ Up /\ Live(t) /\ turn[t].unit \in {"checked", "half"}
  /\ \/ /\ turn[t].at = "asking"
        /\ rows' = Append(rows, Question(t, TRUE))
        /\ turn' = [turn EXCEPT ![t].unit = "saved"]
     \/ /\ turn[t].at = "saving" /\ turn[t].route = "agent"
        /\ rows' = AnswerRows(t)
        /\ turn' = [turn EXCEPT ![t].unit = "saved"]
     \/ /\ turn[t].route = "direct" /\ turn[t].unit = "checked"
        /\ rows' = Append(rows, Question(t, FALSE))
        /\ turn' = [turn EXCEPT ![t].unit = "half"]
     \/ /\ turn[t].unit = "half"
        /\ rows' = Append(rows, Answer(t, "completed"))
        /\ turn' = [turn EXCEPT ![t].unit = "saved"]
     \/ /\ turn[t].unit = "half" /\ "split" \in Faults
        /\ rows' = rows
        /\ turn' = [turn EXCEPT ![t].unit = "failed"]
  /\ UNCHANGED <<current, writer, files, data, reader, deletion, server, spent,
                 excused>>

\* Mutant of Released: the turn goes on with the lock held.
HeldOn(t) == writer

Released(t) == IF writer = t THEN NoTurn ELSE writer

\* _run_turn goes on after start(): the question is saved, the turn was
\* deleted, or the unit raised.  A cancel that waited is raised first.
Asked(t) ==
  LET x == [turn[t] EXCEPT !.saved = (turn[t].unit = "saved"), !.unit = "none"]
      ok == turn[t].unit = "saved"
  IN /\ Up /\ turn[t].at = "asking" /\ turn[t].unit \in {"saved", "skipped", "failed"}
     /\ turn' = [turn EXCEPT ![t] =
          IF x.cancel THEN Unwound(x, ok)
          ELSE IF turn[t].unit = "skipped" THEN Over(x, "ended")
          ELSE IF ok THEN [x EXCEPT !.at = "answering"]
          ELSE Ending(x, "error", FALSE)]
     /\ writer' = Released(t)
     /\ UNCHANGED <<current, rows, files, data, reader, deletion, server, spent,
                    excused>>

\* Mutant of EndReason: a Stop, or an answer, whose save failed ends as if saved.
EndReasonUnchecked(x) == x.why

\* How the stream ends once persist has returned (finish, end_turn, and
\* answer() with its handlers for a direct turn).
EndReason(x) ==
  IF x.unit # "failed" THEN x.why
  ELSE IF x.route = "direct" THEN IF x.cancel THEN "cancelled" ELSE "error"
  ELSE IF x.why \in {"completed", "cancelled"} THEN "error"
  ELSE x.why

\* The end of finish, of end_turn and of answer(): nothing for a deleted turn,
\* else the final frame.  A Stop has none: its terminal record is written.
Reported(t) ==
  LET x == turn[t]
      why == EndReason(x)
      y == [x EXCEPT !.why = why, !.unit = "none",
                     !.saved = @ \/ (x.route = "direct" /\ x.unit = "saved")]
  IN /\ Up /\ x.at = "saving" /\ x.unit \in {"saved", "skipped", "failed"}
     /\ IF x.discarded
        THEN /\ turn' = [turn EXCEPT ![t] = Over(y, "ended")]
             /\ UNCHANGED data
        ELSE IF why = "cancelled"
        THEN /\ turn' = [turn EXCEPT ![t] = Over([y EXCEPT !.closed = TRUE], "ended")]
             /\ data' = Written(t, <<why>>)
        ELSE /\ turn' = [turn EXCEPT ![t] = [y EXCEPT !.at = "framing"]]
             /\ data' = Written(t, <<IF why = "completed" THEN "sse_completed" ELSE "sse_failed">>)
     /\ writer' = Released(t)
     /\ UNCHANGED <<current, rows, files, reader, deletion, server, spent, excused>>

\* Mutant of Close: the terminal record of a failed turn is left out.
CloseCompleted(t) ==
  /\ Up /\ turn[t].at = "framing"
  /\ IF turn[t].why = "completed"
     THEN /\ turn' = [turn EXCEPT ![t] = Over([@ EXCEPT !.closed = TRUE], "ended")]
          /\ data' = Written(t, <<turn[t].why>>)
     ELSE /\ turn' = [turn EXCEPT ![t] = Over(@, "ended")]
          /\ UNCHANGED data
  /\ UNCHANGED <<current, writer, rows, files, reader, deletion, server, spent,
                 excused>>

\* FileStreamBuffer.close.
Close(t) ==
  /\ Up /\ turn[t].at = "framing"
  /\ turn' = [turn EXCEPT ![t] = Over([@ EXCEPT !.closed = TRUE], "ended")]
  /\ data' = Written(t, <<turn[t].why>>)
  /\ UNCHANGED <<current, writer, rows, files, reader, deletion, server, spent,
                 excused>>

\* An exception escapes the error handler; _seal_unterminated_buffer.
Escape(t) ==
  /\ Up /\ "escape" \in Faults /\ turn[t].at = "answering"
  /\ IF turn[t].discarded
     THEN /\ turn' = [turn EXCEPT ![t] = Over(@, "ended")]
          /\ UNCHANGED data
     ELSE /\ turn' = [turn EXCEPT ![t].at = "framing", ![t].why = "error"]
          /\ data' = Written(t, <<"sse_failed">>)
  /\ excused' = excused \cup {t}
  /\ UNCHANGED <<current, writer, rows, files, reader, deletion, server, spent>>

-----------------------------------------------------------------------------
(* Who ends a turn from outside. *)

\* /cancel: the Stop button, or the client that heard nothing for too long.
Stop(t, stalled) ==
  /\ Up /\ current = t /\ Live(t) /\ spent.stops < MaxStops
  /\ turn' = [turn EXCEPT ![t].cancel = TRUE, ![t].stalled = stalled]
  /\ spent' = [spent EXCEPT !.stops = @ + 1]
  /\ UNCHANGED <<current, writer, rows, files, data, reader, deletion, server,
                 excused>>

\* The watchdog of _run_bounded.
TimeOut(t) ==
  /\ Up /\ turn[t].at \in {"asking", "answering", "saving"} /\ ~turn[t].timedOut
  /\ spent.timeouts < MaxTimeouts
  /\ turn' = [turn EXCEPT ![t].timedOut = TRUE, ![t].cancel = TRUE]
  /\ spent' = [spent EXCEPT !.timeouts = @ + 1]
  /\ UNCHANGED <<current, writer, rows, files, data, reader, deletion, server,
                 excused>>

\* delete_turn cuts the history at a question, or at an answer that has none.
CutPoints ==
  {i \in DOMAIN rows :
     \/ rows[i].role = "user"
     \/ i = 1 \/ (i > 1 /\ rows[i - 1].role # "user")}

DeleteCommits ==
  /\ Up /\ deletion = "none" /\ spent.deletes < MaxDeletes
  /\ \E i \in CutPoints : rows' = SubSeq(rows, 1, i - 1)
  /\ deletion' = "committed"
  /\ spent' = [spent EXCEPT !.deletes = @ + 1]
  /\ UNCHANGED <<turn, current, writer, files, data, reader, server, excused>>

\* RunRegistry.discard, on the delete's thread: the cancel is left to the loop.
DeleteDiscards ==
  /\ Up /\ deletion = "committed"
  /\ deletion' = "popped"
  /\ current' = NoTurn
  /\ turn' = IF current = NoTurn THEN turn
             ELSE [turn EXCEPT ![current].discarded = TRUE,
                               ![current].doomed = Live(current)]
  /\ UNCHANGED <<writer, rows, files, data, reader, server, spent, excused>>

NoFiles == [n \in Numbers |-> NoFile]

\* Mutant of DeleteRemoves: the buffers of the conversation are left.
DeleteLeaves ==
  /\ Up /\ deletion = "popped"
  /\ deletion' = "none"
  /\ UNCHANGED <<turn, current, writer, rows, files, data, reader, server, spent, excused>>

\* remove_conversation_buffers.
DeleteRemoves ==
  /\ Up /\ deletion = "popped"
  /\ deletion' = "none"
  /\ files' = NoFiles
  /\ UNCHANGED <<turn, current, writer, rows, data, reader, server, spent, excused>>

\* The loop runs the cancel that discard scheduled.
CancelDiscarded(t) ==
  /\ Up /\ turn[t].doomed
  /\ turn' = [turn EXCEPT ![t].doomed = FALSE, ![t].cancel = Live(t)]
  /\ UNCHANGED <<current, writer, rows, files, data, reader, deletion, server,
                 spent, excused>>

\* RunRegistry.shutdown marks the turn in flight and gives a task that was just
\* created its first steps before it cancels.  Desktop does not close() the
\* registry: a channel or a schedule may still start a turn.
ShutdownMarks ==
  /\ server = "up" /\ spent.crashes < MaxCrashes
  /\ server' = "marked"
  /\ turn' = IF current # NoTurn /\ Live(current)
             THEN [turn EXCEPT ![current].shutting = TRUE] ELSE turn
  /\ UNCHANGED <<current, writer, rows, files, data, reader, deletion, spent,
                 excused>>

ShutdownCancels ==
  /\ server = "marked"
  /\ \A t \in Turns : turn[t].shutting => turn[t].at # "unstarted"
  /\ server' = "draining"
  /\ turn' = [t \in Turns |->
       IF turn[t].shutting /\ Live(t) THEN [turn[t] EXCEPT !.cancel = TRUE] ELSE turn[t]]
  /\ UNCHANGED <<current, writer, rows, files, data, reader, deletion, spent,
                 excused>>

\* A task that ended with its stream open, such as one cancelled before its
\* first step, has it ended by shutdown (_seal_interrupted).
ShutdownSeals ==
  LET open == {t \in Turns : /\ turn[t].shutting /\ turn[t].at # "none" /\ ~Live(t)
                             /\ ~turn[t].discarded /\ ~turn[t].closed}
  IN /\ server = "draining"
     /\ \A t \in Turns : turn[t].shutting => ~Live(t)
     /\ server' = "stopped"
     /\ turn' = [t \in Turns |-> IF t \in open THEN [turn[t] EXCEPT !.closed = TRUE] ELSE turn[t]]
     /\ data' = IF open = {} THEN data
                ELSE Written(CHOOSE t \in open : TRUE, <<"sse_failed", "interrupted">>)
     /\ UNCHANGED <<current, writer, rows, files, reader, deletion, spent, excused>>

\* The process is over: shutdown has waited for its turns or its grace is up,
\* or it was killed.  Memory is gone; rows and files stay.
Exit ==
  /\ Up /\ spent.crashes < MaxCrashes
  /\ server' = "down"
  /\ spent' = [spent EXCEPT !.crashes = @ + 1]
  /\ turn' = [t \in Turns |->
       LET x == turn[t] IN
       [NewTurn EXCEPT !.at = IF Live(t) \/ x.at = "gate" THEN "lost" ELSE x.at,
                       !.num = x.num, !.saved = x.saved, !.discarded = x.discarded]]
  /\ reader' = [t \in Turns |-> IF reader[t].at = "open"
                                THEN [reader[t] EXCEPT !.at = "cut", !.off = 0] ELSE reader[t]]
  /\ current' = NoTurn /\ writer' = NoTurn /\ deletion' = "none"
  /\ UNCHANGED <<rows, files, data, excused>>

-----------------------------------------------------------------------------
(* The recovery of a boot. *)

\* latest_terminal_reason reads the last line.
LastReason(f) ==
  IF data[f] # <<>> /\ Last(data[f]).kind \in Terminals THEN Last(data[f]).kind ELSE "none"

\* The event recovery saves: the final frame of the buffer, or the turn is lost.
RecoveredEvent(f) ==
  IF \E i \in DOMAIN data[f] : data[f][i].kind = "sse_completed" THEN "completed" ELSE "failed"

\* seal_orphan_turns_in_history.
Recoverable(n) ==
  files[n] # NoFile /\ LastReason(files[n]) \in {"none", "restart", "interrupted"}

\* Mutant of RecoverTurn: the answer that is there without its terminal event
\* is not looked for.
RecoverTurnAnew(rs, n) ==
  LET q == n + 1
      ev == RecoveredEvent(files[n])
  IN IF q > Len(rs) \/ (q <= Len(rs) /\ rs[q].role # "user") THEN rs
     ELSE IF q < Len(rs) /\ (rs[q + 1].role = "user" \/ rs[q + 1].ended # "none") THEN rs
     ELSE Append([rs EXCEPT ![q].pending = FALSE], Answer(rs[q].turn, ev))

\* Mutant of RecoverTurn: the question's flag is left.
RecoverTurnPending(rs, n) ==
  LET q == n + 1
      ev == RecoveredEvent(files[n])
  IN IF q > Len(rs) \/ (q <= Len(rs) /\ rs[q].role # "user") THEN rs
     ELSE IF q = Len(rs) THEN Append(rs, Answer(rs[q].turn, ev))
     ELSE IF rs[q + 1].role = "user" \/ rs[q + 1].ended # "none" THEN rs
     ELSE [rs EXCEPT ![q + 1].ended = ev]

\* recover_interrupted_turn: the number of a buffer is its question's position.
RecoverTurn(rs, n) ==
  LET q == n + 1
      ev == RecoveredEvent(files[n])
      done == [rs EXCEPT ![q].pending = FALSE]
  IN IF q > Len(rs) \/ (q <= Len(rs) /\ rs[q].role # "user") THEN rs
     ELSE IF q = Len(rs) THEN Append(done, Answer(rs[q].turn, ev))
     ELSE IF rs[q + 1].role = "user" \/ rs[q + 1].ended # "none" THEN rs
     ELSE [done EXCEPT ![q + 1].ended = ev]

\* Before the server takes requests; a failure is logged and the boot goes on.
BootRecovers ==
  /\ server = "down" /\ server' = "sealing"
  /\ \/ /\ rows' = FoldSet(LAMBDA n, rs : IF Recoverable(n) THEN RecoverTurn(rs, n) ELSE rs,
                           rows, Numbers)
        /\ UNCHANGED excused
     \/ /\ "busy" \in Faults
        /\ excused' = excused \cup {t \in Turns : turn[t].at \in {"lost", "dead", "ended"}}
        /\ UNCHANGED rows
  /\ UNCHANGED <<turn, current, writer, files, data, reader, deletion, spent>>

\* seal_orphan_buffers.
BootSeals ==
  /\ server = "sealing" /\ server' = "up"
  /\ data' = [f \in Turns |->
       IF (\E n \in Numbers : files[n] = f) /\ LastReason(f) = "none"
       THEN Append(data[f], [turn |-> NoTurn, kind |-> "restart"]) ELSE data[f]]
  /\ UNCHANGED <<turn, current, writer, rows, files, reader, deletion, spent,
                 excused>>

-----------------------------------------------------------------------------

Init ==
  /\ turn = [t \in Turns |-> NewTurn]
  /\ current = NoTurn /\ writer = NoTurn
  /\ rows = <<>>
  /\ files = NoFiles
  /\ data = [f \in Turns |-> <<>>]
  /\ reader = [t \in Turns |-> [at |-> "none", off |-> 0, foreign |-> FALSE, term |-> FALSE]]
  /\ deletion = "none" /\ server = "up"
  /\ spent = [stops |-> 0, deletes |-> 0, crashes |-> 0, timeouts |-> 0]
  /\ excused = {}

\* The steps of a turn that the loop or its unit's thread takes by itself.
Step(t) ==
  \/ Start(t) \/ Begin(t) \/ UnitStarts(t) \/ UnitCommits(t)
  \/ Asked(t) \/ Reported(t) \/ Close(t) \/ CancelDiscarded(t)

Next ==
  \/ \E t \in Turns :
       \/ \E r \in Routes : Post(t, r)
       \/ Step(t) \/ HarnessEnds(t)
       \/ Emit(t) \/ SideFrame(t) \/ Escape(t) \/ TimeOut(t) \/ Read(t)
       \/ \E b \in BOOLEAN : Stop(t, b)
  \/ DeleteCommits \/ DeleteDiscards \/ DeleteRemoves
  \/ ShutdownMarks \/ ShutdownCancels \/ ShutdownSeals \/ Exit \/ BootRecovers \/ BootSeals

Spec == Init /\ [][Next]_vars

\* The loop and its threads run on, and a client goes on reading.  A harness
\* ends: one that is silent for too long is cancelled by the watchdog.
FairSpec ==
  /\ Spec
  /\ \A t \in Turns :
       WF_vars(Step(t) \/ HarnessEnds(t)) /\ WF_vars(Read(t))
  /\ WF_vars(DeleteDiscards \/ DeleteRemoves)

-----------------------------------------------------------------------------
(* Properties. *)

\* Every variable keeps its type: a stream ends with a reason the producer may
\* give, which is never the recovery's.
TypeOK ==
  /\ turn \in [Turns -> Turn]
  /\ {current, writer} \subseteq Turns \cup {NoTurn}
  /\ rows \in Seq(Row)
  /\ files \in [Numbers -> Turns \cup {NoFile}]
  /\ data \in [Turns -> Seq(Record)]
  /\ reader \in [Turns -> Reader]
  /\ deletion \in {"none", "committed", "popped"}
  /\ server \in {"up", "marked", "draining", "stopped", "down", "sealing"}

\* How the history shows a turn.
HistoryOf(t) ==
  LET asked == {i \in DOMAIN rows : rows[i].turn = t /\ rows[i].role = "user"}
      answered == {i \in DOMAIN rows : rows[i].turn = t /\ rows[i].role = "assistant"}
  IN IF asked = {} THEN "absent"
     ELSE IF \E i \in asked : rows[i].pending THEN "pending"
     ELSE IF answered = {} THEN "unanswered"
     ELSE IF \E i \in answered : rows[i].ended = "completed" THEN "completed"
     ELSE IF \E i \in answered : rows[i].ended = "failed" THEN "failed"
     ELSE "partial"

\* The terminal record that readers of a turn find matches what the database
\* holds: "completed" only with the whole answer saved, a Stop only with the
\* question settled, an interruption with its failure saved or still to be
\* saved by the next boot (finish, end_turn, recover_interrupted_turn).
StreamMatchesHistory ==
  \A n \in Numbers : files[n] # NoFile =>
    LET d == data[files[n]]
        t == Last(d).turn
    IN d # <<>> /\ Last(d).kind \in Reasons =>
         CASE Last(d).kind = "completed" -> HistoryOf(t) = "completed"
           [] Last(d).kind = "cancelled" -> HistoryOf(t) \in {"absent", "unanswered", "partial"}
           [] Last(d).kind = "interrupted" ->
                HistoryOf(t) \in {"absent", "failed"} \/ (HistoryOf(t) = "pending" /\ t \in excused)
           [] OTHER -> HistoryOf(t) \in {"absent", "failed"} \/ t \in excused

\* A question stands at the position its turn's number says, as which boot
\* recovery reads the name of a buffer (RunRegistry.start refuses a number that
\* is outdated), and an answer right after its own question, which has one
\* answer (conversation_writes, _save_answer, recover_interrupted_turn).
HistoryInOrder ==
  \A i \in DOMAIN rows :
    IF rows[i].role = "user" THEN turn[rows[i].turn].num = i - 1
    ELSE i > 1 /\ rows[i - 1].role = "user" /\ rows[i - 1].turn = rows[i].turn

\* A question stays out of the replayed history only while its turn runs, or
\* until the next boot; the turns whose save or recovery failed are excepted.
NoQuestionLeftPending ==
  \A i \in DOMAIN rows : rows[i].pending =>
    Live(rows[i].turn) \/ rows[i].turn \in excused \/ server = "down"

\* A reader of a turn that saved its question gets that turn's records and no
\* other's, down to its terminal record (the comment of RunRegistry.start on
\* the reader still behind).
ReaderKeepsToItsTurn ==
  \A t \in Turns : turn[t].saved /\ ~turn[t].discarded =>
    /\ ~reader[t].foreign
    /\ reader[t].at = "done" => reader[t].term

\* Once a delete is over no buffer holds a record of the turn it dropped, and
\* none mixes two turns: nothing deleted is replayed as the next answer.
BuffersAreClean ==
  deletion = "none" =>
    \A n \in Numbers : files[n] # NoFile =>
      LET d == data[files[n]] IN
      /\ \A i, j \in DOMAIN d : d[i].turn = d[j].turn \/ d[j].kind = "restart"
                                                   \/ d[i].kind = "restart"
      /\ \A i \in DOMAIN d : d[i].turn # NoTurn => ~turn[d[i].turn].discarded

\* A reader of a turn that was not deleted comes to an end: the stream of every
\* producer is closed, whatever it dies of (_seal_unterminated_buffer).
TailEnds ==
  \A t \in Turns : []<>(reader[t].at # "open" \/ turn[t].discarded)

\* The conversation never refuses questions for good: its turn ends, with its
\* save done or given up (RunRegistry.start, conversation_writes).
ChatFreesUp ==
  []<>(current = NoTurn \/ ~Answering(current))

=============================================================================
