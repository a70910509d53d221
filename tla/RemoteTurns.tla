---------------------------- MODULE RemoteTurns ----------------------------
(***************************************************************************)
(* The turns of one conversation on a server of several replicas, where a  *)
(* sandbox pod answers and Redis holds what the replicas share: the index  *)
(* of the current run (streaming/turn_index.py), one stream per turn       *)
(* number (RedisStreamBuffer), the cancel flags (streaming/cancellation.py)*)
(* and the pods' replies (turnqueue/producer.py).  A replica's registry    *)
(* (streaming/registry.py) admits a turn, whose relay (_run_remote_turn of *)
(* handlers/responses.py) saves the question, queues the job, relays the   *)
(* replies and saves the answer.  /cancel and /tail may land on any        *)
(* replica.  A replica may shut down or crash at any step.                 *)
(*                                                                         *)
(* A step is one round trip to Redis or to the database, or what runs      *)
(* between two of them.  The keys' time to live is left out.               *)
(***************************************************************************)
EXTENDS Naturals, Sequences, FiniteSets, Functions, FiniteSetsExt

CONSTANTS
  Turns,       \* the POSTs to /responses, each a run with its correlation id
  Replicas,
  Readers,     \* the tails of a stream, on whichever replica
  Stops,       \* the calls of /cancel
  NoTurn,
  NoReplica,
  MaxDeltas,   \* bound on the replies of a pod before its terminal one
  MaxEvents,   \* bound on the calls of /cancel and the ends of a replica
  Faults       \* what may fail: "busy" no database connection, "pod" the pod
               \* or its controller

ASSUME RemoteTurnsAssumption ==
  /\ NoTurn \notin Turns /\ NoReplica \notin Replicas
  /\ {MaxDeltas, MaxEvents} \subseteq Nat
  /\ Faults \subseteq {"busy", "pod"}

VARIABLES
  turn,      \* each turn's lifecycle, handle and relay
  handle,    \* replica -> RunRegistry._by_cid of that process
  replica,   \* how far a replica is in its shutdown
  index,     \* cowork:turn:{conversation}: the run it names
  stream,    \* turn number -> cowork:stream:{conversation}:{number}
  flag,      \* the runs whose cancel flag is set
  cause,     \* the runs whose cancel cause is a stall
  jobs,      \* the conversation's job queue
  pod,       \* how far the pod of a turn is
  sent,      \* how many deltas the pod of a turn has replied
  reader,    \* the tails
  stop,      \* the calls of /cancel
  events,    \* how many calls of /cancel and ends of a replica there were
  asked,     \* history: which runs a /cancel was for, and its reason
  heeded,    \* history: the runs whose /cancel answered cancelled: true
  latest     \* history: the run published last

redis == <<index, stream, flag, cause, jobs>>
vars == <<turn, handle, replica, index, stream, flag, cause, jobs, pod, sent,
          reader, stop, events, asked, heeded, latest>>

Numbers == 0..(2 * Cardinality(Turns))

\* The replies of a pod: a delta, or how it ended.
Kinds == {"delta", "completed", "failed", "aborted", "stopped"}

Reasons == {"completed", "cancelled", "interrupted", "error"}

\* TurnLifecycle, RunHandle and the locals of the relay.  `unread' are the
\* entries of the reply stream after the last one it read, and `got' the deltas
\* it relayed.
Turn ==
  [at: {"none", "counted", "published", "unstarted", "asked", "relaying",
        "saving", "closing", "ended", "refused", "dead"},
   on: Replicas \cup {NoReplica}, num: Numbers, why: Reasons \cup {"stalled"},
   saved: {"none", "pending", "alone", "answered"},
   unread: Seq([of: Turns, kind: Kinds, n: Nat]), got: Seq(Turns \X Nat),
   cancel: BOOLEAN, stalled: BOOLEAN, shutting: BOOLEAN]

NewTurn ==
  [at |-> "none", on |-> NoReplica, num |-> 0, why |-> "completed",
   saved |-> "none", unread |-> <<>>, got |-> <<>>, cancel |-> FALSE,
   stalled |-> FALSE, shutting |-> FALSE]

\* A turn that is past its last reply: what nothing looks at any more is
\* forgotten.
Past(x, at, why) ==
  [x EXCEPT !.at = at, !.why = why, !.unread = <<>>, !.cancel = FALSE,
            !.stalled = FALSE, !.shutting = FALSE]

Gone(x, at) == [NewTurn EXCEPT !.at = at, !.num = x.num, !.saved = x.saved]

\* A Redis stream's entry ids only grow, also after the key is deleted: the
\* entries of a deleted key stay in `log', below `base'.
Visible(n) == SubSeq(stream[n].log, stream[n].base + 1, Len(stream[n].log))

Newest(n) == stream[n].log[Len(stream[n].log)]

\* A turn's frames in a row are kept as one.
XAdd(n, rec) ==
  stream' = IF Visible(n) # <<>> /\ rec.kind = "frame" /\ Newest(n) = rec
            THEN stream ELSE [stream EXCEPT ![n].log = Append(@, rec)]

Terminal(rec) == rec.kind \in Reasons

\* The newest record is a terminal one, as refresh and clear_if_ended read it.
Closed(n) == Visible(n) # <<>> /\ Terminal(Newest(n))

\* RunHandle.is_running, and is_answering: not once its terminal is written.
Running(t) ==
  t # NoTurn /\ turn[t].at \in {"unstarted", "asked", "relaying", "saving", "closing"}

Over(t) == turn[t].at \in {"none", "ended", "refused", "dead"}

Up(p) == replica[p] # "down"

MessageCount ==
  LET Messages(t) == CASE turn[t].saved = "none" -> 0
                       [] turn[t].saved \in {"pending", "alone"} -> 1
                       [] turn[t].saved = "answered" -> 2
  IN  MapThenSumSet(Messages, Turns)

Goes(t, at) == turn' = [turn EXCEPT ![t].at = at]

Ends(t, at) == turn' = [turn EXCEPT ![t] = Gone(turn[t], at)]

-----------------------------------------------------------------------------
(* POST /responses on a replica, and RunRegistry.start.                    *)

\* _refuse_while_answering, then the unit that counts the messages.
Post(t, p) ==
  /\ turn[t].at = "none" /\ Up(p)
  /\ ~Running(handle[p])
  /\ turn' = [turn EXCEPT ![t].at = "counted", ![t].on = p,
                          ![t].num = MessageCount]
  /\ UNCHANGED <<handle, replica, redis, pod, sent, reader, stop, events, asked,
                 heeded, latest>>

Closing(p) == replica[p] # "up"

\* Why start() refuses: the registry is closed, a turn is answering, or the
\* turn before it saved its question after this one counted.
Refused(t) ==
  LET p == turn[t].on
      h == handle[p]
  IN  \/ Closing(p)
      \/ Running(h)
      \/ h # NoTurn /\ turn[h].saved # "none" /\ turn[t].num <= turn[h].num

\* Under the replica's start lock of the conversation: the checks, new_buffer,
\* which drops the stream of a turn that ended at this number, and record_turn.
StartPublishes(t) ==
  LET n == turn[t].num IN
  /\ turn[t].at = "counted"
  /\ \A u \in Turns : turn[u].on = turn[t].on => turn[u].at # "published"
  /\ \/ Refused(t) /\ Ends(t, "refused") /\ UNCHANGED <<index, stream, latest>>
     \/ /\ ~Refused(t)
        /\ Goes(t, "published")
        /\ index' = t /\ latest' = t
        /\ stream' = IF Closed(n)
                     THEN [stream EXCEPT ![n].base = Len(stream[n].log)]
                     ELSE stream
  /\ UNCHANGED <<handle, replica, flag, cause, jobs, pod, sent, reader, stop, events,
                 asked, heeded>>

\* Mutant: the entry is removed whichever run it names.
ForgetTurn(t) == index' = NoTurn

\* forget_run: the entry of this run only, checked and removed under a WATCH.
ForgetRun(t) == index' = IF index = t THEN NoTurn ELSE index

\* The last check and the registration, with no await between them.
StartRegisters(t) ==
  LET p == turn[t].on IN
  /\ turn[t].at = "published"
  /\ \/ Closing(p) /\ Ends(t, "refused") /\ ForgetRun(t) /\ UNCHANGED handle
     \/ /\ ~Closing(p)
        /\ Goes(t, "unstarted")
        /\ handle' = [handle EXCEPT ![p] = t]
        /\ UNCHANGED index
  /\ UNCHANGED <<replica, stream, flag, cause, jobs, pod, sent, reader, stop,
                 events, asked, heeded, latest>>

-----------------------------------------------------------------------------
(* The relay.                                                              *)

\* The question's unit, whose outcome a cancel waits for.  A full pool ends
\* the turn as an error with nothing saved.
SaveQuestion(t) ==
  /\ turn[t].at = "unstarted"
  /\ \/ turn' = [turn EXCEPT ![t].at = "asked", ![t].saved = "pending"]
     \/ "busy" \in Faults
        /\ turn' = [turn EXCEPT ![t] = Past(turn[t], "closing", "error")]
  /\ UNCHANGED <<handle, replica, redis, pod, sent, reader, stop, events, asked, heeded,
                 latest>>

\* Mutant: a flag that is already there is cleared as an earlier turn's.
EnqueueClears(t) ==
  /\ turn[t].at = "asked" /\ ~turn[t].cancel
  /\ turn' = [turn EXCEPT ![t].at = "relaying", ![t].unread = <<>>]
  /\ jobs' = Append(jobs, t)
  /\ flag' = flag \ {t}
  /\ XAdd(turn[t].num, [of |-> t, kind |-> "frame"])
  /\ UNCHANGED <<handle, replica, index, cause, pod, sent, reader, stop,
                 events, asked, heeded, latest>>

\* The created frame, and stream_remote_replies up to the queued job: replies
\* are read from after the newest one before the job is queued.  A run the
\* registry owns keeps a cancel flag that is already there.
Enqueue(t) ==
  /\ turn[t].at = "asked" /\ ~turn[t].cancel
  /\ turn' = [turn EXCEPT ![t].at = "relaying", ![t].unread = <<>>]
  /\ jobs' = Append(jobs, t)
  /\ XAdd(turn[t].num, [of |-> t, kind |-> "frame"])
  /\ UNCHANGED <<handle, replica, index, flag, cause, pod, sent, reader, stop,
                 events, asked, heeded, latest>>

\* How the cancel branch ends a turn, read when the cancel is delivered.
CancelReason(x) ==
  IF x.shutting THEN "interrupted" ELSE IF x.stalled THEN "stalled" ELSE "cancelled"

\* Mutant: every abort is read as the user's Stop.
ConfirmedAborted(t, kind) == kind \in {"stopped", "aborted"}

\* _remote_cancel_confirmed: the controller's own word, or its failure while
\* the flag is still there.
Confirmed(t, kind) == kind = "stopped" \/ (kind = "aborted" /\ t \in flag)

\* _remote_cancel_stalled.
Confirm(x, t) == [x EXCEPT !.stalled = @ \/ t \in cause]

Unwinds(t, why) == turn' = [turn EXCEPT ![t] = Past(turn[t], "saving", why)]

\* Mutant: the reply of any run is taken for this one's.
MineAll(t, r) == TRUE

Mine(t, r) == r.of = t

\* One reply: another run's is skipped, a delta is relayed as a frame, and a
\* terminal one decides how the turn ends.
Relay(t) ==
  LET x == turn[t]
      r == Head(x.unread)
      y == [x EXCEPT !.unread = Tail(@)]
  IN
  /\ x.at = "relaying" /\ ~x.cancel /\ x.unread # <<>>
  /\ \/ /\ ~Mine(t, r)
        /\ turn' = [turn EXCEPT ![t] = y] /\ UNCHANGED stream
     \/ /\ Mine(t, r) /\ r.kind = "delta"
        /\ turn' = [turn EXCEPT ![t] = [y EXCEPT !.got = Append(@, <<r.of, r.n>>)]]
        /\ XAdd(x.num, [of |-> t, kind |-> "frame"])
     \/ /\ Mine(t, r) /\ r.kind # "delta"
        /\ IF Confirmed(t, r.kind)
           THEN Unwinds(t, CancelReason(Confirm(x, t)))
           ELSE Unwinds(t, IF r.kind = "completed" THEN "completed" ELSE "error")
        /\ UNCHANGED stream
  /\ UNCHANGED <<handle, replica, index, flag, cause, jobs, pod, sent, reader,
                 stop, events, asked, heeded, latest>>

\* No reply of this run for the idle timeout.
RelayIdles(t) ==
  /\ turn[t].at = "relaying" /\ ~turn[t].cancel
  /\ turn[t].unread = <<>>
  /\ Unwinds(t, "error")
  /\ UNCHANGED <<handle, replica, redis, pod, sent, reader, stop, events, asked, heeded,
                 latest>>

\* A cancel delivered to the task.  Before the task's first step its body
\* never runs: nothing is saved and nothing is written.
Unwind(t) ==
  LET x == turn[t] IN
  /\ x.cancel
  /\ \/ /\ x.at = "unstarted" /\ ~x.shutting
        /\ Ends(t, "ended")
     \/ /\ x.at \in {"asked", "relaying"}
        /\ Unwinds(t, CancelReason(x))
  /\ UNCHANGED <<handle, replica, redis, pod, sent, reader, stop, events, asked, heeded,
                 latest>>

\* A turn with neither text nor events saves no answer, only its question.
Empty(x) == x.got = <<>> /\ x.why = "cancelled"

\* Mutant: a failed save is not reported.
UnsavedAsPlanned(why) == why

\* How a turn ends whose answer could not be saved.
Unsaved(why) == IF why \in {"completed", "cancelled"} THEN "error" ELSE why

\* persist: the answer and the question's flag in one commit, or neither.
SaveAnswer(t) ==
  LET x == turn[t] IN
  /\ x.at = "saving"
  /\ \/ turn' = [turn EXCEPT ![t].at = "closing",
                             ![t].saved = IF Empty(x) THEN "alone" ELSE "answered"]
     \/ /\ "busy" \in Faults
        /\ turn' = [turn EXCEPT ![t].at = "closing", ![t].why = Unsaved(x.why)]
  /\ UNCHANGED <<handle, replica, redis, pod, sent, reader, stop, events, asked, heeded,
                 latest>>

\* The last frame and the terminal record, after the save.
CloseStream(t) ==
  LET x == turn[t] IN
  /\ x.at = "closing"
  /\ Ends(t, "ended")
  /\ XAdd(x.num, [of |-> t, kind |-> IF x.why = "stalled" THEN "interrupted" ELSE x.why])
  /\ UNCHANGED <<handle, replica, index, flag, cause, jobs, pod, sent, reader,
                 stop, events, asked, heeded, latest>>

-----------------------------------------------------------------------------
(* The sandbox controller and its pods, as the replies' reader uses them:  *)
(* jobs of a conversation run one at a time, in order.                     *)

\* The reply stream, as each relay still has to read it.
Reply(t, kind, n) ==
  turn' = [u \in Turns |->
             IF turn[u].at # "relaying" THEN turn[u]
             ELSE [turn[u] EXCEPT !.unread = Append(@, [of |-> t, kind |-> kind, n |-> n])]]

PodStarts ==
  /\ jobs # <<>> /\ \A t \in Turns : pod[t] # "running"
  /\ pod' = [pod EXCEPT ![Head(jobs)] = "running"]
  /\ jobs' = Tail(jobs)
  /\ UNCHANGED <<turn, handle, replica, index, stream, flag, cause, sent, reader,
                 stop, events, asked, heeded, latest>>

PodReplies(t) ==
  /\ pod[t] = "running"
  /\ sent[t] < MaxDeltas
  /\ sent' = [sent EXCEPT ![t] = @ + 1]
  /\ Reply(t, "delta", sent[t] + 1)
  /\ UNCHANGED <<handle, replica, redis, pod, reader, stop, events, asked, heeded,
                 latest>>

\* The pod's own end: its answer, or its failure, or the end of the
\* controller's process ("aborted"), or no word at all.
PodEnds(t) ==
  /\ pod[t] = "running"
  /\ pod' = [pod EXCEPT ![t] = "over"]
  /\ \/ Reply(t, "completed", 0)
     \/ "pod" \in Faults /\ \E kind \in {"failed", "aborted"} : Reply(t, kind, 0)
     \/ "pod" \in Faults /\ UNCHANGED turn
  /\ UNCHANGED <<handle, replica, redis, sent, reader, stop, events, asked, heeded,
                 latest>>

\* The controller sees the flag: it says so and clears the flag, or its
\* keepalive fails the job and leaves the flag.
PodStops(t) ==
  /\ pod[t] = "running" /\ t \in flag
  /\ pod' = [pod EXCEPT ![t] = "over"]
  /\ \/ Reply(t, "stopped", 0) /\ flag' = flag \ {t}
     \/ Reply(t, "aborted", 0) /\ UNCHANGED flag
  /\ UNCHANGED <<handle, replica, index, stream, cause, jobs, sent, reader, stop,
                 events, asked, heeded, latest>>

-----------------------------------------------------------------------------
(* POST /cancel on a replica, for one run or for the conversation.         *)

NewStop == [at |-> "none", aim |-> NoTurn, via |-> NoReplica, named |-> FALSE,
            stalled |-> FALSE]

\* _shared_turn(...).in_flight of the run the index names.  A stream that is
\* still empty counts while the run has just started.
MayBeInFlight(t) == ~Closed(turn[t].num)

\* Which run a /cancel on p takes, by its handle: cancel_run for a named run
\* that still answers, else the handle unless the index names a successor.
ByHandle(p, t, named) ==
  /\ handle[p] = t
  /\ IF named THEN Running(t) /\ ~turn[t].shutting ELSE index \in {t, NoTurn}

\* ... or by the index.
ByIndex(p, t, named) ==
  /\ index = t /\ handle[p] # t
  /\ MayBeInFlight(t)

StopReads(s, p, t, named, stalled) ==
  /\ stop[s].at = "none" /\ Up(p) /\ events < MaxEvents
  /\ events' = events + 1
  /\ ByHandle(p, t, named) \/ ByIndex(p, t, named)
  /\ stop' = [stop EXCEPT ![s] =
                [at |-> "reading", aim |-> t, stalled |-> stalled,
                 named |-> named /\ handle[p] = t,
                 via |-> IF handle[p] = t THEN p ELSE NoReplica]]
  /\ asked' = asked \cup {<<t, stalled>>}
  /\ UNCHANGED <<turn, handle, replica, redis, pod, sent, reader, heeded, latest>>

\* request_cancel: the flag and the cause in one transaction.  The keys of a
\* run that is over, as is its pod, are taken as expired.
SetFlag(t, stalled) ==
  IF Over(t) /\ pod[t] # "running" /\ t \notin Range(jobs)
  THEN UNCHANGED <<flag, cause>>
  ELSE /\ flag' = flag \cup {t}
       /\ cause' = IF stalled THEN cause \cup {t} ELSE cause \ {t}

StopWrites(s) ==
  LET c == stop[s] IN
  /\ c.at = "reading"
  /\ SetFlag(c.aim, c.stalled)
  /\ IF c.via = NoReplica
     THEN stop' = [stop EXCEPT ![s] = [NewStop EXCEPT !.at = "over"]]
          /\ heeded' = heeded \cup {c.aim}
     ELSE stop' = [stop EXCEPT ![s].at = "written"] /\ UNCHANGED heeded
  /\ UNCHANGED <<turn, handle, replica, index, stream, jobs, pod, sent, reader,
                 events, asked, latest>>

\* The handle this replica holds: the latest cancel decides the reason, except
\* that cancel_run leaves a turn that is already cancelled as it is.
StopSignals(s) ==
  LET c == stop[s]
      x == turn[c.aim]
      takes == Running(c.aim) /\ (c.named => ~x.shutting)
      again == c.named /\ x.cancel
  IN
  /\ c.at = "written"
  /\ stop' = [stop EXCEPT ![s] = [NewStop EXCEPT !.at = "over"]]
  /\ heeded' = IF takes THEN heeded \cup {c.aim} ELSE heeded
  /\ turn' = IF x.at \notin {"unstarted", "asked", "relaying"} THEN turn
             ELSE [turn EXCEPT ![c.aim] =
                [x EXCEPT !.stalled = IF again \/ (c.named /\ ~takes) THEN @ ELSE c.stalled,
                          !.cancel = @ \/ takes]]
  /\ UNCHANGED <<handle, replica, redis, pod, sent, reader, events, asked, latest>>

-----------------------------------------------------------------------------
(* GET /tail on any replica, and the tail of the POST's own response.      *)

NewReader == [at |-> "none", num |-> 0, pos |-> 0]

\* The stream of the replica's own handle, or else of the index's run.
ReaderOpens(k, p) ==
  LET t == IF handle[p] # NoTurn THEN handle[p] ELSE index IN
  /\ reader[k].at = "none" /\ Up(p) /\ t # NoTurn
  /\ reader' = [reader EXCEPT ![k] = [at |-> "open", num |-> turn[t].num, pos |-> 0]]
  /\ UNCHANGED <<turn, handle, replica, redis, pod, sent, stop, events, asked, heeded,
                 latest>>

NextEntry(k) == Max({reader[k].pos, stream[reader[k].num].base}) + 1

Unread(k) == NextEntry(k) <= Len(stream[reader[k].num].log)

ReaderReads(k) ==
  LET rec == stream[reader[k].num].log[NextEntry(k)] IN
  /\ reader[k].at = "open" /\ Unread(k)
  /\ reader' = [reader EXCEPT ![k] = IF Terminal(rec) THEN [NewReader EXCEPT !.at = "over"]
                                     ELSE [@ EXCEPT !.pos = NextEntry(k)]]
  /\ UNCHANGED <<turn, handle, replica, redis, pod, sent, stop, events, asked, heeded,
                 latest>>

\* Mutant: a quiet tail goes on until somebody else ends the stream.
ReaderCutsClosed(k) ==
  /\ reader[k].at = "open" /\ ~Unread(k) /\ Closed(reader[k].num)
  /\ reader' = [reader EXCEPT ![k] = [NewReader EXCEPT !.at = "over"]]
  /\ UNCHANGED <<turn, handle, replica, redis, pod, sent, stop, events, asked,
                 heeded, latest>>

\* _terminate_as_orphan after a quiet spell: it looks at the newest record ...
ReaderCuts(k) ==
  /\ reader[k].at = "open" /\ ~Unread(k)
  /\ reader' = [reader EXCEPT ![k] =
                  IF Closed(reader[k].num) THEN [NewReader EXCEPT !.at = "over"]
                  ELSE [@ EXCEPT !.at = "sealing", !.pos = 0]]
  /\ UNCHANGED <<turn, handle, replica, redis, pod, sent, stop, events, asked, heeded,
                 latest>>

\* ... and, having found no terminal one, writes one.
ReaderSeals(k) ==
  /\ reader[k].at = "sealing"
  /\ XAdd(reader[k].num, [of |-> NoTurn, kind |-> "interrupted"])
  /\ reader' = [reader EXCEPT ![k] = [NewReader EXCEPT !.at = "over"]]
  /\ UNCHANGED <<turn, handle, replica, index, flag, cause, jobs, pod, sent, stop,
                 events, asked, heeded, latest>>

-----------------------------------------------------------------------------
(* The end of a replica: _end_remote_turns and RunRegistry.shutdown, or a  *)
(* crash.                                                                  *)

\* close(), and the mark on the turn in flight.
ShutdownMarks(p) ==
  LET h == handle[p] IN
  /\ replica[p] = "up" /\ events < MaxEvents
  /\ replica' = [replica EXCEPT ![p] = "marked"]
  /\ events' = events + 1
  /\ turn' = IF Running(h)
             THEN [turn EXCEPT ![h].shutting = TRUE] ELSE turn
  /\ UNCHANGED <<handle, redis, pod, sent, reader, stop, asked, heeded, latest>>

\* _stop_controller_turns: the flag of a turn that is still answering.
ShutdownFlags(p) ==
  LET h == handle[p] IN
  /\ replica[p] = "marked"
  /\ replica' = [replica EXCEPT ![p] = "flagged"]
  /\ IF Running(h) /\ turn[h].shutting
     THEN SetFlag(h, FALSE) ELSE UNCHANGED <<flag, cause>>
  /\ UNCHANGED <<turn, handle, index, stream, jobs, pod, sent, reader, stop, events,
                 asked, heeded, latest>>

ShutdownCancels(p) ==
  LET h == handle[p] IN
  /\ replica[p] = "flagged"
  /\ replica' = [replica EXCEPT ![p] = "cancelled"]
  /\ turn' = IF Running(h) /\ turn[h].shutting
             THEN [turn EXCEPT ![h].cancel = TRUE] ELSE turn
  /\ UNCHANGED <<handle, redis, pod, sent, reader, stop, events, asked, heeded, latest>>

\* What a process takes with it: its registry, its relays, the requests it
\* was serving.
Dies(p) ==
  /\ replica' = [replica EXCEPT ![p] = "down"]
  /\ handle' = [handle EXCEPT ![p] = NoTurn]
  /\ turn' = [t \in Turns |-> IF turn[t].on = p /\ ~Over(t)
                              THEN Gone(turn[t], "dead") ELSE turn[t]]
  /\ stop' = [s \in Stops |-> IF stop[s].via = p
                              THEN [NewStop EXCEPT !.at = "over"] ELSE stop[s]]
  /\ UNCHANGED <<redis, pod, sent, reader, asked, heeded, latest>>

\* The turn has unwound, or the grace is over.
Exit(p) == replica[p] = "cancelled" /\ Dies(p) /\ UNCHANGED events

Crash(p) ==
  /\ replica[p] = "up" /\ events < MaxEvents
  /\ Dies(p) /\ events' = events + 1

-----------------------------------------------------------------------------
Init ==
  /\ turn = [t \in Turns |-> NewTurn]
  /\ handle = [p \in Replicas |-> NoTurn]
  /\ replica = [p \in Replicas |-> "up"]
  /\ index = NoTurn /\ latest = NoTurn
  /\ stream = [n \in Numbers |-> [log |-> <<>>, base |-> 0]]
  /\ flag = {} /\ cause = {} /\ jobs = <<>>
  /\ pod = [t \in Turns |-> "none"]
  /\ sent = [t \in Turns |-> 0]
  /\ reader = [k \in Readers |-> NewReader]
  /\ stop = [s \in Stops |-> NewStop]
  /\ events = 0 /\ asked = {} /\ heeded = {}

\* What the event loop of a turn's replica does for it.
Step(t) ==
  \/ StartPublishes(t) \/ StartRegisters(t)
  \/ SaveQuestion(t) \/ Enqueue(t) \/ Relay(t) \/ RelayIdles(t) \/ Unwind(t)
  \/ SaveAnswer(t) \/ CloseStream(t)

PodSteps(t) == PodReplies(t) \/ PodEnds(t) \/ PodStops(t)

Tails(k) == ReaderReads(k) \/ ReaderCuts(k) \/ ReaderSeals(k)

Cancels(s) == StopWrites(s) \/ StopSignals(s)

Quits(p) == ShutdownFlags(p) \/ ShutdownCancels(p) \/ Exit(p)

Next ==
  \/ \E t \in Turns : Step(t) \/ PodSteps(t) \/ \E p \in Replicas : Post(t, p)
  \/ PodStarts
  \/ \E s \in Stops : Cancels(s)
  \/ \E s \in Stops, p \in Replicas, t \in Turns, named, stalled \in BOOLEAN :
       StopReads(s, p, t, named, stalled)
  \/ \E k \in Readers : Tails(k) \/ \E p \in Replicas : ReaderOpens(k, p)
  \/ \E p \in Replicas : ShutdownMarks(p) \/ Quits(p) \/ Crash(p)

Spec == Init /\ [][Next]_vars

\* The event loops run on, a quiet tail is cut, and the controller takes its
\* jobs and sees a flag.  A pod may run for ever.
FairSpec ==
  /\ Spec
  /\ \A t \in Turns : WF_vars(Step(t)) /\ WF_vars(PodStops(t))
  /\ WF_vars(PodStarts)
  /\ \A k \in Readers : WF_vars(Tails(k))
  /\ \A s \in Stops : WF_vars(Cancels(s))
  /\ \A p \in Replicas : WF_vars(Quits(p))

-----------------------------------------------------------------------------
\* Every variable keeps to its type: in particular the numbers that
\* message_count gives name a stream.
TypeOK ==
  /\ turn \in [Turns -> Turn]
  /\ handle \in [Replicas -> Turns \cup {NoTurn}]
  /\ replica \in [Replicas -> {"up", "marked", "flagged", "cancelled", "down"}]
  /\ {index, latest} \subseteq Turns \cup {NoTurn}
  /\ \A n \in Numbers :
       /\ stream[n].base \in 0..Len(stream[n].log)
       /\ \A rec \in Range(stream[n].log) : rec.kind \in Reasons \cup {"frame"}
  /\ flag \cup cause \cup heeded \cup Range(jobs) \subseteq Turns
  /\ pod \in [Turns -> {"none", "running", "over"}]
  /\ reader \in [Readers -> [at: {"none", "open", "sealing", "over"},
                             num: Numbers, pos: Nat]]

\* A relay takes exactly its own pod's replies, in order: none of a turn
\* before it that is still finishing after its Stop or its idle timeout, and
\* none is lost, so a completed answer is whole (stream_remote_replies).
RepliesAreOwn ==
  \A t \in Turns :
    LET got == turn[t].got IN
    /\ Len(got) <= sent[t] /\ \A i \in 1..Len(got) : got[i] = <<t, i>>
    /\ turn[t].at = "saving" /\ turn[t].why = "completed" => Len(got) = sent[t]

\* A turn is saved as stopped only if a user's Stop was for that run, and as
\* stalled only if a client gave up on that run: a cancel that lands on any
\* replica, however late, never ends the run after it, and the controller's
\* own end is no Stop (cancel_response, cancel_run, _remote_cancel_confirmed,
\* _remote_cancel_stalled).
CancelledWasAsked ==
  \A t \in Turns :
    turn[t].at \in {"saving", "closing"} =>
      /\ turn[t].why = "cancelled" => <<t, FALSE>> \in asked
      /\ turn[t].why = "stalled" => <<t, TRUE>> \in asked

\* No stream says completed for an answer the database does not hold, whatever
\* fails or dies between the two (finish).
CompletedIsSaved ==
  \A n \in Numbers : \A i \in DOMAIN stream[n].log :
    LET rec == stream[n].log[i] IN
    rec.kind = "completed" => turn[rec.of].saved = "answered"

\* The run published last can be found from every replica while it runs: no
\* run that starts late or is refused takes its entry away (record_turn,
\* forget_run).
RunningIsFound ==
  Running(latest) => index = latest

\* Every tail comes to an end, also of a turn whose replica died or whose
\* producer never ran (tail, _terminate_as_orphan).
TailEnds == \A k \in Readers : []<>(reader[k].at \in {"none", "over"})

\* A /cancel that answered cancelled: true ends the run on its replica and in
\* its pod, whichever replica it landed on and however early it came.
StopIsHeeded ==
  \A t \in Turns : []<>(t \in heeded => Over(t) /\ pod[t] # "running" /\ t \notin Range(jobs))

=============================================================================
