------------------------- MODULE RemoteTurnsProofs -------------------------
(* Turns on several replicas: a relay takes its own replies, a Stop ends the *)
(* run it was for, the running run is found, and completed means saved, for *)
(* any number of turns, replicas, readers and Stops.                        *)
EXTENDS RemoteTurns, TLAPS

-----------------------------------------------------------------------------
(* The invariant.                                                          *)

\* The records have the fields the steps rewrite.
TurnShape(x) ==
  x = [at |-> x.at, on |-> x.on, num |-> x.num, why |-> x.why, saved |-> x.saved,
       unread |-> x.unread, got |-> x.got, cancel |-> x.cancel,
       stalled |-> x.stalled, shutting |-> x.shutting]

StopShape(c) ==
  c = [at |-> c.at, aim |-> c.aim, via |-> c.via, named |-> c.named, stalled |-> c.stalled]

Replies == [of: Turns, kind: Kinds, n: Nat]

Records == [of: Turns \cup {NoTurn}, kind: Reasons \cup {"frame"}]

WellFormed(x) ==
  /\ TurnShape(x) /\ {x.cancel, x.stalled, x.shutting} \subseteq BOOLEAN
  /\ x.why \in Reasons \cup {"stalled"}
  /\ x.unread \in Seq(Replies)
  /\ x.got \in Seq(Turns \X Nat)

TurnsShape == turn = [t \in Turns |-> turn[t]] /\ \A t \in Turns : WellFormed(turn[t])

StreamShape ==
  /\ stream = [n \in Numbers |-> stream[n]]
  /\ \A n \in Numbers : /\ stream[n] = [log |-> stream[n].log, base |-> stream[n].base]
                        /\ stream[n].log \in Seq(Records)

StopsShape ==
  /\ stop = [s \in Stops |-> stop[s]]
  /\ \A s \in Stops : /\ StopShape(stop[s]) /\ stop[s].stalled \in BOOLEAN
                      /\ stop[s].at \in {"reading", "written"} => stop[s].aim \in Turns

Shape ==
  /\ TurnsShape /\ StreamShape /\ StopsShape
  /\ handle \in [Replicas -> Turns \cup {NoTurn}]
  /\ {index, latest} \subseteq Turns \cup {NoTurn}
  /\ jobs \in Seq(Turns)
  /\ pod = [t \in Turns |-> pod[t]]
  /\ sent \in [Turns -> Nat]

\* A turn that has not queued its job.
Early(t) == turn[t].at \in {"none", "counted", "published", "unstarted", "asked"}

\* A turn whose end is not decided.
Undecided(t) == Early(t) \/ turn[t].at = "relaying"

\* The run published last is in the index from then on.
FoundInv ==
  latest \in Turns /\ (turn[latest].at = "published" \/ Running(latest)) => index = latest

\* A terminal record says completed once the answer is saved, and a saved
\* answer stays.
SavedInv ==
  /\ \A t \in Turns :
       /\ turn[t].at = "closing" /\ turn[t].why = "completed" => turn[t].saved = "answered"
       /\ turn[t].saved = "answered" => turn[t].at \in {"closing", "ended", "dead"}
  /\ \A n \in Numbers : \A i \in DOMAIN stream[n].log :
       LET rec == stream[n].log[i] IN
       rec.kind = "completed" => rec.of \in Turns /\ turn[rec.of].saved = "answered"

\* Somebody who may end the run as stopped or as stalled asked for it, or the
\* replica is shutting down.
Told(t) == t \in cause \/ <<t, FALSE>> \in asked \/ turn[t].shutting

StoppedReply(t) ==
  \E i \in 1..Len(turn[t].unread) :
    turn[t].unread[i].of = t /\ turn[t].unread[i].kind = "stopped"

AskedInv ==
  /\ \A s \in Stops : stop[s].at \in {"reading", "written"} =>
       <<stop[s].aim, stop[s].stalled>> \in asked
  /\ \A t \in cause : <<t, TRUE>> \in asked
  /\ \A t \in Turns :
       /\ Undecided(t) /\ turn[t].stalled => <<t, TRUE>> \in asked
       /\ Undecided(t) /\ turn[t].cancel =>
            turn[t].shutting \/ turn[t].stalled \/ <<t, FALSE>> \in asked
       /\ Undecided(t) /\ (t \in flag \/ StoppedReply(t)) => Told(t)
  /\ CancelledWasAsked

\* The replies still to be read of a relay's own pod: its deltas in order,
\* from the one after the last it relayed to the last that was sent, and its
\* end behind them.
MyDelta(t, r) == r.of = t /\ r.kind = "delta"
MyEnd(t, r) == r.of = t /\ r.kind # "delta"

InOrder(t, q) ==
  \A i, j \in 1..Len(q) :
    MyDelta(t, q[i]) /\ MyDelta(t, q[j]) /\ i < j => q[i].n < q[j].n

EndBehind(t, q, over) ==
  \A i \in 1..Len(q) : MyEnd(t, q[i]) =>
    over /\ \A j \in 1..Len(q) : MyDelta(t, q[j]) => j < i

Unrelayed(t, q, k, m, over) ==
  /\ \A i \in 1..Len(q) : MyDelta(t, q[i]) => q[i].n \in (k + 1)..m
  /\ \A n \in (k + 1)..m : \E i \in 1..Len(q) : MyDelta(t, q[i]) /\ q[i].n = n
  /\ InOrder(t, q) /\ EndBehind(t, q, over)

RelayInv(t) ==
  Unrelayed(t, turn[t].unread, Len(turn[t].got), sent[t], pod[t] = "over")

\* Each turn has one job and one pod.
JobsInv ==
  /\ \A k \in 1..Len(jobs) : pod[jobs[k]] = "none" /\ ~Early(jobs[k])
  /\ \A k, l \in 1..Len(jobs) : jobs[k] = jobs[l] => k = l
  /\ \A t \in Turns :
       /\ pod[t] = "none" => sent[t] = 0
       /\ Early(t) => pod[t] = "none" /\ turn[t].got = <<>>

RepliesInv ==
  \A t \in Turns :
    /\ Len(turn[t].got) <= sent[t]
    /\ \A i \in 1..Len(turn[t].got) : turn[t].got[i] = <<t, i>>
    /\ turn[t].at = "relaying" => RelayInv(t)
    /\ turn[t].at = "saving" /\ turn[t].why = "completed" =>
         pod[t] = "over" /\ Len(turn[t].got) = sent[t]

Inv == Shape /\ FoundInv /\ SavedInv /\ AskedInv /\ JobsInv /\ RepliesInv

-----------------------------------------------------------------------------
(* What the steps write into a turn's record.                              *)

\* The step writes the record of t and no other turn's.
Only(t) ==
  /\ turn' = [u \in Turns |-> turn'[u]]
  /\ \A u \in Turns \ {t} : turn'[u] = turn[u]

\* What the invariant looks at in a turn's record.
Holds(y, at, why, saved, unread, got, cancel, stalled, shutting) ==
  /\ TurnShape(y)
  /\ y.at = at /\ y.why = why /\ y.saved = saved /\ y.unread = unread /\ y.got = got
  /\ y.cancel = cancel /\ y.stalled = stalled /\ y.shutting = shutting

\* The record of t is y.
LEMMA Writes ==
  ASSUME Shape, NEW t \in Turns, NEW y, turn' = [turn EXCEPT ![t] = y]
  PROVE  Only(t) /\ turn'[t] = y
BY ZenonT(30) DEF Shape, TurnsShape, Only

\* A step that writes only where the turn is.
LEMMA GoesWrites ==
  ASSUME Shape, NEW t \in Turns, NEW at, Goes(t, at)
  PROVE  LET x == turn[t] IN
         /\ Only(t)
         /\ Holds(turn'[t], at, x.why, x.saved, x.unread, x.got,
                  x.cancel, x.stalled, x.shutting)
<1> DEFINE x == turn[t]
<1>1. TurnShape(x) /\ turn = [u \in Turns |-> turn[u]]
  BY DEF Shape, TurnsShape, WellFormed
<1>2. PICK y : y = [x EXCEPT !.at = at]
  BY ZenonT(30)
<1>3. turn' = [turn EXCEPT ![t] = y]
  BY <1>1, <1>2 DEF Goes
<1>4. Holds(y, at, x.why, x.saved, x.unread, x.got, x.cancel, x.stalled, x.shutting)
  BY <1>1, <1>2 DEF TurnShape, Holds
<1> QED
  BY ZenonT(30), <1>3, <1>4, Writes

\* A turn past its last reply keeps what it saved and relayed.
LEMMA PastRecord ==
  ASSUME NEW x, TurnShape(x), NEW at, NEW why, NEW y, y = Past(x, at, why)
  PROVE  Holds(y, at, why, x.saved, <<>>, x.got, FALSE, FALSE, FALSE)
<1>1. y = [at |-> at, on |-> x.on, num |-> x.num, why |-> why, saved |-> x.saved,
           unread |-> <<>>, got |-> x.got, cancel |-> FALSE,
           stalled |-> FALSE, shutting |-> FALSE]
  BY ZenonT(30) DEF TurnShape, Past
<1> QED
  BY <1>1 DEF TurnShape, Holds

\* A step that ends the relaying of t writes no other record.
LEMMA PastWrites ==
  ASSUME Shape, NEW t \in Turns, NEW at, NEW why,
         turn' = [turn EXCEPT ![t] = Past(turn[t], at, why)]
  PROVE  /\ Only(t)
         /\ Holds(turn'[t], at, why, turn[t].saved, <<>>, turn[t].got, FALSE, FALSE, FALSE)
<1>1. TurnShape(turn[t])
  BY DEF Shape, TurnsShape, WellFormed
<1>2. Only(t) /\ turn'[t] = Past(turn[t], at, why)
  BY Writes, Zenon
<1> QED
  BY <1>1, <1>2, PastRecord, Zenon

\* A turn that is gone keeps what it saved.
LEMMA GoneRecord ==
  ASSUME NEW x, NEW at, NEW y, y = Gone(x, at)
  PROVE  Holds(y, at, "completed", x.saved, <<>>, <<>>, FALSE, FALSE, FALSE)
<1>1. y = [at |-> at, on |-> NoReplica, num |-> x.num, why |-> "completed",
           saved |-> x.saved, unread |-> <<>>, got |-> <<>>, cancel |-> FALSE,
           stalled |-> FALSE, shutting |-> FALSE]
  BY ZenonT(30) DEF Gone, NewTurn
<1> QED
  BY <1>1 DEF TurnShape, Holds

\* A step that ends t writes no other record.
LEMMA EndsWrites ==
  ASSUME Shape, NEW t \in Turns, NEW at, Ends(t, at)
  PROVE  /\ Only(t)
         /\ Holds(turn'[t], at, "completed", turn[t].saved, <<>>, <<>>, FALSE, FALSE, FALSE)
<1>1. Only(t) /\ turn'[t] = Gone(turn[t], at)
  BY Writes, Zenon DEF Ends
<1> QED
  BY <1>1, GoneRecord, Zenon

-----------------------------------------------------------------------------
(* What keeps each part of the invariant.                                  *)

\* Keeping the records well formed.
LEMMA TurnsKept ==
  ASSUME Shape, NEW t \in Turns, Only(t), WellFormed(turn'[t])
  PROVE  TurnsShape'
BY DEF Only, Shape, TurnsShape

\* The index still names the run published last.
LEMMA FoundKept ==
  ASSUME Shape, FoundInv, NEW t \in Turns, Only(t), UNCHANGED <<index, latest>>,
         turn'[t].at = "published" \/ Running(t)' => turn[t].at = "published" \/ Running(t)
  PROVE  FoundInv'
<1>1. latest \in Turns => turn'[latest] = turn[latest] \/ latest = t
  BY DEF Only
<1> QED
  BY <1>1 DEF FoundInv, Running

\* Every record of a stream was there, or is rec.
Adds(rec) ==
  \A n \in Numbers : \A i \in DOMAIN stream'[n].log :
    \/ stream'[n].log[i] = rec
    \/ i \in DOMAIN stream[n].log /\ stream'[n].log[i] = stream[n].log[i]

\* A record is added to a stream.
LEMMA XAddAdds ==
  ASSUME StreamShape, NEW n, NEW rec \in Records, XAdd(n, rec)
  PROVE  StreamShape' /\ Adds(rec)
<1>1. CASE UNCHANGED stream
  BY <1>1 DEF StreamShape, Adds
<1>2. CASE stream' = [stream EXCEPT ![n].log = Append(@, rec)] /\ n \in Numbers
  <2>1. PICK l : l = Append(stream[n].log, rec)
    BY ZenonT(30)
  <2>2. /\ l \in Seq(Records)
        /\ \A i \in DOMAIN l :
             l[i] = rec \/ (i \in DOMAIN stream[n].log /\ l[i] = stream[n].log[i])
    BY <1>2, <2>1 DEF StreamShape
  <2>3. stream' = [stream EXCEPT ![n].log = l]
    BY <1>2, <2>1
  <2>4. \A m \in Numbers :
          stream'[m] = IF m = n THEN [log |-> l, base |-> stream[n].base] ELSE stream[m]
    BY ZenonT(30), <1>2, <2>3 DEF StreamShape
  <2>5. stream' = [m \in Numbers |-> stream'[m]]
    BY ZenonT(30), <2>3 DEF StreamShape
  <2>6. \A m \in Numbers : /\ stream'[m] = [log |-> stream'[m].log, base |-> stream'[m].base]
                            /\ stream'[m].log = IF m = n THEN l ELSE stream[m].log
    <3> TAKE m \in Numbers
    <3>1. CASE m = n
      BY <2>4, <3>1
    <3>2. CASE m # n
      BY ZenonT(30), <2>4, <3>2 DEF StreamShape
    <3> QED
      BY <3>1, <3>2
  <2>7. StreamShape'
    BY <2>2, <2>5, <2>6 DEF StreamShape
  <2>8. Adds(rec)
    BY ZenonT(30), <2>2, <2>6 DEF Adds
  <2> QED
    BY <2>7, <2>8
<1>3. CASE stream' = [stream EXCEPT ![n].log = Append(@, rec)] /\ n \notin Numbers
  <2>1. ASSUME NEW l, stream' = [stream EXCEPT ![n].log = l]
        PROVE  stream' = stream
    BY <1>3, <2>1 DEF StreamShape
  <2> QED
    BY ZenonT(30), <1>3, <2>1, <1>1
<1> QED
  BY <1>1, <1>2, <1>3 DEF XAdd

\* A stream's key is deleted.
LEMMA BaseMoves ==
  ASSUME StreamShape, NEW n, NEW k, stream' = [stream EXCEPT ![n].base = k]
  PROVE  StreamShape' /\ \A m \in Numbers : stream'[m].log = stream[m].log
<1>1. stream' = [m \in Numbers |-> stream'[m]]
  BY ZenonT(30) DEF StreamShape
<1>2. ASSUME NEW m \in Numbers
      PROVE  stream'[m] = IF m = n THEN [log |-> stream[n].log, base |-> k] ELSE stream[m]
  <2>1. CASE n \in Numbers
    <3>1. \A i \in Numbers :
            stream'[i] = IF i = n THEN [log |-> stream[n].log, base |-> k] ELSE stream[i]
      BY <2>1 DEF StreamShape
    <3> QED
      BY <3>1
  <2>2. CASE n \notin Numbers
    BY <2>2 DEF StreamShape
  <2> QED
    BY <2>1, <2>2
<1>3. ASSUME NEW m \in Numbers
      PROVE  /\ stream'[m] = [log |-> stream'[m].log, base |-> stream'[m].base]
             /\ stream'[m].log = stream[m].log
  <2>1. CASE m = n
    BY <1>2, <2>1
  <2>2. CASE m # n
    BY <1>2, <2>2 DEF StreamShape
  <2> QED
    BY <2>1, <2>2
<1> QED
  BY ZenonT(30), <1>1, <1>3 DEF StreamShape

\* What is saved stays, and a completed record is of a saved answer.
LEMMA SavedKept ==
  ASSUME SavedInv, NEW t \in Turns, Only(t),
         turn'[t].at = "closing" /\ turn'[t].why = "completed" => turn'[t].saved = "answered",
         turn'[t].saved = "answered" => turn'[t].at \in {"closing", "ended", "dead"},
         turn[t].saved = "answered" => turn'[t].saved = "answered",
         NEW rec, Adds(rec),
         rec.kind = "completed" => rec.of \in Turns /\ turn'[rec.of].saved = "answered"
  PROVE  SavedInv'
<1>1. ASSUME NEW u \in Turns
      PROVE  /\ turn'[u].at = "closing" /\ turn'[u].why = "completed" =>
                  turn'[u].saved = "answered"
             /\ turn'[u].saved = "answered" => turn'[u].at \in {"closing", "ended", "dead"}
             /\ turn[u].saved = "answered" => turn'[u].saved = "answered"
  BY DEF Only, SavedInv
<1> QED
  BY <1>1 DEF SavedInv, Adds

\* A stream that is left alone.
LEMMA SavedStays ==
  ASSUME SavedInv, NEW t \in Turns, Only(t), UNCHANGED stream,
         turn'[t].at = "closing" /\ turn'[t].why = "completed" => turn'[t].saved = "answered",
         turn'[t].saved = "answered" => turn'[t].at \in {"closing", "ended", "dead"},
         turn[t].saved = "answered" => turn'[t].saved = "answered"
  PROVE  SavedInv'
<1>1. PICK rec : rec = [kind |-> "frame"]
  BY ZenonT(30)
<1>2. Adds(rec) /\ rec.kind # "completed"
  BY <1>1 DEF Adds
<1> QED
  BY <1>2, SavedKept

\* What a Stop may have asked of t.
AskedOf(t) ==
  /\ Undecided(t) /\ turn[t].stalled => <<t, TRUE>> \in asked
  /\ Undecided(t) /\ turn[t].cancel =>
       turn[t].shutting \/ turn[t].stalled \/ <<t, FALSE>> \in asked
  /\ Undecided(t) /\ (t \in flag \/ StoppedReply(t)) => Told(t)
  /\ turn[t].at \in {"saving", "closing"} =>
       /\ turn[t].why = "cancelled" => <<t, FALSE>> \in asked
       /\ turn[t].why = "stalled" => <<t, TRUE>> \in asked

\* A step that writes one record keeps what ends a turn as asked.
LEMMA AskedKept ==
  ASSUME AskedInv, NEW t \in Turns, Only(t), UNCHANGED <<flag, cause, asked, stop>>,
         AskedOf(t)'
  PROVE  AskedInv'
<1>1. ASSUME NEW u \in Turns
      PROVE  AskedOf(u)'
  <2>1. CASE u = t
    BY <2>1
  <2>2. CASE u # t
    <3>1. turn'[u] = turn[u]
      BY <2>2 DEF Only
    <3>2. AskedOf(u)
      BY ZenonT(30) DEF AskedInv, AskedOf, CancelledWasAsked
    <3> QED
      BY <3>1, <3>2 DEF AskedOf, Undecided, Early, StoppedReply, Told
  <2> QED
    BY <2>1, <2>2
<1>2. \A s \in Stops : stop'[s].at \in {"reading", "written"} =>
        <<stop'[s].aim, stop'[s].stalled>> \in asked'
  BY DEF AskedInv
<1>3. \A u \in cause' : <<u, TRUE>> \in asked'
  BY ZenonT(30) DEF AskedInv
<1> QED
  BY ZenonT(30), <1>1, <1>2, <1>3 DEF AskedInv, AskedOf, CancelledWasAsked

\* The jobs and the pods of the turns.
LEMMA JobsKept ==
  ASSUME Shape, JobsInv, NEW t \in Turns, Only(t), UNCHANGED <<jobs, pod, sent>>,
         Early(t)' => Early(t) /\ turn'[t].got = turn[t].got
  PROVE  JobsInv'
<1>1. \A k \in 1..Len(jobs) : jobs[k] \in Turns
  BY DEF Shape
<1>2. \A u \in Turns : Early(u)' => Early(u) /\ turn'[u].got = turn[u].got
  BY DEF Only, Early
<1> QED
  BY <1>1, <1>2 DEF JobsInv

\* What a turn has relayed.
OwnReplies(t) ==
  /\ Len(turn[t].got) <= sent[t]
  /\ \A i \in 1..Len(turn[t].got) : turn[t].got[i] = <<t, i>>
  /\ turn[t].at = "relaying" => RelayInv(t)
  /\ turn[t].at = "saving" /\ turn[t].why = "completed" =>
       pod[t] = "over" /\ Len(turn[t].got) = sent[t]

\* A step that writes one record keeps the replies of the others.
LEMMA RepliesKept ==
  ASSUME RepliesInv, NEW t \in Turns, Only(t), UNCHANGED <<pod, sent>>, OwnReplies(t)'
  PROVE  RepliesInv'
<1>1. ASSUME NEW u \in Turns
      PROVE  OwnReplies(u)'
  <2>1. CASE u = t
    BY <2>1
  <2>2. CASE u # t
    <3>1. turn'[u] = turn[u]
      BY <2>2 DEF Only
    <3>2. OwnReplies(u)
      BY DEF RepliesInv, OwnReplies
    <3> QED
      BY <3>1, <3>2 DEF OwnReplies, RelayInv
  <2> QED
    BY <2>1, <2>2
<1> QED
  BY <1>1 DEF RepliesInv, OwnReplies

\* A record with nothing unread and no cancel.
LEMMA QuietWellFormed ==
  ASSUME NEW y, NEW at, NEW why \in Reasons \cup {"stalled"}, NEW saved,
         NEW got \in Seq(Turns \X Nat),
         Holds(y, at, why, saved, <<>>, got, FALSE, FALSE, FALSE)
  PROVE  WellFormed(y)
<1>1. y.unread \in Seq(Replies)
  BY DEF Holds
<1>2. {y.cancel, y.stalled, y.shutting} \subseteq BOOLEAN
  BY ZenonT(30) DEF Holds
<1>3. TurnShape(y) /\ y.why = why /\ y.got = got
  BY DEF Holds
<1> QED
  BY <1>1, <1>2, <1>3 DEF WellFormed

-----------------------------------------------------------------------------
(* The steps of a turn, by what becomes of its record.                     *)

\* What no step of a turn's own changes but the step that queues its job.
Alone == UNCHANGED <<flag, cause, jobs, pod, sent, stop, asked>>

\* Before the job is queued a turn has relayed nothing.
LEMMA EarlyStep ==
  ASSUME Inv, NEW t \in Turns, Alone, Only(t), Early(t), NEW at, NEW saved,
         at \in {"counted", "published", "unstarted", "asked"},
         LET x == turn[t] IN
         Holds(turn'[t], at, x.why, saved, x.unread, x.got, x.cancel, x.stalled, x.shutting)
  PROVE  TurnsShape' /\ AskedInv' /\ JobsInv' /\ RepliesInv'
<1>1. TurnsShape'
  <2>1. WellFormed(turn'[t])
    BY DEF Inv, Shape, TurnsShape, WellFormed, Holds
  <2> QED
    BY <2>1, TurnsKept DEF Inv
<1>2. /\ turn'[t].at = at /\ turn'[t].got = turn[t].got /\ turn'[t].unread = turn[t].unread
      /\ turn'[t].cancel = turn[t].cancel /\ turn'[t].stalled = turn[t].stalled
      /\ turn'[t].shutting = turn[t].shutting
  BY DEF Holds
<1>3. Early(t)'
  BY <1>2 DEF Early
<1>4. AskedOf(t)'
  <2>1. AskedOf(t) /\ Undecided(t)
    BY ZenonT(30) DEF Inv, AskedInv, AskedOf, CancelledWasAsked, Undecided
  <2> QED
    BY <1>2, <2>1 DEF AskedOf, StoppedReply, Told, Alone
<1>5. AskedInv'
  BY <1>4, AskedKept DEF Inv, Alone
<1>6. JobsInv'
  BY <1>2, <1>3, JobsKept DEF Inv, Alone
<1>7. OwnReplies(t)'
  BY <1>2 DEF Inv, RepliesInv, OwnReplies, Alone
<1>8. RepliesInv'
  BY <1>7, RepliesKept DEF Inv, Alone
<1> QED
  BY <1>1, <1>5, <1>6, <1>8

\* A turn that has ended has nothing left to relay.
LEMMA EndStep ==
  ASSUME Inv, NEW t \in Turns, Alone, Only(t), NEW at \in {"ended", "refused"},
         Holds(turn'[t], at, "completed", turn[t].saved, <<>>, <<>>, FALSE, FALSE, FALSE)
  PROVE  TurnsShape' /\ AskedInv' /\ JobsInv' /\ RepliesInv'
<1>1. TurnsShape'
  <2>1. WellFormed(turn'[t])
    <3>1. "completed" \in Reasons /\ <<>> \in Seq(Turns \X Nat)
      BY DEF Reasons
    <3> QED
      BY ZenonT(30), <3>1, QuietWellFormed
  <2> QED
    BY <2>1, TurnsKept DEF Inv
<1>2. turn'[t].at = at /\ turn'[t].got = <<>>
  BY DEF Holds
<1>3. ~Early(t)'
  BY <1>2 DEF Early
<1>4. AskedOf(t)'
  BY <1>2, <1>3 DEF AskedOf, Undecided
<1>5. AskedInv'
  BY <1>4, AskedKept DEF Inv, Alone
<1>6. JobsInv'
  BY <1>3, JobsKept DEF Inv, Alone
<1>7. OwnReplies(t)'
  BY <1>2 DEF Inv, Shape, OwnReplies, Alone
<1>8. RepliesInv'
  BY <1>7, RepliesKept DEF Inv, Alone
<1> QED
  BY <1>1, <1>5, <1>6, <1>8

\* A turn whose end is decided: as stopped or as stalled because somebody
\* asked for it, as completed when it relayed all its pod sent.
LEMMA PastStep ==
  ASSUME Inv, NEW t \in Turns, Alone, Only(t), NEW at \in {"saving", "closing"},
         NEW why \in Reasons \cup {"stalled"},
         Holds(turn'[t], at, why, turn[t].saved, <<>>, turn[t].got, FALSE, FALSE, FALSE),
         why = "cancelled" => <<t, FALSE>> \in asked,
         why = "stalled" => <<t, TRUE>> \in asked,
         why = "completed" => pod[t] = "over" /\ Len(turn[t].got) = sent[t]
  PROVE  TurnsShape' /\ AskedInv' /\ JobsInv' /\ RepliesInv'
<1>1. TurnsShape'
  <2>1. WellFormed(turn'[t])
    <3>1. turn[t].got \in Seq(Turns \X Nat)
      BY DEF Inv, Shape, TurnsShape, WellFormed
    <3> QED
      BY ZenonT(30), <3>1, QuietWellFormed
  <2> QED
    BY <2>1, TurnsKept DEF Inv
<1>2. turn'[t].at = at /\ turn'[t].why = why /\ turn'[t].got = turn[t].got
  BY DEF Holds
<1>3. ~Early(t)'
  BY <1>2 DEF Early
<1>4. AskedOf(t)'
  BY <1>2, <1>3 DEF AskedOf, Undecided, Alone
<1>5. AskedInv'
  BY <1>4, AskedKept DEF Inv, Alone
<1>6. JobsInv'
  BY <1>3, JobsKept DEF Inv, Alone
<1>7. OwnReplies(t)'
  BY <1>2 DEF Inv, RepliesInv, OwnReplies, Alone
<1>8. RepliesInv'
  BY <1>7, RepliesKept DEF Inv, Alone
<1> QED
  BY <1>1, <1>5, <1>6, <1>8

-----------------------------------------------------------------------------
(* Every action keeps the invariant.                                       *)

\* A POST that takes its number.
LEMMA PostKeeps ==
  ASSUME Inv, NEW t \in Turns, NEW p \in Replicas, Post(t, p)
  PROVE  Inv'
<1> DEFINE x == turn[t]
<1>1. TurnShape(x) /\ turn = [u \in Turns |-> turn[u]]
  BY DEF Inv, Shape, TurnsShape, WellFormed
<1>2. PICK c : c = MessageCount
  OBVIOUS
<1>3. PICK y : y = [x EXCEPT !.at = "counted", !.on = p, !.num = c]
  OBVIOUS
<1>4. turn' = [turn EXCEPT ![t] = y]
  BY ZenonT(30), <1>1, <1>2, <1>3 DEF Post
<1>5. Holds(y, "counted", x.why, x.saved, x.unread, x.got, x.cancel, x.stalled, x.shutting)
  BY ZenonT(30), <1>1, <1>3 DEF TurnShape, Holds
<1>6. /\ Only(t) /\ turn'[t] = y
      /\ Holds(turn'[t], "counted", x.why, x.saved, x.unread, x.got,
               x.cancel, x.stalled, x.shutting)
  BY ZenonT(30), <1>4, <1>5, Writes DEF Inv
<1>7. Alone /\ Early(t) /\ UNCHANGED <<handle, index, stream, latest>>
  BY DEF Post, Alone, Early, redis
<1>8. TurnsShape' /\ AskedInv' /\ JobsInv' /\ RepliesInv'
  BY <1>6, <1>7, EarlyStep
<1>9. turn'[t].at = "counted" /\ turn'[t].saved = turn[t].saved
  BY <1>6 DEF Holds
<1>10. FoundInv'
  BY <1>6, <1>7, <1>9, FoundKept DEF Inv, Running
<1>11. SavedInv'
  <2>1. turn[t].saved # "answered"
    BY DEF Inv, SavedInv, Post
  <2> QED
    BY <1>6, <1>7, <1>9, <2>1, SavedStays DEF Inv
<1>12. Shape'
  BY <1>7, <1>8 DEF Inv, Shape, Alone, StreamShape, StopsShape
<1> QED
  BY <1>8, <1>10, <1>11, <1>12 DEF Inv

\* The run that is published, or refused.
LEMMA PublishKeeps ==
  ASSUME Inv, NEW t \in Turns, StartPublishes(t)
  PROVE  Inv'
<1> DEFINE n == turn[t].num
<1>1. Alone /\ Early(t) /\ UNCHANGED handle /\ turn[t].at = "counted"
  BY DEF StartPublishes, Alone, Early
<1>2. turn[t].saved # "answered"
  BY <1>1 DEF Inv, SavedInv
<1>3. CASE Ends(t, "refused") /\ UNCHANGED <<index, stream, latest>>
  <2>1. /\ Only(t)
        /\ Holds(turn'[t], "refused", "completed", turn[t].saved, <<>>, <<>>,
                 FALSE, FALSE, FALSE)
    BY ZenonT(30), <1>3, EndsWrites DEF Inv
  <2>2. TurnsShape' /\ AskedInv' /\ JobsInv' /\ RepliesInv'
    BY ZenonT(30), <1>1, <2>1, EndStep
  <2>3. turn'[t].at = "refused" /\ turn'[t].saved = turn[t].saved
    BY <2>1 DEF Holds
  <2>4. FoundInv'
    BY <1>3, <2>1, <2>3, FoundKept DEF Inv, Running
  <2>5. SavedInv'
    BY <1>2, <1>3, <2>1, <2>3, SavedStays DEF Inv
  <2>6. Shape'
    BY <1>1, <1>3, <2>2 DEF Inv, Shape, Alone, StreamShape, StopsShape
  <2> QED
    BY <2>2, <2>4, <2>5, <2>6 DEF Inv
<1>4. CASE /\ Goes(t, "published") /\ index' = t /\ latest' = t
           /\ stream' = IF Closed(n) THEN [stream EXCEPT ![n].base = Len(stream[n].log)]
                        ELSE stream
  <2>1. /\ Only(t)
        /\ Holds(turn'[t], "published", turn[t].why, turn[t].saved, turn[t].unread,
                 turn[t].got, turn[t].cancel, turn[t].stalled, turn[t].shutting)
    BY <1>4, GoesWrites DEF Inv
  <2>2. TurnsShape' /\ AskedInv' /\ JobsInv' /\ RepliesInv'
    BY <1>1, <2>1, EarlyStep
  <2>3. turn'[t].at = "published" /\ turn'[t].saved = turn[t].saved
    BY <2>1 DEF Holds
  <2>4. FoundInv'
    BY <1>4 DEF FoundInv
  <2>5. StreamShape' /\ \A m \in Numbers : stream'[m].log = stream[m].log
    <3>1. CASE UNCHANGED stream
      BY <3>1 DEF Inv, Shape, StreamShape
    <3> QED
      BY ZenonT(30), <1>4, <3>1, BaseMoves DEF Inv, Shape
  <2>6. SavedInv'
    <3>1. PICK rec : rec = [kind |-> "frame"]
      BY ZenonT(30)
    <3>2. Adds(rec) /\ rec.kind # "completed"
      BY <2>5, <3>1 DEF Adds
    <3> QED
      BY <1>2, <2>1, <2>3, <3>2, SavedKept DEF Inv
  <2>7. Shape'
    BY <1>1, <1>4, <2>2, <2>5 DEF Inv, Shape, Alone, StopsShape
  <2> QED
    BY <2>2, <2>4, <2>6, <2>7 DEF Inv
<1> QED
  BY <1>3, <1>4 DEF StartPublishes

\* The run that is registered with its replica, or withdrawn.
LEMMA RegisterKeeps ==
  ASSUME Inv, NEW t \in Turns, StartRegisters(t)
  PROVE  Inv'
<1> DEFINE p == turn[t].on
<1>1. Alone /\ Early(t) /\ UNCHANGED <<stream, latest>> /\ turn[t].at = "published"
  BY DEF StartRegisters, Alone, Early
<1>2. turn[t].saved # "answered"
  BY <1>1 DEF Inv, SavedInv
<1>3. CASE Ends(t, "refused") /\ ForgetRun(t) /\ UNCHANGED handle
  <2>1. /\ Only(t)
        /\ Holds(turn'[t], "refused", "completed", turn[t].saved, <<>>, <<>>,
                 FALSE, FALSE, FALSE)
    BY ZenonT(30), <1>3, EndsWrites DEF Inv
  <2>2. TurnsShape' /\ AskedInv' /\ JobsInv' /\ RepliesInv'
    BY ZenonT(30), <1>1, <2>1, EndStep
  <2>3. turn'[t].at = "refused" /\ turn'[t].saved = turn[t].saved
    BY <2>1 DEF Holds
  <2>4. FoundInv'
    <3>1. latest \in Turns => latest = t \/ turn'[latest] = turn[latest]
      BY <2>1 DEF Only
    <3> QED
      BY <1>1, <1>3, <2>3, <3>1 DEF Inv, FoundInv, Running, ForgetRun
  <2>5. SavedInv'
    BY <1>1, <1>2, <2>1, <2>3, SavedStays DEF Inv
  <2>6. Shape'
    BY <1>1, <1>3, <2>2 DEF Inv, Shape, Alone, StreamShape, StopsShape, ForgetRun
  <2> QED
    BY <2>2, <2>4, <2>5, <2>6 DEF Inv
<1>4. CASE Goes(t, "unstarted") /\ handle' = [handle EXCEPT ![p] = t] /\ UNCHANGED index
  <2>1. /\ Only(t)
        /\ Holds(turn'[t], "unstarted", turn[t].why, turn[t].saved, turn[t].unread,
                 turn[t].got, turn[t].cancel, turn[t].stalled, turn[t].shutting)
    BY <1>4, GoesWrites DEF Inv
  <2>2. TurnsShape' /\ AskedInv' /\ JobsInv' /\ RepliesInv'
    BY <1>1, <2>1, EarlyStep
  <2>3. turn'[t].at = "unstarted" /\ turn'[t].saved = turn[t].saved
    BY <2>1 DEF Holds
  <2>4. FoundInv'
    BY <1>1, <1>4, <2>1, FoundKept DEF Inv
  <2>5. SavedInv'
    BY <1>1, <1>2, <2>1, <2>3, SavedStays DEF Inv
  <2>6. Shape'
    BY ZenonT(30), <1>1, <1>4, <2>2
       DEF Inv, Shape, Alone, StreamShape, StopsShape
  <2> QED
    BY <2>2, <2>4, <2>5, <2>6 DEF Inv
<1> QED
  BY <1>3, <1>4 DEF StartRegisters

\* A running turn's end is decided.
LEMMA PastKeeps ==
  ASSUME Inv, NEW t \in Turns, Alone, UNCHANGED <<handle, index, latest, stream>>,
         turn[t].at \in {"unstarted", "asked", "relaying"},
         NEW at \in {"saving", "closing"}, NEW why \in Reasons \cup {"stalled"},
         turn' = [turn EXCEPT ![t] = Past(turn[t], at, why)],
         why = "cancelled" => <<t, FALSE>> \in asked,
         why = "stalled" => <<t, TRUE>> \in asked,
         why = "completed" => at = "saving" /\ pod[t] = "over" /\ Len(turn[t].got) = sent[t]
  PROVE  Inv'
<1>1. /\ Only(t)
      /\ Holds(turn'[t], at, why, turn[t].saved, <<>>, turn[t].got, FALSE, FALSE, FALSE)
  BY ZenonT(30), PastWrites DEF Inv
<1>2. TurnsShape' /\ AskedInv' /\ JobsInv' /\ RepliesInv'
  BY ZenonT(30), <1>1, PastStep
<1>3. turn'[t].at = at /\ turn'[t].why = why /\ turn'[t].saved = turn[t].saved
  BY <1>1 DEF Holds
<1>4. turn[t].saved # "answered" /\ t # NoTurn
  BY RemoteTurnsAssumption DEF Inv, SavedInv
<1>5. FoundInv'
  BY <1>1, <1>4, FoundKept DEF Inv, Running
<1>6. SavedInv'
  BY <1>1, <1>3, <1>4, SavedStays DEF Inv
<1>7. Shape'
  BY <1>2 DEF Inv, Shape, Alone, StreamShape, StopsShape
<1> QED
  BY <1>2, <1>5, <1>6, <1>7 DEF Inv

\* The question that is saved, or not.
LEMMA SaveQuestionKeeps ==
  ASSUME Inv, NEW t \in Turns, SaveQuestion(t)
  PROVE  Inv'
<1> DEFINE x == turn[t]
<1>1. /\ Alone /\ Early(t) /\ UNCHANGED <<handle, index, stream, latest>>
      /\ x.at = "unstarted"
  BY DEF SaveQuestion, Alone, Early, redis
<1>2. CASE turn' = [turn EXCEPT ![t].at = "asked", ![t].saved = "pending"]
  <2>1. TurnShape(x) /\ turn = [u \in Turns |-> turn[u]]
    BY DEF Inv, Shape, TurnsShape, WellFormed
  <2>2. PICK y : y = [x EXCEPT !.at = "asked", !.saved = "pending"]
    OBVIOUS
  <2>3. turn' = [turn EXCEPT ![t] = y]
    BY ZenonT(30), <1>2, <2>1, <2>2
  <2>4. Holds(y, "asked", x.why, "pending", x.unread, x.got, x.cancel, x.stalled, x.shutting)
    BY ZenonT(30), <2>1, <2>2 DEF TurnShape, Holds
  <2>5. /\ Only(t)
        /\ Holds(turn'[t], "asked", x.why, "pending", x.unread, x.got,
                 x.cancel, x.stalled, x.shutting)
    BY ZenonT(30), <2>3, <2>4, Writes DEF Inv
  <2>6. TurnsShape' /\ AskedInv' /\ JobsInv' /\ RepliesInv'
    BY <1>1, <2>5, EarlyStep
  <2>7. turn'[t].at = "asked" /\ turn'[t].saved = "pending" /\ t # NoTurn
    BY <2>5, RemoteTurnsAssumption DEF Holds
  <2>8. FoundInv'
    BY <1>1, <2>5, <2>7, FoundKept DEF Inv, Running
  <2>9. SavedInv'
    BY ZenonT(30), <1>1, <2>5, <2>7, SavedStays DEF Inv, SavedInv
  <2>10. Shape'
    BY <1>1, <2>6 DEF Inv, Shape, Alone, StreamShape, StopsShape
  <2> QED
    BY <2>6, <2>8, <2>9, <2>10 DEF Inv
<1>3. CASE turn' = [turn EXCEPT ![t] = Past(turn[t], "closing", "error")]
  <2>1. PICK at, why : at = "closing" /\ why = "error"
    OBVIOUS
  <2>2. /\ at \in {"saving", "closing"} /\ why \in Reasons
        /\ why # "cancelled" /\ why # "stalled" /\ why # "completed"
    BY <2>1 DEF Reasons
  <2>3. turn' = [turn EXCEPT ![t] = Past(turn[t], at, why)]
    BY <1>3, <2>1
  <2> QED
    BY ZenonT(30), <1>1, <2>2, <2>3, PastKeeps
<1> QED
  BY <1>2, <1>3 DEF SaveQuestion

\* The relay that hears nothing for too long.
LEMMA IdleKeeps ==
  ASSUME Inv, NEW t \in Turns, RelayIdles(t)
  PROVE  Inv'
<1>1. /\ Alone /\ UNCHANGED <<handle, index, stream, latest>> /\ turn[t].at = "relaying"
      /\ turn' = [turn EXCEPT ![t] = Past(turn[t], "saving", "error")]
  BY DEF RelayIdles, Alone, redis, Unwinds
<1>2. PICK at, why : at = "saving" /\ why = "error"
  OBVIOUS
<1>3. /\ at \in {"saving", "closing"} /\ why \in Reasons
      /\ why # "cancelled" /\ why # "stalled" /\ why # "completed"
  BY <1>2 DEF Reasons
<1>4. turn' = [turn EXCEPT ![t] = Past(turn[t], at, why)]
  BY <1>1, <1>2
<1> QED
  BY ZenonT(30), <1>1, <1>3, <1>4, PastKeeps

\* How a cancelled task's turn ends: somebody asked for it.
LEMMA CancelReasonAsked ==
  ASSUME Inv, NEW t \in Turns, NEW x, x.shutting = turn[t].shutting, x.stalled \in BOOLEAN,
         x.shutting \/ x.stalled \/ <<t, FALSE>> \in asked,
         x.stalled => <<t, TRUE>> \in asked
  PROVE  /\ CancelReason(x) \in Reasons \cup {"stalled"}
         /\ CancelReason(x) = "cancelled" => <<t, FALSE>> \in asked
         /\ CancelReason(x) = "stalled" => <<t, TRUE>> \in asked
         /\ CancelReason(x) # "completed"
BY DEF CancelReason, Reasons

\* The task that is cancelled where it waits.
LEMMA UnwindKeeps ==
  ASSUME Inv, NEW t \in Turns, Unwind(t)
  PROVE  Inv'
<1> DEFINE x == turn[t]
<1>1. Alone /\ UNCHANGED <<handle, index, stream, latest>> /\ x.cancel
  BY DEF Unwind, Alone, redis
<1>2. CASE x.at = "unstarted" /\ Ends(t, "ended")
  <2>1. /\ Only(t)
        /\ Holds(turn'[t], "ended", "completed", x.saved, <<>>, <<>>, FALSE, FALSE, FALSE)
    BY ZenonT(30), <1>2, EndsWrites DEF Inv
  <2>2. TurnsShape' /\ AskedInv' /\ JobsInv' /\ RepliesInv'
    BY ZenonT(30), <1>1, <2>1, EndStep
  <2>3. turn'[t].at = "ended" /\ turn'[t].saved = x.saved
    BY <2>1 DEF Holds
  <2>4. FoundInv'
    BY <1>1, <2>1, <2>3, FoundKept DEF Inv, Running
  <2>5. SavedInv'
    BY <1>1, <2>1, <2>3, SavedStays DEF Inv
  <2>6. Shape'
    BY <1>1, <2>2 DEF Inv, Shape, Alone, StreamShape, StopsShape
  <2> QED
    BY <2>2, <2>4, <2>5, <2>6 DEF Inv
<1>3. CASE x.at \in {"asked", "relaying"} /\ Unwinds(t, CancelReason(x))
  <2>1. Undecided(t)
    BY <1>3 DEF Undecided, Early
  <2>2. x.shutting \/ x.stalled \/ <<t, FALSE>> \in asked
    BY ZenonT(30), <1>1, <2>1 DEF Inv, AskedInv
  <2>3. x.stalled => <<t, TRUE>> \in asked
    BY ZenonT(30), <2>1 DEF Inv, AskedInv
  <2>4. x.stalled \in BOOLEAN
    BY DEF Inv, Shape, TurnsShape, WellFormed
  <2>5. PICK why : why = CancelReason(x)
    OBVIOUS
  <2>6. /\ why \in Reasons \cup {"stalled"} /\ why # "completed"
        /\ why = "cancelled" => <<t, FALSE>> \in asked
        /\ why = "stalled" => <<t, TRUE>> \in asked
    BY ZenonT(30), <2>2, <2>3, <2>4, <2>5, CancelReasonAsked
  <2>7. turn' = [turn EXCEPT ![t] = Past(turn[t], "saving", why)]
    BY <1>3, <2>5 DEF Unwinds
  <2> QED
    BY ZenonT(30), <1>1, <1>3, <2>6, <2>7, PastKeeps
<1> QED
  BY <1>2, <1>3 DEF Unwind

\* A frame in a stream.
LEMMA FrameAdds ==
  ASSUME Inv, NEW t \in Turns, NEW n, XAdd(n, [of |-> t, kind |-> "frame"])
  PROVE  StreamShape' /\ \E rec : Adds(rec) /\ rec.kind # "completed"
<1>1. PICK rec : rec = [of |-> t, kind |-> "frame"]
  OBVIOUS
<1>2. rec \in Records /\ rec.kind # "completed"
  BY <1>1 DEF Records
<1>3. XAdd(n, rec)
  BY <1>1
<1> QED
  BY <1>2, <1>3, XAddAdds DEF Inv, Shape

\* The created frame, and the job for the controller.
LEMMA EnqueueKeeps ==
  ASSUME Inv, NEW t \in Turns, Enqueue(t)
  PROVE  Inv'
<1> DEFINE x == turn[t]
<1>1. /\ x.at = "asked" /\ ~x.cancel /\ Early(t) /\ jobs' = Append(jobs, t)
      /\ UNCHANGED <<handle, index, flag, cause, pod, sent, stop, asked, latest>>
  BY DEF Enqueue, Early
<1>2. TurnShape(x) /\ turn = [u \in Turns |-> turn[u]]
  BY DEF Inv, Shape, TurnsShape, WellFormed
<1>3. PICK y : y = [x EXCEPT !.at = "relaying", !.unread = <<>>]
  OBVIOUS
<1>4. turn' = [turn EXCEPT ![t] = y]
  BY ZenonT(30), <1>2, <1>3 DEF Enqueue
<1>5. Holds(y, "relaying", x.why, x.saved, <<>>, x.got, x.cancel, x.stalled, x.shutting)
  BY ZenonT(30), <1>2, <1>3 DEF TurnShape, Holds
<1>6. Only(t) /\ turn'[t] = y
  BY ZenonT(30), <1>4, Writes DEF Inv
<1>7. /\ y.at = "relaying" /\ y.unread = <<>> /\ y.got = x.got /\ y.saved = x.saved
      /\ y.cancel = x.cancel /\ y.stalled = x.stalled /\ y.shutting = x.shutting
  BY <1>5 DEF Holds
<1>8. TurnsShape'
  <2>1. WellFormed(x)
    BY DEF Inv, Shape, TurnsShape
  <2>2. WellFormed(y)
    BY <1>5, <2>1 DEF WellFormed, Holds
  <2> QED
    BY <1>6, <2>2, TurnsKept DEF Inv
<1>9. AskedInv'
  <2>1. AskedOf(t) /\ Undecided(t)
    BY ZenonT(30), <1>1 DEF Inv, AskedInv, AskedOf, CancelledWasAsked, Undecided
  <2>2. ~StoppedReply(t)'
    BY <1>6, <1>7 DEF StoppedReply
  <2>3. AskedOf(t)'
    BY <1>1, <1>6, <1>7, <2>1, <2>2 DEF AskedOf, Told
  <2> QED
    BY <1>1, <1>6, <2>3, AskedKept DEF Inv
<1>10. JobsInv'
  <2>1. \A k \in 1..Len(jobs) : jobs[k] \in Turns /\ jobs[k] # t
    BY <1>1 DEF Inv, Shape, JobsInv
  <2>2. \A u \in Turns : Early(u)' <=> Early(u) /\ u # t
    BY <1>6, <1>7 DEF Only, Early
  <2>3. \A u \in Turns : Early(u)' => turn'[u].got = turn[u].got
    BY <1>6, <2>2 DEF Only
  <2>4. pod[t] = "none"
    BY <1>1 DEF Inv, JobsInv
  <2>5. /\ Len(jobs') = Len(jobs) + 1 /\ Len(jobs) \in Nat
        /\ \A k \in 1..Len(jobs') : jobs'[k] = IF k = Len(jobs) + 1 THEN t ELSE jobs[k]
    BY <1>1 DEF Inv, Shape
  <2>6. \A k \in 1..Len(jobs') : pod'[jobs'[k]] = "none" /\ ~Early(jobs[k])'
    BY <1>1, <2>1, <2>2, <2>4, <2>5 DEF Inv, JobsInv
  <2>7. \A k, l \in 1..Len(jobs') : jobs'[k] = jobs'[l] => k = l
    BY <2>1, <2>5 DEF Inv, JobsInv
  <2> QED
    BY <1>1, <2>2, <2>3, <2>6, <2>7 DEF Inv, JobsInv
<1>11. RepliesInv'
  <2>1. x.got = <<>> /\ sent[t] = 0
    BY <1>1 DEF Inv, JobsInv
  <2>2. RelayInv(t)'
    BY <1>1, <1>6, <1>7, <2>1 DEF RelayInv, Unrelayed, InOrder, EndBehind
  <2>3. OwnReplies(t)'
    BY <1>1, <1>6, <1>7, <2>1, <2>2 DEF OwnReplies
  <2> QED
    BY <1>1, <1>6, <2>3, RepliesKept DEF Inv
<1>12. FoundInv'
  BY <1>1, <1>6, <1>7, FoundKept, RemoteTurnsAssumption DEF Inv, Running
<1>13. StreamShape' /\ SavedInv'
  <2>1. PICK rec : Adds(rec) /\ rec.kind # "completed"
    BY FrameAdds DEF Enqueue
  <2>2. StreamShape'
    BY FrameAdds DEF Enqueue
  <2>3. x.saved # "answered"
    BY <1>1 DEF Inv, SavedInv
  <2>4. SavedInv'
    BY <1>6, <1>7, <2>1, <2>3, SavedKept DEF Inv
  <2> QED
    BY <2>2, <2>4
<1>14. Shape'
  BY <1>1, <1>8, <1>13 DEF Inv, Shape, StopsShape
<1> QED
  BY <1>9, <1>10, <1>11, <1>12, <1>13, <1>14 DEF Inv

\* The answer that is saved, or not.
LEMMA SaveAnswerKeeps ==
  ASSUME Inv, NEW t \in Turns, SaveAnswer(t)
  PROVE  Inv'
<1> DEFINE x == turn[t]
<1>1. Alone /\ UNCHANGED <<handle, index, stream, latest>> /\ x.at = "saving"
  BY DEF SaveAnswer, Alone, redis
<1>2. TurnShape(x) /\ turn = [u \in Turns |-> turn[u]] /\ WellFormed(x)
  BY DEF Inv, Shape, TurnsShape, WellFormed
<1>3. ASSUME NEW why \in Reasons \cup {"stalled"}, NEW saved, NEW y,
             turn' = [turn EXCEPT ![t] = y],
             Holds(y, "closing", why, saved, x.unread, x.got, x.cancel, x.stalled, x.shutting),
             why = "completed" => saved = "answered",
             why \in {x.why, "error"}
      PROVE  Inv'
  <2>1. Only(t) /\ turn'[t] = y
    BY ZenonT(30), <1>3, Writes DEF Inv
  <2>2. /\ y.at = "closing" /\ y.why = why /\ y.saved = saved /\ y.got = x.got
        /\ y.unread = x.unread /\ y.cancel = x.cancel /\ y.stalled = x.stalled
        /\ y.shutting = x.shutting
    BY <1>3 DEF Holds
  <2>3. TurnsShape'
    <3>1. WellFormed(y)
      BY <1>2, <1>3 DEF WellFormed, Holds
    <3> QED
      BY <2>1, <3>1, TurnsKept DEF Inv
  <2>4. ~Early(t)' /\ ~Undecided(t)'
    BY <2>1, <2>2 DEF Early, Undecided
  <2>5. AskedInv'
    <3>1. AskedOf(t)'
      BY ZenonT(30), <1>1, <1>3, <2>1, <2>2, <2>4
         DEF AskedOf, Alone, Inv, AskedInv, CancelledWasAsked
    <3> QED
      BY <1>1, <2>1, <3>1, AskedKept DEF Inv, Alone
  <2>6. JobsInv'
    BY ZenonT(30), <1>1, <2>1, <2>4, JobsKept DEF Inv, Alone
  <2>7. RepliesInv'
    <3>1. OwnReplies(t)'
      BY <1>1, <2>1, <2>2 DEF Inv, RepliesInv, OwnReplies, Alone
    <3> QED
      BY <1>1, <2>1, <3>1, RepliesKept DEF Inv, Alone
  <2>8. FoundInv'
    BY <1>1, <2>1, <2>2, FoundKept, RemoteTurnsAssumption DEF Inv, Running
  <2>9. SavedInv'
    <3>1. x.saved # "answered"
      BY <1>1 DEF Inv, SavedInv
    <3> QED
      BY <1>1, <1>3, <2>1, <2>2, <3>1, SavedStays DEF Inv
  <2>10. Shape'
    BY <1>1, <2>3 DEF Inv, Shape, Alone, StreamShape, StopsShape
  <2> QED
    BY <2>5, <2>6, <2>7, <2>8, <2>9, <2>10 DEF Inv
<1>4. ASSUME NEW saved, saved = IF Empty(x) THEN "alone" ELSE "answered",
             turn' = [turn EXCEPT ![t].at = "closing", ![t].saved = saved]
      PROVE  Inv'
  <2>1. PICK y : y = [x EXCEPT !.at = "closing", !.saved = saved]
    OBVIOUS
  <2>2. turn' = [turn EXCEPT ![t] = y]
    BY ZenonT(30), <1>2, <1>4, <2>1
  <2>3. Holds(y, "closing", x.why, saved, x.unread, x.got, x.cancel, x.stalled, x.shutting)
    BY ZenonT(30), <1>2, <2>1 DEF TurnShape, Holds
  <2>4. x.why \in Reasons \cup {"stalled"} /\ (x.why = "completed" => saved = "answered")
    BY <1>2, <1>4 DEF WellFormed, Empty
  <2> QED
    BY ZenonT(30), <1>3, <2>2, <2>3, <2>4
<1>5. ASSUME NEW why, why = Unsaved(x.why),
             turn' = [turn EXCEPT ![t].at = "closing", ![t].why = why]
      PROVE  Inv'
  <2>1. PICK y : y = [x EXCEPT !.at = "closing", !.why = why]
    OBVIOUS
  <2>2. turn' = [turn EXCEPT ![t] = y]
    BY ZenonT(30), <1>2, <1>5, <2>1
  <2>3. Holds(y, "closing", why, x.saved, x.unread, x.got, x.cancel, x.stalled, x.shutting)
    BY ZenonT(30), <1>2, <2>1 DEF TurnShape, Holds
  <2>4. /\ why \in Reasons \cup {"stalled"} /\ why # "completed"
        /\ why \in {x.why, "error"}
    BY <1>2, <1>5 DEF WellFormed, Unsaved, Reasons
  <2> QED
    BY ZenonT(30), <1>3, <2>2, <2>3, <2>4
<1> QED
  BY <1>4, <1>5 DEF SaveAnswer

-----------------------------------------------------------------------------
(* The replies still to be relayed, as they are read and as they arrive.   *)

\* A sequence without its first element.
LEMMA TailFacts ==
  ASSUME NEW S, NEW q \in Seq(S), q # <<>>
  PROVE  /\ Tail(q) \in Seq(S) /\ Len(q) \in Nat \ {0} /\ Len(Tail(q)) = Len(q) - 1
         /\ Head(q) = q[1] /\ q[1] \in S
         /\ \A i \in 1..Len(Tail(q)) : Tail(q)[i] = q[i + 1]
         /\ \A i \in 2..Len(q) : i - 1 \in 1..Len(Tail(q)) /\ Tail(q)[i - 1] = q[i]
OBVIOUS

\* What is left keeps its order.
LEMMA TailOrder ==
  ASSUME NEW t, NEW q \in Seq(Replies), q # <<>>, NEW over \in BOOLEAN,
         InOrder(t, q), EndBehind(t, q, over), NEW r, r = Tail(q)
  PROVE  InOrder(t, r) /\ EndBehind(t, r, over)
<1>1. Len(q) \in Nat /\ \A i \in 1..Len(r) : i + 1 \in 1..Len(q) /\ r[i] = q[i + 1]
  BY TailFacts
<1>2. ASSUME NEW i \in 1..Len(r), NEW j \in 1..Len(r), MyDelta(t, r[i]), MyDelta(t, r[j]),
             i < j
      PROVE  r[i].n < r[j].n
  <2>1. i + 1 \in 1..Len(q) /\ j + 1 \in 1..Len(q) /\ i + 1 < j + 1
    BY <1>1, <1>2
  <2>2. r[i] = q[i + 1] /\ r[j] = q[j + 1]
    BY <1>1
  <2> QED
    BY <1>2, <2>1, <2>2 DEF InOrder
<1>3. ASSUME NEW i \in 1..Len(r), MyEnd(t, r[i])
      PROVE  over /\ \A j \in 1..Len(r) : MyDelta(t, r[j]) => j < i
  <2>1. i + 1 \in 1..Len(q) /\ MyEnd(t, q[i + 1])
    BY <1>1, <1>3
  <2>2. over /\ \A j \in 1..Len(q) : MyDelta(t, q[j]) => j < i + 1
    BY <2>1 DEF EndBehind
  <2>3. ASSUME NEW j \in 1..Len(r), MyDelta(t, r[j])
        PROVE  j < i
    <3>1. j + 1 < i + 1
      BY <1>1, <2>2, <2>3
    <3> QED
      BY <3>1, <1>1
  <2> QED
    BY <2>2, <2>3
<1> QED
  BY <1>2, <1>3 DEF InOrder, EndBehind

\* The reply of another run is skipped.
LEMMA SkipOther ==
  ASSUME NEW t, NEW q \in Seq(Replies), q # <<>>, NEW k \in Nat, NEW m \in Nat,
         NEW over \in BOOLEAN, Unrelayed(t, q, k, m, over), q[1].of # t
  PROVE  Unrelayed(t, Tail(q), k, m, over)
<1>1. PICK r : r = Tail(q)
  BY ZenonT(30)
<1>2. /\ Len(q) \in Nat \ {0} /\ Len(r) = Len(q) - 1
      /\ \A i \in 1..Len(r) : r[i] = q[i + 1]
      /\ \A i \in 2..Len(q) : i - 1 \in 1..Len(r) /\ r[i - 1] = q[i]
  BY <1>1, TailFacts
<1>3. \A i \in 1..Len(r) : i + 1 \in 1..Len(q)
  BY <1>2
<1>4. ASSUME NEW n \in (k + 1)..m
      PROVE  \E i \in 1..Len(r) : MyDelta(t, r[i]) /\ r[i].n = n
  <2>1. PICK i \in 1..Len(q) : MyDelta(t, q[i]) /\ q[i].n = n
    BY DEF Unrelayed
  <2>2. i # 1
    BY <2>1 DEF MyDelta
  <2>3. i - 1 \in 1..Len(r) /\ r[i - 1] = q[i]
    BY <1>2, <2>2
  <2> QED
    BY ZenonT(30), <2>1, <2>3
<1>5. \A i \in 1..Len(r) : MyDelta(t, r[i]) => r[i].n \in (k + 1)..m
  BY ZenonT(30), <1>2, <1>3 DEF Unrelayed
<1>6. InOrder(t, r) /\ EndBehind(t, r, over)
  BY ZenonT(30), <1>1, TailOrder DEF Unrelayed
<1> QED
  BY ZenonT(30), <1>1, <1>4, <1>5, <1>6 DEF Unrelayed

\* The first delta of the run is the next one, and the rest follows it.
LEMMA RelayDelta ==
  ASSUME NEW t, NEW q \in Seq(Replies), q # <<>>, NEW k \in Nat, NEW m \in Nat,
         NEW over \in BOOLEAN, Unrelayed(t, q, k, m, over), MyDelta(t, q[1])
  PROVE  q[1].n = k + 1 /\ k + 1 <= m /\ Unrelayed(t, Tail(q), k + 1, m, over)
<1>1. PICK r : r = Tail(q)
  BY ZenonT(30)
<1>2. /\ Len(q) \in Nat \ {0} /\ Len(r) = Len(q) - 1
      /\ \A i \in 1..Len(r) : r[i] = q[i + 1]
      /\ \A i \in 2..Len(q) : i - 1 \in 1..Len(r) /\ r[i - 1] = q[i]
  BY <1>1, TailFacts
<1>3. \A i \in 1..Len(r) : i + 1 \in 1..Len(q)
  BY <1>2
<1>4. q[1].n \in (k + 1)..m /\ 1 \in 1..Len(q)
  BY <1>2 DEF Unrelayed
<1>5. q[1].n = k + 1
  <2>1. PICK i \in 1..Len(q) : MyDelta(t, q[i]) /\ q[i].n = k + 1
    BY SMTT(30), <1>4 DEF Unrelayed
  <2>2. CASE i = 1
    BY <2>1, <2>2
  <2>3. CASE i > 1
    BY <1>4, <2>1, <2>3 DEF Unrelayed, InOrder
  <2> QED
    BY <2>2, <2>3
<1>6. \A i \in 1..Len(r) : MyDelta(t, r[i]) => r[i].n \in (k + 2)..m
  <2> SUFFICES ASSUME NEW i \in 1..Len(r), MyDelta(t, r[i])
               PROVE  r[i].n \in (k + 2)..m
    OBVIOUS
  <2>1. i + 1 \in 1..Len(q) /\ r[i] = q[i + 1] /\ 1 < i + 1
    BY <1>2, <1>3
  <2>2. q[1].n < q[i + 1].n /\ q[i + 1].n \in (k + 1)..m
    BY <1>4, <2>1 DEF Unrelayed, InOrder
  <2> QED
    BY <1>5, <2>1, <2>2
<1>7. InOrder(t, r) /\ EndBehind(t, r, over)
  BY ZenonT(30), <1>1, TailOrder DEF Unrelayed
<1>8. ASSUME NEW n \in (k + 2)..m
      PROVE  \E i \in 1..Len(r) : MyDelta(t, r[i]) /\ r[i].n = n
  <2>1. PICK i \in 1..Len(q) : MyDelta(t, q[i]) /\ q[i].n = n
    <3>1. n \in (k + 1)..m
      OBVIOUS
    <3> QED
      BY <3>1 DEF Unrelayed
  <2>2. i # 1
    BY <1>5, <2>1
  <2>3. i \in 2..Len(q)
    BY <1>2, <2>2
  <2>4. i - 1 \in 1..Len(r) /\ r[i - 1] = q[i]
    BY <1>2, <2>3
  <2> QED
    BY <2>1, <2>4
<1>9. (k + 1) + 1 = k + 2
  OBVIOUS
<1> QED
  BY <1>1, <1>4, <1>5, <1>6, <1>7, <1>8, <1>9 DEF Unrelayed

\* The pod's end is behind all it sent.
LEMMA EndIsLast ==
  ASSUME NEW t, NEW q \in Seq(Replies), q # <<>>, NEW k \in Nat, NEW m \in Nat,
         NEW over \in BOOLEAN, Unrelayed(t, q, k, m, over), MyEnd(t, q[1]), k <= m
  PROVE  over /\ k = m
<1>1. 1 \in 1..Len(q) /\ Len(q) \in Nat
  OBVIOUS
<1>2. over /\ \A j \in 1..Len(q) : ~MyDelta(t, q[j])
  BY <1>1 DEF Unrelayed, EndBehind
<1>3. ~(k < m)
  <2> SUFFICES ASSUME k < m PROVE FALSE
    OBVIOUS
  <2>1. m \in (k + 1)..m
    OBVIOUS
  <2> QED
    BY <1>2, <2>1 DEF Unrelayed
<1> QED
  BY <1>2, <1>3

\* A reply r arrives behind q.
LEMMA AppendFacts ==
  ASSUME NEW S, NEW q \in Seq(S), NEW r \in S
  PROVE  /\ Append(q, r) \in Seq(S) /\ Len(q) \in Nat /\ Len(Append(q, r)) = Len(q) + 1
         /\ \A i \in 1..Len(q) : Append(q, r)[i] = q[i]
         /\ Append(q, r)[Len(q) + 1] = r
OBVIOUS

\* The reply of another run arrives.
LEMMA OtherArrives ==
  ASSUME NEW t, NEW q \in Seq(Replies), NEW r \in Replies, NEW k \in Nat, NEW m \in Nat,
         NEW over \in BOOLEAN, Unrelayed(t, q, k, m, over), r.of # t
  PROVE  Unrelayed(t, Append(q, r), k, m, over)
<1>1. PICK p : p = Append(q, r)
  BY ZenonT(30)
<1>2. /\ Len(q) \in Nat /\ Len(p) = Len(q) + 1
      /\ \A i \in 1..Len(q) : p[i] = q[i] /\ i \in 1..Len(p)
      /\ p[Len(q) + 1] = r
  BY <1>1, AppendFacts
<1>3. \A i \in 1..Len(p) : MyDelta(t, p[i]) \/ MyEnd(t, p[i]) => i \in 1..Len(q)
  BY <1>2 DEF MyDelta, MyEnd
<1>4. \A i \in 1..Len(p) : MyDelta(t, p[i]) => p[i].n \in (k + 1)..m
  BY <1>2, <1>3 DEF Unrelayed
<1>5. InOrder(t, p)
  BY <1>2, <1>3 DEF Unrelayed, InOrder
<1>6. \A n \in (k + 1)..m : \E i \in 1..Len(p) : MyDelta(t, p[i]) /\ p[i].n = n
  BY ZenonT(30), <1>2 DEF Unrelayed
<1>7. EndBehind(t, p, over)
  BY <1>2, <1>3 DEF Unrelayed, EndBehind
<1> QED
  BY ZenonT(30), <1>1, <1>4, <1>5, <1>6, <1>7 DEF Unrelayed

\* The next delta of the run arrives: its pod is not over.
LEMMA DeltaArrives ==
  ASSUME NEW t, NEW q \in Seq(Replies), NEW r \in Replies, NEW k \in Nat, NEW m \in Nat,
         Unrelayed(t, q, k, m, FALSE), MyDelta(t, r), r.n = m + 1, k <= m
  PROVE  Unrelayed(t, Append(q, r), k, m + 1, FALSE)
<1>1. PICK p : p = Append(q, r)
  BY ZenonT(30)
<1>2. /\ Len(q) \in Nat /\ Len(p) = Len(q) + 1
      /\ \A i \in 1..Len(q) : p[i] = q[i] /\ i \in 1..Len(p)
      /\ p[Len(q) + 1] = r /\ Len(q) + 1 \in 1..Len(p)
      /\ \A i \in 1..Len(p) : i \in 1..Len(q) \/ i = Len(q) + 1
  BY <1>1, AppendFacts
<1>3. \A i \in 1..Len(q) : MyDelta(t, q[i]) => q[i].n \in (k + 1)..m
  BY DEF Unrelayed
<1>4. ASSUME NEW i \in 1..Len(p), MyDelta(t, p[i])
      PROVE  p[i].n \in (k + 1)..(m + 1)
  BY <1>2, <1>3, <1>4
<1>5. InOrder(t, p)
  <2> SUFFICES ASSUME NEW i \in 1..Len(p), NEW j \in 1..Len(p),
                      MyDelta(t, p[i]), MyDelta(t, p[j]), i < j
               PROVE  p[i].n < p[j].n
    BY DEF InOrder
  <2>1. i \in 1..Len(q) /\ p[i] = q[i] /\ q[i].n \in (k + 1)..m
    BY <1>2, <1>3
  <2>2. CASE j = Len(q) + 1
    BY <1>2, <2>1, <2>2
  <2>3. CASE j \in 1..Len(q)
    BY <1>2, <2>1, <2>3 DEF Unrelayed, InOrder
  <2> QED
    BY <1>2, <2>2, <2>3
<1>6. ASSUME NEW n \in (k + 1)..(m + 1)
      PROVE  \E i \in 1..Len(p) : MyDelta(t, p[i]) /\ p[i].n = n
  <2>1. CASE n = m + 1
    BY <1>2, <2>1
  <2>2. CASE n # m + 1
    <3>1. n \in (k + 1)..m
      BY <2>2
    <3>2. PICK i \in 1..Len(q) : MyDelta(t, q[i]) /\ q[i].n = n
      BY <3>1 DEF Unrelayed
    <3> QED
      BY <1>2, <3>2
  <2> QED
    BY <2>1, <2>2
<1>7. \A i \in 1..Len(p) : ~MyEnd(t, p[i])
  <2>1. \A i \in 1..Len(q) : ~MyEnd(t, q[i])
    BY DEF Unrelayed, EndBehind
  <2>2. ~MyEnd(t, r)
    BY DEF MyDelta, MyEnd
  <2> QED
    BY <1>2, <2>1, <2>2
<1> QED
  BY ZenonT(30), <1>1, <1>4, <1>5, <1>6, <1>7 DEF Unrelayed, EndBehind

\* The end of the run's pod arrives.
LEMMA EndArrives ==
  ASSUME NEW t, NEW q \in Seq(Replies), NEW r \in Replies, NEW k \in Nat, NEW m \in Nat,
         Unrelayed(t, q, k, m, FALSE), MyEnd(t, r)
  PROVE  Unrelayed(t, Append(q, r), k, m, TRUE)
<1>1. PICK p : p = Append(q, r)
  BY ZenonT(30)
<1>2. /\ Len(q) \in Nat /\ Len(p) = Len(q) + 1
      /\ \A i \in 1..Len(q) : p[i] = q[i] /\ i \in 1..Len(p)
      /\ p[Len(q) + 1] = r /\ Len(q) + 1 \in 1..Len(p)
      /\ \A i \in 1..Len(p) : i \in 1..Len(q) \/ i = Len(q) + 1
  BY <1>1, AppendFacts
<1>3. \A i \in 1..Len(p) : MyDelta(t, p[i]) => i \in 1..Len(q)
  BY <1>2 DEF MyDelta, MyEnd
<1>4. \A i \in 1..Len(p) : MyDelta(t, p[i]) => p[i].n \in (k + 1)..m
  BY <1>2, <1>3 DEF Unrelayed
<1>5. InOrder(t, p)
  BY ZenonT(30), <1>2, <1>3 DEF Unrelayed, InOrder
<1>6. \A n \in (k + 1)..m : \E i \in 1..Len(p) : MyDelta(t, p[i]) /\ p[i].n = n
  BY <1>2 DEF Unrelayed
<1>7. EndBehind(t, p, TRUE)
  <2>1. \A i \in 1..Len(q) : ~MyEnd(t, q[i])
    BY DEF Unrelayed, EndBehind
  <2>2. \A i \in 1..Len(p) : MyEnd(t, p[i]) => i = Len(q) + 1
    BY <1>2, <2>1
  <2> QED
    BY <1>2, <1>3, <2>2 DEF EndBehind
<1> QED
  BY ZenonT(30), <1>1, <1>4, <1>5, <1>6, <1>7 DEF Unrelayed

\* The pod is over and nothing was said.
LEMMA EndUnsaid ==
  ASSUME NEW t, NEW q, NEW k, NEW m, Unrelayed(t, q, k, m, FALSE)
  PROVE  Unrelayed(t, q, k, m, TRUE)
BY DEF Unrelayed, EndBehind

-----------------------------------------------------------------------------
(* The relay's steps.                                                      *)

\* One reply is read, and what is left is still to be relayed.
LEMMA ReadKeeps ==
  ASSUME Inv, NEW t \in Turns, Alone, UNCHANGED <<handle, index, latest>>,
         turn[t].at = "relaying", turn[t].unread # <<>>,
         NEW y, turn' = [turn EXCEPT ![t] = y],
         NEW got \in Seq(Turns \X Nat), Len(got) <= sent[t],
         \A i \in 1..Len(got) : got[i] = <<t, i>>,
         Unrelayed(t, Tail(turn[t].unread), Len(got), sent[t], pod[t] = "over"),
         Holds(y, "relaying", turn[t].why, turn[t].saved, Tail(turn[t].unread), got,
               turn[t].cancel, turn[t].stalled, turn[t].shutting),
         StreamShape', NEW rec, Adds(rec), rec.kind # "completed"
  PROVE  Inv'
<1> DEFINE x == turn[t]
<1> DEFINE q == x.unread
<1>1. Only(t) /\ turn'[t] = y
  BY ZenonT(30), Writes DEF Inv
<1>2. /\ y.at = "relaying" /\ y.why = x.why /\ y.saved = x.saved /\ y.unread = Tail(q)
      /\ y.got = got /\ y.cancel = x.cancel /\ y.stalled = x.stalled
      /\ y.shutting = x.shutting /\ TurnShape(y)
  BY DEF Holds
<1>3. WellFormed(x) /\ q \in Seq(Replies)
  BY DEF Inv, Shape, TurnsShape, WellFormed
<1>4. /\ Tail(q) \in Seq(Replies) /\ Len(q) \in Nat
      /\ \A i \in 1..Len(Tail(q)) : i + 1 \in 1..Len(q) /\ Tail(q)[i] = q[i + 1]
  BY <1>3, TailFacts
<1>5. TurnsShape'
  <2>1. WellFormed(y)
    BY ZenonT(30), <1>2, <1>3, <1>4 DEF WellFormed
  <2> QED
    BY <1>1, <2>1, TurnsKept DEF Inv
<1>6. AskedInv'
  <2>1. AskedOf(t) /\ Undecided(t)
    BY ZenonT(30) DEF Inv, AskedInv, AskedOf, CancelledWasAsked, Undecided
  <2>2. StoppedReply(t)' => StoppedReply(t)
    <3>1. ASSUME NEW i \in 1..Len(Tail(q)), Tail(q)[i].of = t, Tail(q)[i].kind = "stopped"
          PROVE  StoppedReply(t)
      <4>1. i + 1 \in 1..Len(q) /\ Tail(q)[i] = q[i + 1]
        BY <1>4
      <4> QED
        BY <3>1, <4>1 DEF StoppedReply
    <3> QED
      BY ZenonT(30), <1>1, <1>2, <3>1 DEF StoppedReply
  <2>3. AskedOf(t)'
    BY ZenonT(30), <1>1, <1>2, <2>1, <2>2 DEF AskedOf, Told, Alone
  <2> QED
    BY <1>1, <2>3, AskedKept DEF Inv, Alone
<1>7. JobsInv'
  <2>1. ~Early(t)'
    BY ZenonT(30), <1>1, <1>2 DEF Early
  <2> QED
    BY ZenonT(30), <1>1, <2>1, JobsKept DEF Inv, Alone
<1>8. RepliesInv'
  <2>1. OwnReplies(t)'
    BY ZenonT(30), <1>1, <1>2 DEF OwnReplies, RelayInv, Alone
  <2> QED
    BY ZenonT(30), <1>1, <2>1, RepliesKept DEF Inv, Alone
<1>9. FoundInv'
  BY ZenonT(30), <1>1, <1>2, FoundKept, RemoteTurnsAssumption DEF Inv, Running
<1>10. SavedInv'
  <2>1. x.saved # "answered"
    BY DEF Inv, SavedInv
  <2> QED
    BY ZenonT(30), <1>1, <1>2, <2>1, SavedKept DEF Inv
<1>11. Shape'
  BY <1>5 DEF Inv, Shape, Alone, StopsShape
<1> QED
  BY <1>6, <1>7, <1>8, <1>9, <1>10, <1>11 DEF Inv

\* The relay that reads the next reply of the shared stream.
LEMMA RelayKeeps ==
  ASSUME Inv, NEW t \in Turns, Relay(t)
  PROVE  Inv'
<1> DEFINE x == turn[t]
<1> DEFINE q == x.unread
<1> DEFINE r == Head(x.unread)
<1>1. /\ Alone /\ UNCHANGED <<handle, index, latest>>
      /\ x.at = "relaying" /\ ~x.cancel /\ q # <<>>
  BY DEF Relay, Alone
<1>2. /\ TurnShape(x) /\ q \in Seq(Replies) /\ x.got \in Seq(Turns \X Nat)
      /\ sent[t] \in Nat /\ x.stalled \in BOOLEAN
  BY DEF Inv, Shape, TurnsShape, WellFormed
<1>3. r = q[1] /\ Len(q) \in Nat \ {0} /\ r \in Replies
  BY <1>1, <1>2, TailFacts
<1>4. /\ Len(x.got) <= sent[t] /\ Len(x.got) \in Nat
      /\ \A i \in 1..Len(x.got) : x.got[i] = <<t, i>>
      /\ Unrelayed(t, q, Len(x.got), sent[t], pod[t] = "over")
  <2>1. OwnReplies(t)
    BY ZenonT(30) DEF Inv, RepliesInv, OwnReplies
  <2>2. Len(x.got) \in Nat
    BY <1>2
  <2> QED
    BY ZenonT(30), <1>1, <2>1, <2>2 DEF OwnReplies, RelayInv
<1>5. CASE ~Mine(t, r) /\ turn' = [turn EXCEPT ![t] = [x EXCEPT !.unread = Tail(@)]]
           /\ UNCHANGED stream
  <2>1. PICK l : l = Tail(q)
    BY ZenonT(30)
  <2>2. PICK y : y = [x EXCEPT !.unread = l]
    BY ZenonT(30)
  <2>3. turn' = [turn EXCEPT ![t] = y]
    BY <1>5, <2>1, <2>2
  <2>4. Holds(y, "relaying", x.why, x.saved, l, x.got, x.cancel, x.stalled, x.shutting)
    BY <1>1, <1>2, <2>2 DEF TurnShape, Holds
  <2>5. Unrelayed(t, l, Len(x.got), sent[t], pod[t] = "over")
    BY ZenonT(30), <1>1, <1>2, <1>3, <1>4, <1>5, <2>1, SkipOther DEF Mine
  <2>6. StreamShape'
    BY <1>5 DEF Inv, Shape, StreamShape
  <2>7. PICK rec : rec = [kind |-> "frame"]
    BY ZenonT(30)
  <2>8. Adds(rec) /\ rec.kind # "completed"
    BY <1>5, <2>7 DEF Adds
  <2> QED
    BY ZenonT(30), <1>1, <1>2, <1>4, <2>1, <2>3, <2>4, <2>5, <2>6, <2>8, ReadKeeps
<1>6. CASE /\ Mine(t, r) /\ r.kind = "delta"
           /\ turn' = [turn EXCEPT ![t] = [[x EXCEPT !.unread = Tail(@)]
                                             EXCEPT !.got = Append(@, <<r.of, r.n>>)]]
           /\ XAdd(x.num, [of |-> t, kind |-> "frame"])
  <2>1. PICK l : l = Tail(q)
    BY ZenonT(30)
  <2>2. PICK g : g = Append(x.got, <<r.of, r.n>>)
    BY ZenonT(30)
  <2>3. PICK y : y = [x EXCEPT !.unread = l, !.got = g]
    OBVIOUS
  <2>4. turn' = [turn EXCEPT ![t] = y]
    BY <1>2, <1>6, <2>1, <2>2, <2>3 DEF TurnShape
  <2>5. Holds(y, "relaying", x.why, x.saved, l, g, x.cancel, x.stalled, x.shutting)
    BY ZenonT(30), <1>1, <1>2, <2>3 DEF TurnShape, Holds
  <2>6. /\ q[1].n = Len(x.got) + 1 /\ Len(x.got) + 1 <= sent[t]
        /\ Unrelayed(t, l, Len(x.got) + 1, sent[t], pod[t] = "over")
    <3>1. MyDelta(t, q[1])
      BY <1>3, <1>6 DEF Mine, MyDelta
    <3> QED
      BY ZenonT(30), <1>1, <1>2, <1>4, <2>1, <3>1, RelayDelta
  <2>7. <<r.of, r.n>> = <<t, Len(x.got) + 1>>
    BY <1>3, <1>6, <2>6 DEF Mine
  <2>8. /\ g \in Seq(Turns \X Nat) /\ Len(g) = Len(x.got) + 1
        /\ \A i \in 1..Len(g) : g[i] = <<t, i>>
    <3>1. PICK e : e = <<r.of, r.n>>
      BY ZenonT(30)
    <3>2. e \in Turns \X Nat /\ e = <<t, Len(x.got) + 1>> /\ g = Append(x.got, e)
      <4>1. e = <<t, Len(x.got) + 1>>
        BY ZenonT(30), <2>2, <2>7, <3>1
      <4>2. Len(x.got) + 1 \in Nat
        BY <1>4
      <4>3. g = Append(x.got, e)
        BY ZenonT(30), <2>2, <3>1
      <4>4. e \in Turns \X Nat
        BY <4>1, <4>2
      <4> QED
        BY <4>1, <4>3, <4>4
    <3>3. /\ g \in Seq(Turns \X Nat) /\ Len(g) = Len(x.got) + 1
          /\ \A i \in 1..Len(x.got) : g[i] = x.got[i]
          /\ g[Len(x.got) + 1] = e
      BY <1>2, <3>2, AppendFacts
    <3>4. \A i \in 1..Len(g) : i \in 1..Len(x.got) \/ i = Len(x.got) + 1
      BY <1>4, <3>3
    <3> QED
      BY ZenonT(30), <1>4, <3>2, <3>3, <3>4
  <2>9. StreamShape' /\ \E rec : Adds(rec) /\ rec.kind # "completed"
    BY <1>6, FrameAdds
  <2> QED
    BY ZenonT(30), <1>1, <1>2, <2>1, <2>4, <2>5, <2>6, <2>8, <2>9, ReadKeeps
<1>7. ASSUME Mine(t, r), r.kind # "delta", UNCHANGED stream,
             Confirmed(t, r.kind), Unwinds(t, CancelReason(Confirm(x, t)))
      PROVE  Inv'
  <2>1. PICK z : z = Confirm(x, t)
    OBVIOUS
  <2>2. z.shutting = x.shutting /\ z.stalled = (x.stalled \/ t \in cause)
    BY <1>2, <2>1 DEF Confirm, TurnShape
  <2>3. Undecided(t) /\ Told(t)
    <3>1. Undecided(t)
      BY <1>1 DEF Undecided
    <3>2. t \in flag \/ StoppedReply(t)
      BY SMTT(30), <1>3, <1>7 DEF Confirmed, StoppedReply, Mine
    <3> QED
      BY ZenonT(30), <3>1, <3>2 DEF Inv, AskedInv
  <2>4. z.stalled => <<t, TRUE>> \in asked
    BY ZenonT(30), <2>2, <2>3 DEF Inv, AskedInv
  <2>5. z.shutting \/ z.stalled \/ <<t, FALSE>> \in asked
    BY ZenonT(30), <2>2, <2>3 DEF Told
  <2>6. PICK why : why = CancelReason(z)
    OBVIOUS
  <2>7. /\ why \in Reasons \cup {"stalled"} /\ why # "completed"
        /\ why = "cancelled" => <<t, FALSE>> \in asked
        /\ why = "stalled" => <<t, TRUE>> \in asked
    BY ZenonT(30), <1>2, <2>2, <2>4, <2>5, <2>6, CancelReasonAsked
  <2>8. turn' = [turn EXCEPT ![t] = Past(x, "saving", why)]
    BY <1>7, <2>1, <2>6 DEF Unwinds
  <2> QED
    BY ZenonT(30), <1>1, <1>7, <2>7, <2>8, PastKeeps
<1>8. ASSUME Mine(t, r), r.kind # "delta", UNCHANGED stream,
             NEW why \in {"completed", "error"}, Unwinds(t, why)
      PROVE  Inv'
  <2>1. MyEnd(t, q[1])
    BY <1>3, <1>8 DEF Mine, MyEnd
  <2>2. pod[t] = "over" /\ Len(x.got) = sent[t]
    BY ZenonT(30), <1>1, <1>2, <1>4, <2>1, EndIsLast
  <2>3. why \in Reasons /\ why # "cancelled" /\ why # "stalled"
    BY <1>8 DEF Reasons
  <2>4. turn' = [turn EXCEPT ![t] = Past(x, "saving", why)]
    BY <1>8 DEF Unwinds
  <2> QED
    BY ZenonT(30), <1>1, <1>8, <2>2, <2>3, <2>4, PastKeeps
<1> QED
  <2>1. CASE Mine(t, r) /\ r.kind # "delta" /\ UNCHANGED stream /\ ~Confirmed(t, r.kind)
             /\ Unwinds(t, IF r.kind = "completed" THEN "completed" ELSE "error")
    <3>1. PICK why : why = IF r.kind = "completed" THEN "completed" ELSE "error"
      OBVIOUS
    <3> QED
      BY <1>8, <2>1, <3>1
  <2>2. CASE Mine(t, r) /\ r.kind # "delta" /\ UNCHANGED stream /\ Confirmed(t, r.kind)
             /\ Unwinds(t, CancelReason(Confirm(x, t)))
    BY <1>7, <2>2
  <2> QED
    BY <1>5, <1>6, <2>1, <2>2, Zenon DEF Relay

\* The terminal record, and the end of the turn.
LEMMA CloseKeeps ==
  ASSUME Inv, NEW t \in Turns, CloseStream(t)
  PROVE  Inv'
<1> DEFINE x == turn[t]
<1>1. Alone /\ UNCHANGED <<handle, index, latest>> /\ x.at = "closing" /\ Ends(t, "ended")
  BY DEF CloseStream, Alone
<1>2. /\ Only(t)
      /\ Holds(turn'[t], "ended", "completed", x.saved, <<>>, <<>>, FALSE, FALSE, FALSE)
  BY ZenonT(30), <1>1, EndsWrites DEF Inv
<1>3. TurnsShape' /\ AskedInv' /\ JobsInv' /\ RepliesInv'
  BY ZenonT(30), <1>1, <1>2, EndStep
<1>4. turn'[t].at = "ended" /\ turn'[t].saved = x.saved
  BY <1>2 DEF Holds
<1>5. FoundInv'
  BY <1>1, <1>2, <1>4, FoundKept DEF Inv, Running
<1>6. StreamShape' /\ SavedInv'
  <2>1. PICK kind : kind = IF x.why = "stalled" THEN "interrupted" ELSE x.why
    OBVIOUS
  <2>2. PICK rec : rec = [of |-> t, kind |-> kind]
    BY ZenonT(30)
  <2>3. x.why \in Reasons \cup {"stalled"}
    BY DEF Inv, Shape, TurnsShape, WellFormed
  <2>4. kind \in Reasons /\ (kind = "completed" => x.why = "completed")
    BY <2>1, <2>3 DEF Reasons
  <2>5. rec \in Records /\ rec.of = t /\ rec.kind = kind
    BY <2>2, <2>4 DEF Records
  <2>6. XAdd(x.num, rec)
    BY <2>1, <2>2 DEF CloseStream
  <2>7. StreamShape' /\ Adds(rec)
    BY <2>5, <2>6, XAddAdds DEF Inv, Shape
  <2>8. kind = "completed" => x.saved = "answered"
    BY <1>1, <2>4 DEF Inv, SavedInv
  <2> QED
    BY <1>2, <1>4, <2>5, <2>7, <2>8, SavedKept DEF Inv
<1>7. Shape'
  BY <1>1, <1>3, <1>6 DEF Inv, Shape, Alone, StopsShape
<1> QED
  BY <1>3, <1>5, <1>6, <1>7 DEF Inv

-----------------------------------------------------------------------------
(* The controller's steps.                                                 *)

\* The record u has once rec is in the reply stream.
Receives(u, rec) ==
  LET x == turn[u]
      y == turn'[u]
  IN  /\ WellFormed(y)
      /\ y.at = x.at /\ y.why = x.why /\ y.saved = x.saved /\ y.got = x.got
      /\ y.cancel = x.cancel /\ y.stalled = x.stalled /\ y.shutting = x.shutting
      /\ y.unread = IF x.at = "relaying" THEN Append(x.unread, rec) ELSE x.unread

\* A reply reaches every relay of the conversation.
LEMMA ReplyWrites ==
  ASSUME Shape, NEW rec \in Replies,
         turn' = [u \in Turns |->
                    IF turn[u].at # "relaying" THEN turn[u]
                    ELSE [turn[u] EXCEPT !.unread = Append(@, rec)]]
  PROVE  turn' = [u \in Turns |-> turn'[u]] /\ \A u \in Turns : Receives(u, rec)
<1>1. turn' = [u \in Turns |-> turn'[u]]
  OBVIOUS
<1>2. ASSUME NEW u \in Turns
      PROVE  Receives(u, rec)
  <2> DEFINE x == turn[u]
  <2>1. WellFormed(x) /\ x.unread \in Seq(Replies)
    BY DEF Shape, TurnsShape, WellFormed
  <2>2. CASE x.at # "relaying"
    <3>1. turn'[u] = x
      BY <2>2
    <3> QED
      BY <2>1, <2>2, <3>1 DEF Receives
  <2>3. CASE x.at = "relaying"
    <3>1. PICK l : l = Append(x.unread, rec)
      BY ZenonT(30)
    <3>2. l \in Seq(Replies)
      BY <2>1, <3>1
    <3>3. PICK y : y = [x EXCEPT !.unread = l]
      BY ZenonT(30)
    <3>4. turn'[u] = y
      BY <2>3, <3>1, <3>3
    <3>5. Holds(y, x.at, x.why, x.saved, l, x.got, x.cancel, x.stalled, x.shutting)
      BY <2>1, <3>3 DEF WellFormed, TurnShape, Holds
    <3>6. WellFormed(y)
      BY <2>1, <3>2, <3>5 DEF WellFormed, Holds
    <3> QED
      BY ZenonT(30), <2>3, <3>1, <3>4, <3>5, <3>6 DEF Receives, Holds
  <2> QED
    BY <2>2, <2>3
<1> QED
  BY <1>1, <1>2

\* What a reply leaves alone, and a Stop the controller reports was asked for.
LEMMA ReplyKeeps ==
  ASSUME Inv, NEW rec \in Replies, turn' = [u \in Turns |-> turn'[u]],
         \A u \in Turns : Receives(u, rec),
         UNCHANGED <<handle, index, latest, stream, cause, jobs, asked, stop>>,
         flag' \subseteq flag, rec.kind = "stopped" => rec.of \in flag
  PROVE  /\ TurnsShape' /\ FoundInv' /\ SavedInv' /\ AskedInv'
         /\ \A u \in Turns : (Early(u)' <=> Early(u)) /\ turn'[u].got = turn[u].got
<1>1. TurnsShape'
  BY DEF TurnsShape, Receives
<1>2. \A u \in Turns : /\ turn'[u].at = turn[u].at /\ turn'[u].why = turn[u].why
                       /\ turn'[u].saved = turn[u].saved /\ turn'[u].got = turn[u].got
                       /\ turn'[u].cancel = turn[u].cancel
                       /\ turn'[u].stalled = turn[u].stalled
                       /\ turn'[u].shutting = turn[u].shutting
  BY DEF Receives
<1>3. FoundInv'
  BY <1>2 DEF Inv, FoundInv, Running
<1>4. SavedInv'
  BY <1>2 DEF Inv, SavedInv
<1>5. \A u \in Turns : (Early(u)' <=> Early(u)) /\ (Undecided(u)' <=> Undecided(u))
  BY <1>2 DEF Early, Undecided
<1>6. \A u \in Turns : Told(u) => Told(u)'
  BY <1>2 DEF Told
<1>7. ASSUME NEW u \in Turns, StoppedReply(u)'
      PROVE  u \in flag \/ StoppedReply(u)
  <2>1. turn[u].unread \in Seq(Replies)
    BY DEF Inv, Shape, TurnsShape, WellFormed
  <2>2. CASE turn'[u].unread = turn[u].unread
    BY <1>7, <2>2 DEF StoppedReply
  <2>3. CASE turn'[u].unread = Append(turn[u].unread, rec)
    <3>1. PICK l : l = Append(turn[u].unread, rec)
      BY ZenonT(30)
    <3>2. PICK i \in 1..Len(l) : l[i].of = u /\ l[i].kind = "stopped"
      BY <1>7, <2>3, <3>1 DEF StoppedReply
    <3>3. (i \in 1..Len(turn[u].unread) /\ l[i] = turn[u].unread[i]) \/ l[i] = rec
      BY <2>1, <3>1, AppendFacts
    <3> QED
      BY <3>2, <3>3 DEF StoppedReply
  <2> QED
    BY ZenonT(30), <2>2, <2>3 DEF Receives
<1>8. ASSUME NEW u \in Turns
      PROVE  AskedOf(u)'
  <2>1. AskedOf(u)
    BY ZenonT(30) DEF Inv, AskedInv, AskedOf, CancelledWasAsked
  <2> QED
    BY <1>2, <1>5, <1>6, <1>7, <2>1 DEF AskedOf
<1>9. /\ \A s \in Stops : stop'[s].at \in {"reading", "written"} =>
           <<stop'[s].aim, stop'[s].stalled>> \in asked'
      /\ \A u \in cause' : <<u, TRUE>> \in asked'
  BY ZenonT(30) DEF Inv, AskedInv
<1>10. AskedInv'
  BY ZenonT(30), <1>8, <1>9 DEF AskedInv, AskedOf, CancelledWasAsked
<1> QED
  BY <1>1, <1>2, <1>3, <1>4, <1>5, <1>10

\* A pod that sends a delta.
LEMMA PodRepliesKeeps ==
  ASSUME Inv, NEW t \in Turns, PodReplies(t)
  PROVE  Inv'
<1>1. /\ UNCHANGED <<handle, index, latest, stream, cause, jobs, asked, stop, flag, pod>>
      /\ pod[t] = "running" /\ sent' = [sent EXCEPT ![t] = sent[t] + 1]
  BY DEF PodReplies, redis
<1>2. sent \in [Turns -> Nat] /\ pod[t] # "over"
  BY <1>1 DEF Inv, Shape
<1>3. PICK rec : rec = [of |-> t, kind |-> "delta", n |-> sent[t] + 1]
  BY ZenonT(30)
<1>4. /\ rec \in Replies /\ rec.of = t /\ rec.kind = "delta" /\ rec.n = sent[t] + 1
      /\ rec.kind # "stopped"
  BY <1>2, <1>3 DEF Replies, Kinds
<1>5. turn' = [u \in Turns |-> turn'[u]] /\ \A u \in Turns : Receives(u, rec)
  BY ZenonT(30), <1>3, <1>4, ReplyWrites DEF PodReplies, Reply, Inv
<1>6. /\ TurnsShape' /\ FoundInv' /\ SavedInv' /\ AskedInv'
      /\ \A u \in Turns : (Early(u)' <=> Early(u)) /\ turn'[u].got = turn[u].got
  BY <1>1, <1>4, <1>5, ReplyKeeps
<1>7. JobsInv'
  <2>1. \A k \in 1..Len(jobs) : jobs[k] \in Turns
    BY DEF Inv, Shape
  <2> QED
    BY <1>1, <1>2, <1>6, <2>1 DEF Inv, JobsInv
<1>8. ASSUME NEW u \in Turns
      PROVE  OwnReplies(u)'
  <2> DEFINE x == turn[u]
  <2>1. OwnReplies(u)
    BY DEF Inv, RepliesInv, OwnReplies
  <2>2. /\ turn'[u].at = x.at /\ turn'[u].why = x.why /\ turn'[u].got = x.got
        /\ x.at = "relaying" => turn'[u].unread = Append(x.unread, rec)
    BY ZenonT(30), <1>5 DEF Receives
  <2>3. x.unread \in Seq(Replies) /\ Len(x.got) \in Nat
    BY DEF Inv, Shape, TurnsShape, WellFormed
  <2>4. CASE u # t
    <3>1. sent'[u] = sent[u] /\ sent[u] \in Nat
      BY <1>1, <1>2, <2>4
    <3>2. x.at = "relaying" => RelayInv(u)'
      BY ZenonT(30), <1>1, <1>4, <2>1, <2>2, <2>3, <2>4, <3>1, OtherArrives
         DEF OwnReplies, RelayInv
    <3> QED
      BY ZenonT(30), <1>1, <2>1, <2>2, <3>1, <3>2 DEF OwnReplies
  <2>5. CASE u = t
    <3>1. sent'[u] = sent[u] + 1 /\ sent[u] \in Nat
      BY <1>1, <1>2, <2>5
    <3>2. ASSUME x.at = "relaying"
          PROVE  RelayInv(u)'
      <4>1. Unrelayed(u, x.unread, Len(x.got), sent[u], FALSE)
        BY ZenonT(30), <1>2, <2>1, <2>5, <3>2 DEF OwnReplies, RelayInv
      <4>2. MyDelta(u, rec) /\ rec.n = sent[u] + 1
        BY <1>4, <2>5 DEF MyDelta
      <4>3. Unrelayed(u, Append(x.unread, rec), Len(x.got), sent[u] + 1, FALSE)
        BY ZenonT(30), <1>4, <2>1, <2>3, <3>1, <4>1, <4>2, DeltaArrives
           DEF OwnReplies
      <4> QED
        BY ZenonT(30), <1>1, <1>2, <2>2, <2>5, <3>1, <3>2, <4>3 DEF RelayInv
    <3>3. Len(turn'[u].got) = Len(x.got) /\ Len(turn'[u].got) <= sent'[u]
      BY <2>1, <2>2, <2>3, <3>1 DEF OwnReplies
    <3>4. ~(x.at = "saving" /\ x.why = "completed")
      BY ZenonT(30), <1>2, <2>1, <2>5 DEF OwnReplies
    <3> QED
      BY ZenonT(30), <2>1, <2>2, <3>2, <3>3, <3>4 DEF OwnReplies
  <2> QED
    BY <2>4, <2>5
<1>9. RepliesInv'
  BY <1>8 DEF RepliesInv, OwnReplies
<1>10. Shape'
  BY <1>1, <1>2, <1>6 DEF Inv, Shape, StreamShape, StopsShape
<1> QED
  BY <1>6, <1>7, <1>9, <1>10 DEF Inv

\* The jobs when the pod of t is over.
LEMMA JobsWhenOver ==
  ASSUME Inv, NEW t \in Turns, pod[t] = "running", pod' = [pod EXCEPT ![t] = "over"],
         UNCHANGED <<jobs, sent>>,
         \A u \in Turns : (Early(u)' <=> Early(u)) /\ turn'[u].got = turn[u].got
  PROVE  JobsInv' /\ pod' = [u \in Turns |-> pod'[u]]
<1>1. \A u \in Turns : pod'[u] = IF u = t THEN "over" ELSE pod[u]
  BY DEF Inv, Shape
<1>2. \A k \in 1..Len(jobs) : jobs[k] \in Turns /\ jobs[k] # t
  BY DEF Inv, Shape, JobsInv
<1>3. \A k \in 1..Len(jobs) : pod'[jobs[k]] = "none" /\ ~Early(jobs[k])'
  BY <1>1, <1>2 DEF Inv, JobsInv
<1>4. \A u \in Turns : /\ pod'[u] = "none" => sent'[u] = 0
                       /\ Early(u)' => pod'[u] = "none" /\ turn'[u].got = <<>>
  BY <1>1 DEF Inv, JobsInv
<1>5. ~Early(t)
  BY DEF Inv, JobsInv
<1> QED
  BY <1>1, <1>3, <1>4, <1>5 DEF Inv, JobsInv, Shape

\* The pod of t ends and says how.
LEMMA PodEndKeeps ==
  ASSUME Inv, NEW t \in Turns, pod[t] = "running", pod' = [pod EXCEPT ![t] = "over"],
         UNCHANGED <<handle, index, latest, stream, cause, jobs, asked, stop, sent>>,
         NEW kind \in Kinds \ {"delta"}, Reply(t, kind, 0),
         flag' \subseteq flag, kind = "stopped" => t \in flag
  PROVE  Inv'
<1>1. PICK rec : rec = [of |-> t, kind |-> kind, n |-> 0]
  BY ZenonT(30)
<1>2. rec \in Replies /\ rec.of = t /\ rec.kind = kind /\ MyEnd(t, rec)
  BY <1>1 DEF Replies, MyEnd
<1>3. turn' = [u \in Turns |-> turn'[u]] /\ \A u \in Turns : Receives(u, rec)
  BY ZenonT(30), <1>1, <1>2, ReplyWrites DEF Reply, Inv
<1>4. /\ TurnsShape' /\ FoundInv' /\ SavedInv' /\ AskedInv'
      /\ \A u \in Turns : (Early(u)' <=> Early(u)) /\ turn'[u].got = turn[u].got
  BY <1>2, <1>3, ReplyKeeps
<1>5. JobsInv' /\ pod' = [u \in Turns |-> pod'[u]]
  BY ZenonT(30), <1>4, JobsWhenOver
<1>6. ASSUME NEW u \in Turns
      PROVE  OwnReplies(u)'
  <2> DEFINE x == turn[u]
  <2>1. OwnReplies(u)
    BY DEF Inv, RepliesInv, OwnReplies
  <2>2. /\ turn'[u].at = x.at /\ turn'[u].why = x.why /\ turn'[u].got = x.got
        /\ x.at = "relaying" => turn'[u].unread = Append(x.unread, rec)
    BY ZenonT(30), <1>3 DEF Receives
  <2>3. x.unread \in Seq(Replies) /\ Len(x.got) \in Nat /\ sent[u] \in Nat
    BY DEF Inv, Shape, TurnsShape, WellFormed
  <2>4. CASE u # t
    <3>1. pod'[u] = pod[u]
      BY <2>4 DEF Inv, Shape
    <3>2. ASSUME x.at = "relaying"
          PROVE  RelayInv(u)'
      <4>1. PICK over \in BOOLEAN : over = (pod[u] = "over")
        BY ZenonT(30)
      <4>2. Unrelayed(u, x.unread, Len(x.got), sent[u], over)
        BY <2>1, <3>2, <4>1 DEF OwnReplies, RelayInv
      <4>3. Unrelayed(u, Append(x.unread, rec), Len(x.got), sent[u], over)
        BY ZenonT(30), <1>2, <2>3, <2>4, <4>2, OtherArrives
      <4> QED
        BY ZenonT(30), <2>2, <3>1, <3>2, <4>1, <4>3 DEF RelayInv
    <3> QED
      BY <2>1, <2>2, <3>1, <3>2 DEF OwnReplies
  <2>5. CASE u = t
    <3>1. pod'[u] = "over" /\ pod[u] # "over"
      BY <2>5 DEF Inv, Shape
    <3>2. ASSUME x.at = "relaying"
          PROVE  RelayInv(u)'
      <4>1. Unrelayed(u, x.unread, Len(x.got), sent[u], FALSE)
        BY ZenonT(30), <2>1, <3>1, <3>2 DEF OwnReplies, RelayInv
      <4>2. Unrelayed(u, Append(x.unread, rec), Len(x.got), sent[u], TRUE)
        BY ZenonT(30), <1>2, <2>3, <2>5, <4>1, EndArrives
      <4> QED
        BY ZenonT(30), <2>2, <3>1, <3>2, <4>2 DEF RelayInv
    <3> QED
      BY ZenonT(30), <2>1, <2>2, <3>1, <3>2 DEF OwnReplies
  <2> QED
    BY <2>4, <2>5
<1>7. RepliesInv'
  BY <1>6 DEF RepliesInv, OwnReplies
<1>8. Shape'
  BY <1>4, <1>5 DEF Inv, Shape, StreamShape, StopsShape
<1> QED
  BY <1>4, <1>5, <1>7, <1>8 DEF Inv

\* A pod that ends by itself.
LEMMA PodEndsKeeps ==
  ASSUME Inv, NEW t \in Turns, PodEnds(t)
  PROVE  Inv'
<1>1. /\ pod[t] = "running" /\ pod' = [pod EXCEPT ![t] = "over"]
      /\ UNCHANGED <<handle, index, latest, stream, cause, jobs, asked, stop, sent, flag>>
  BY DEF PodEnds, redis
<1>2. ASSUME NEW kind \in {"completed", "failed", "aborted"}, Reply(t, kind, 0)
      PROVE  Inv'
  <2>1. kind \in Kinds \ {"delta"} /\ kind # "stopped"
    BY DEF Kinds
  <2> QED
    BY ZenonT(30), <1>1, <1>2, <2>1, PodEndKeeps
<1>3. CASE UNCHANGED turn
  <2>1. \A u \in Turns : (Early(u)' <=> Early(u)) /\ turn'[u].got = turn[u].got
    BY <1>3 DEF Early
  <2>2. JobsInv' /\ pod' = [u \in Turns |-> pod'[u]]
    BY ZenonT(30), <1>1, <2>1, JobsWhenOver
  <2>3. Shape'
    BY <1>1, <1>3, <2>2 DEF Inv, Shape, TurnsShape, StreamShape, StopsShape
  <2>4. FoundInv' /\ SavedInv'
    BY ZenonT(30), <1>1, <1>3 DEF Inv, FoundInv, SavedInv, Running
  <2>5. AskedInv'
    BY ZenonT(30), <1>1, <1>3
       DEF Inv, AskedInv, CancelledWasAsked, Undecided, Early, StoppedReply, Told
  <2>6. ASSUME NEW u \in Turns
        PROVE  OwnReplies(u)'
    <3>1. OwnReplies(u)
      BY DEF Inv, RepliesInv, OwnReplies
    <3>2. CASE u # t
      <4>1. pod'[u] = pod[u]
        BY <1>1, <3>2 DEF Inv, Shape
      <4> QED
        BY ZenonT(30), <1>1, <1>3, <3>1, <4>1 DEF OwnReplies, RelayInv
    <3>3. CASE u = t
      <4>1. pod'[u] = "over" /\ pod[u] # "over"
        BY <1>1, <3>3 DEF Inv, Shape
      <4>2. turn[u].at = "relaying" => RelayInv(u)'
        BY ZenonT(30), <1>1, <1>3, <3>1, <4>1, EndUnsaid
           DEF OwnReplies, RelayInv
      <4> QED
        BY <1>1, <1>3, <3>1, <4>1, <4>2 DEF OwnReplies
    <3> QED
      BY <3>2, <3>3
  <2>7. RepliesInv'
    BY <2>6 DEF RepliesInv, OwnReplies
  <2> QED
    BY <2>2, <2>3, <2>4, <2>5, <2>7 DEF Inv
<1> QED
  BY <1>2, <1>3 DEF PodEnds

\* A pod that sees the stop flag.
LEMMA PodStopsKeeps ==
  ASSUME Inv, NEW t \in Turns, PodStops(t)
  PROVE  Inv'
<1>1. /\ pod[t] = "running" /\ pod' = [pod EXCEPT ![t] = "over"] /\ t \in flag
      /\ UNCHANGED <<handle, index, latest, stream, cause, jobs, asked, stop, sent>>
  BY DEF PodStops
<1>2. ASSUME NEW kind \in {"stopped", "aborted"}, Reply(t, kind, 0), flag' \subseteq flag
      PROVE  Inv'
  <2>1. kind \in Kinds \ {"delta"}
    BY DEF Kinds
  <2> QED
    BY ZenonT(30), <1>1, <1>2, <2>1, PodEndKeeps
<1> QED
  BY <1>2 DEF PodStops

\* The controller that takes a job.
LEMMA PodStartsKeeps ==
  ASSUME Inv, PodStarts
  PROVE  Inv'
<1>1. /\ jobs # <<>> /\ pod' = [pod EXCEPT ![Head(jobs)] = "running"] /\ jobs' = Tail(jobs)
      /\ UNCHANGED <<turn, handle, index, stream, flag, cause, sent, stop, asked, latest>>
  BY DEF PodStarts
<1>2. /\ jobs \in Seq(Turns) /\ Len(jobs) \in Nat \ {0} /\ jobs' \in Seq(Turns)
      /\ Len(jobs') = Len(jobs) - 1 /\ Head(jobs) = jobs[1] /\ jobs[1] \in Turns
      /\ \A i \in 1..Len(jobs') : jobs'[i] = jobs[i + 1]
  BY <1>1, TailFacts DEF Inv, Shape
<1>3. PICK t \in Turns : t = jobs[1]
  BY <1>2
<1>4. /\ pod' = [u \in Turns |-> pod'[u]]
      /\ \A u \in Turns : pod'[u] = IF u = t THEN "running" ELSE pod[u]
  BY ZenonT(30), <1>1, <1>2, <1>3 DEF Inv, Shape
<1>5. pod[t] = "none" /\ ~Early(t)
  BY <1>2, <1>3 DEF Inv, JobsInv
<1>6. \A i \in 1..Len(jobs') : i + 1 \in 1..Len(jobs) /\ jobs'[i] \in Turns /\ jobs'[i] # t
  BY <1>2, <1>3 DEF Inv, JobsInv
<1>7. JobsInv'
  <2>1. \A u \in Turns : Early(u)' <=> Early(u)
    BY <1>1 DEF Early
  <2>2. \A i \in 1..Len(jobs') : pod[jobs'[i]] = "none" /\ ~Early(jobs[i + 1])
    BY <1>2, <1>6 DEF Inv, JobsInv
  <2>3. \A i \in 1..Len(jobs') : pod'[jobs'[i]] = "none" /\ ~Early(jobs[i])'
    BY <1>1, <1>2, <1>4, <1>6, <2>2 DEF Early
  <2>4. ASSUME NEW k \in 1..Len(jobs'), NEW l \in 1..Len(jobs'), jobs'[k] = jobs'[l]
        PROVE  k = l
    <3>1. jobs[k + 1] = jobs[l + 1] /\ k + 1 \in 1..Len(jobs) /\ l + 1 \in 1..Len(jobs)
      BY <1>2, <1>6, <2>4
    <3>2. \A i, j \in 1..Len(jobs) : jobs[i] = jobs[j] => i = j
      BY DEF Inv, JobsInv
    <3>3. k + 1 = l + 1
      BY <3>1, <3>2
    <3> QED
      BY <3>3, <1>2
  <2>5. \A u \in Turns : /\ pod'[u] = "none" => sent'[u] = 0
                         /\ Early(u)' => pod'[u] = "none" /\ turn'[u].got = <<>>
    BY <1>1, <1>4, <1>5, <2>1 DEF Inv, JobsInv
  <2> QED
    BY <2>3, <2>4, <2>5 DEF JobsInv
<1>8. RepliesInv'
  <2> SUFFICES ASSUME NEW u \in Turns
               PROVE  OwnReplies(u)'
    BY DEF RepliesInv, OwnReplies
  <2>1. OwnReplies(u) /\ ((pod'[u] = "over") <=> (pod[u] = "over"))
    BY <1>4, <1>5 DEF Inv, RepliesInv, OwnReplies
  <2> QED
    BY ZenonT(30), <1>1, <2>1 DEF OwnReplies, RelayInv
<1>9. FoundInv' /\ SavedInv'
  BY <1>1 DEF Inv, FoundInv, SavedInv, Running
<1>10. AskedInv'
  BY ZenonT(30), <1>1
     DEF Inv, AskedInv, CancelledWasAsked, Undecided, Early, StoppedReply, Told
<1>11. Shape'
  BY <1>1, <1>2, <1>4 DEF Inv, Shape, TurnsShape, StreamShape, StopsShape
<1> QED
  BY <1>7, <1>8, <1>9, <1>10, <1>11 DEF Inv

-----------------------------------------------------------------------------
(* The calls of /cancel.                                                   *)

\* A call's record is written.
LEMMA StopWritten ==
  ASSUME StopsShape, NEW s \in Stops, NEW c, StopShape(c), c.stalled \in BOOLEAN,
         c.at \in {"reading", "written"} => c.aim \in Turns,
         stop' = [stop EXCEPT ![s] = c]
  PROVE  StopsShape' /\ \A z \in Stops : stop'[z] = IF z = s THEN c ELSE stop[z]
BY DEF StopsShape

\* The record of a /cancel that is answered.
LEMMA StopDone ==
  ASSUME NEW c, c = [NewStop EXCEPT !.at = "over"]
  PROVE  StopShape(c) /\ c.at = "over" /\ c.stalled \in BOOLEAN
<1>1. c = [at |-> "over", aim |-> NoTurn, via |-> NoReplica, named |-> FALSE,
           stalled |-> FALSE]
  BY ZenonT(30) DEF NewStop
<1>2. StopShape(c)
  BY ZenonT(30), <1>1 DEF StopShape
<1>3. c.at = "over"
  BY <1>1
<1>4. c.stalled = FALSE
  BY <1>1
<1> QED
  BY ZenonT(30), <1>2, <1>3, <1>4

\* What a step leaves alone that changes no turn, stream, job or pod.
LEMMA TurnsAlone ==
  ASSUME Inv, UNCHANGED <<turn, handle, index, latest, stream, jobs, pod, sent>>, StopsShape'
  PROVE  Shape' /\ FoundInv' /\ SavedInv' /\ JobsInv' /\ RepliesInv'
<1>1. Shape'
  BY DEF Inv, Shape, TurnsShape, StreamShape
<1>2. FoundInv' /\ SavedInv'
  BY DEF Inv, FoundInv, SavedInv, Running
<1>3. JobsInv'
  BY DEF Inv, JobsInv, Early
<1>4. RepliesInv'
  BY ZenonT(30) DEF Inv, RepliesInv, RelayInv
<1> QED
  BY <1>1, <1>2, <1>3, <1>4

\* A /cancel that finds the run it is for.
LEMMA StopReadsKeeps ==
  ASSUME Inv, NEW s \in Stops, NEW p \in Replicas, NEW t \in Turns, NEW named \in BOOLEAN,
         NEW stalled \in BOOLEAN, StopReads(s, p, t, named, stalled)
  PROVE  Inv'
<1>1. /\ asked' = asked \cup {<<t, stalled>>}
      /\ UNCHANGED <<turn, handle, index, latest, stream, jobs, pod, sent, flag, cause>>
  BY DEF StopReads, redis
<1>2. PICK c : c = [at |-> "reading", aim |-> t, stalled |-> stalled,
                    named |-> named /\ handle[p] = t,
                    via |-> IF handle[p] = t THEN p ELSE NoReplica]
  BY ZenonT(30)
<1>3. /\ StopShape(c) /\ c.at = "reading" /\ c.aim = t /\ c.stalled = stalled
      /\ c.stalled \in BOOLEAN
  BY <1>2 DEF StopShape
<1>4. stop' = [stop EXCEPT ![s] = c]
  BY <1>2 DEF StopReads
<1>5. StopsShape' /\ \A z \in Stops : stop'[z] = IF z = s THEN c ELSE stop[z]
  <2>1. StopsShape /\ c.aim \in Turns
    BY <1>3 DEF Inv, Shape
  <2> QED
    BY ZenonT(30), <1>3, <1>4, <2>1, StopWritten
<1>6. Shape' /\ FoundInv' /\ SavedInv' /\ JobsInv' /\ RepliesInv'
  BY <1>1, <1>5, TurnsAlone
<1>7. AskedInv'
  <2>1. \A z \in Stops : stop'[z].at \in {"reading", "written"} =>
          <<stop'[z].aim, stop'[z].stalled>> \in asked'
    BY ZenonT(30), <1>1, <1>3, <1>5 DEF Inv, AskedInv
  <2>2. \A u \in cause' : <<u, TRUE>> \in asked'
    BY ZenonT(30), <1>1 DEF Inv, AskedInv
  <2>3. ASSUME NEW u \in Turns
        PROVE  AskedOf(u)'
    <3>1. AskedOf(u)
      BY ZenonT(30) DEF Inv, AskedInv, AskedOf, CancelledWasAsked
    <3>2. \A e : e \in asked => e \in asked'
      BY <1>1
    <3> QED
      BY ZenonT(30), <1>1, <3>1, <3>2
         DEF AskedOf, Undecided, Early, StoppedReply, Told
  <2> QED
    BY ZenonT(30), <2>1, <2>2, <2>3 DEF AskedInv, AskedOf, CancelledWasAsked
<1> QED
  BY <1>6, <1>7 DEF Inv

\* A flag is set for a reason: a Stop that was asked for, or the shutdown of
\* the replica.
LEMMA FlagKeeps ==
  ASSUME Inv, NEW t \in Turns, NEW stalled \in BOOLEAN, SetFlag(t, stalled),
         UNCHANGED <<turn, asked>>,
         stalled => <<t, TRUE>> \in asked,
         ~stalled => <<t, FALSE>> \in asked \/ turn[t].shutting
  PROVE  (\A u \in cause' : <<u, TRUE>> \in asked') /\ \A u \in Turns : AskedOf(u)'
<1>1. ASSUME NEW u \in cause'
      PROVE  <<u, TRUE>> \in asked'
  <2>1. u \in cause \/ (u = t /\ stalled)
    BY DEF SetFlag
  <2> QED
    BY ZenonT(30), <2>1 DEF Inv, AskedInv
<1>2. ASSUME NEW u \in Turns
      PROVE  AskedOf(u)'
  <2>1. AskedOf(u)
    BY ZenonT(30) DEF Inv, AskedInv, AskedOf, CancelledWasAsked
  <2>2. Told(u) => Told(u)'
    <3>1. CASE u = t
      BY <3>1 DEF Told, SetFlag
    <3>2. CASE u # t
      BY <3>2 DEF Told, SetFlag
    <3> QED
      BY <3>1, <3>2
  <2>3. u \in flag' => u \in flag \/ Told(u)'
    BY ZenonT(30) DEF Told, SetFlag
  <2> QED
    BY ZenonT(30), <2>1, <2>2, <2>3 DEF AskedOf, Undecided, Early, StoppedReply
<1> QED
  BY ZenonT(30), <1>1, <1>2

\* A /cancel that writes the stop flag.
LEMMA StopWritesKeeps ==
  ASSUME Inv, NEW s \in Stops, StopWrites(s)
  PROVE  Inv'
<1> DEFINE c == stop[s]
<1>1. /\ c.at = "reading" /\ SetFlag(c.aim, c.stalled)
      /\ UNCHANGED <<turn, handle, index, latest, stream, jobs, pod, sent, asked>>
  BY DEF StopWrites
<1>2. /\ c.aim \in Turns /\ c.stalled \in BOOLEAN /\ StopShape(c) /\ StopsShape
      /\ <<c.aim, c.stalled>> \in asked
  BY <1>1 DEF Inv, Shape, StopsShape, AskedInv
<1>3. /\ c.stalled => <<c.aim, TRUE>> \in asked
      /\ ~c.stalled => <<c.aim, FALSE>> \in asked
  <2>1. CASE c.stalled = TRUE
    BY ZenonT(30), <1>2, <2>1
  <2>2. CASE c.stalled = FALSE
    BY ZenonT(30), <1>2, <2>2
  <2> QED
    BY ZenonT(30), <1>2, <2>1, <2>2
<1>4. (\A u \in cause' : <<u, TRUE>> \in asked') /\ \A u \in Turns : AskedOf(u)'
  BY ZenonT(30), <1>1, <1>2, <1>3, FlagKeeps
<1>5. ASSUME NEW d, stop' = [stop EXCEPT ![s] = d], StopShape(d), d.stalled \in BOOLEAN,
             d.at \in {"reading", "written"} => d.aim = c.aim /\ d.stalled = c.stalled
      PROVE  Inv'
  <2>1. StopsShape' /\ \A z \in Stops : stop'[z] = IF z = s THEN d ELSE stop[z]
    BY ZenonT(30), <1>2, <1>5, StopWritten
  <2>2. Shape' /\ FoundInv' /\ SavedInv' /\ JobsInv' /\ RepliesInv'
    BY <1>1, <2>1, TurnsAlone
  <2>3. \A z \in Stops : stop'[z].at \in {"reading", "written"} =>
          <<stop'[z].aim, stop'[z].stalled>> \in asked'
    <3> SUFFICES ASSUME NEW z \in Stops, stop'[z].at \in {"reading", "written"}
                 PROVE  <<stop'[z].aim, stop'[z].stalled>> \in asked
      BY ZenonT(30), <1>1
    <3>1. CASE z = s
      <4>1. d.aim = c.aim /\ d.stalled = c.stalled
        BY ZenonT(30), <1>5, <2>1, <3>1
      <4> QED
        BY ZenonT(30), <1>2, <2>1, <3>1, <4>1
    <3>2. CASE z # s
      BY ZenonT(30), <2>1, <3>2 DEF Inv, AskedInv
    <3> QED
      BY <3>1, <3>2
  <2>4. AskedInv'
    BY ZenonT(30), <1>4, <2>3 DEF AskedInv, AskedOf, CancelledWasAsked
  <2> QED
    BY <2>2, <2>4 DEF Inv
<1>6. CASE stop' = [stop EXCEPT ![s] = [NewStop EXCEPT !.at = "over"]]
  <2>1. PICK d : d = [NewStop EXCEPT !.at = "over"]
    BY ZenonT(30)
  <2>2. StopShape(d) /\ d.at = "over" /\ d.stalled \in BOOLEAN
    BY ZenonT(30), <2>1, StopDone
  <2>3. stop' = [stop EXCEPT ![s] = d]
    BY <1>6, <2>1
  <2> QED
    BY ZenonT(30), <1>5, <2>2, <2>3
<1>7. CASE stop' = [stop EXCEPT ![s].at = "written"]
  <2>1. PICK d : d = [c EXCEPT !.at = "written"]
    BY ZenonT(30)
  <2>2. StopShape(d) /\ d.aim = c.aim /\ d.stalled = c.stalled
    BY <1>2, <2>1 DEF StopShape
  <2>3. stop' = [stop EXCEPT ![s] = d]
    BY <1>2, <1>7, <2>1 DEF StopsShape
  <2> QED
    BY ZenonT(30), <1>2, <1>5, <2>2, <2>3
<1> QED
  BY <1>6, <1>7 DEF StopWrites

\* A Stop or a shutdown marks a turn whose end is not decided.
Marks(x, y) ==
  /\ WellFormed(y)
  /\ y.at = x.at /\ y.why = x.why /\ y.saved = x.saved /\ y.unread = x.unread
  /\ y.got = x.got /\ (x.shutting => y.shutting)

\* A step that only marks a turn as cancelled, stalled or shutting down.
LEMMA MarkKeeps ==
  ASSUME Inv, NEW t \in Turns, UNCHANGED <<flag, cause, jobs, pod, sent, asked>>,
         UNCHANGED <<handle, index, latest, stream>>,
         NEW y, turn' = [turn EXCEPT ![t] = y], Marks(turn[t], y),
         Undecided(t) => /\ y.stalled => <<t, TRUE>> \in asked
                         /\ y.cancel => y.shutting \/ y.stalled \/ <<t, FALSE>> \in asked,
         StopsShape',
         \A s \in Stops : stop'[s].at \in {"reading", "written"} => stop'[s] = stop[s]
  PROVE  Inv'
<1> DEFINE x == turn[t]
<1>1. Only(t) /\ turn'[t] = y
  BY ZenonT(30), Writes DEF Inv
<1>2. /\ y.at = x.at /\ y.why = x.why /\ y.saved = x.saved /\ y.unread = x.unread
      /\ y.got = x.got /\ (x.shutting => y.shutting) /\ WellFormed(y)
  BY DEF Marks
<1>3. TurnsShape'
  BY ZenonT(30), <1>1, <1>2, TurnsKept DEF Inv
<1>4. \A u \in Turns : /\ turn'[u].at = turn[u].at /\ turn'[u].why = turn[u].why
                       /\ turn'[u].saved = turn[u].saved /\ turn'[u].got = turn[u].got
                       /\ turn'[u].unread = turn[u].unread
                       /\ (Early(u)' <=> Early(u)) /\ (Undecided(u)' <=> Undecided(u))
  BY <1>1, <1>2 DEF Only, Early, Undecided
<1>5. ASSUME NEW u \in Turns
      PROVE  AskedOf(u)'
  <2>1. AskedOf(u)
    BY ZenonT(30) DEF Inv, AskedInv, AskedOf, CancelledWasAsked
  <2>2. CASE u # t
    BY <1>1, <1>4, <2>1, <2>2 DEF Only, AskedOf, StoppedReply, Told
  <2>3. CASE u = t
    <3>1. StoppedReply(u)' <=> StoppedReply(u)
      BY ZenonT(30), <1>4 DEF StoppedReply
    <3>2. Told(u) => Told(u)'
      BY ZenonT(30), <1>1, <1>2, <2>3 DEF Told
    <3> QED
      BY ZenonT(30), <1>1, <1>2, <1>4, <2>1, <2>3, <3>1, <3>2 DEF AskedOf
  <2> QED
    BY <2>2, <2>3
<1>6. AskedInv'
  BY ZenonT(30), <1>5 DEF Inv, AskedInv, AskedOf, CancelledWasAsked
<1>7. JobsInv'
  <2>1. Early(t)' => Early(t) /\ turn'[t].got = turn[t].got
    BY ZenonT(30), <1>4
  <2> QED
    BY ZenonT(30), <1>1, <2>1, JobsKept DEF Inv
<1>8. RepliesInv'
  <2> SUFFICES ASSUME NEW u \in Turns
               PROVE  OwnReplies(u)'
    BY ZenonT(30) DEF RepliesInv, OwnReplies
  <2>1. OwnReplies(u)
    BY ZenonT(30) DEF Inv, RepliesInv, OwnReplies
  <2> QED
    BY ZenonT(30), <1>4, <2>1 DEF OwnReplies, RelayInv
<1>9. FoundInv' /\ SavedInv'
  <2>1. FoundInv'
    BY ZenonT(30), <1>4 DEF Inv, FoundInv, Running
  <2>2. ASSUME NEW n \in Numbers, NEW i \in DOMAIN stream[n].log,
               stream[n].log[i].kind = "completed"
        PROVE  LET u == stream[n].log[i].of IN u \in Turns /\ turn'[u].saved = "answered"
    BY ZenonT(30), <1>4, <2>2 DEF Inv, SavedInv
  <2>3. \A u \in Turns :
          /\ turn'[u].at = "closing" /\ turn'[u].why = "completed" => turn'[u].saved = "answered"
          /\ turn'[u].saved = "answered" => turn'[u].at \in {"closing", "ended", "dead"}
    <3>1. \A u \in Turns :
            /\ turn[u].at = "closing" /\ turn[u].why = "completed" => turn[u].saved = "answered"
            /\ turn[u].saved = "answered" => turn[u].at \in {"closing", "ended", "dead"}
      BY ZenonT(30) DEF Inv, SavedInv
    <3> SUFFICES ASSUME NEW u \in Turns
                 PROVE  /\ turn'[u].at = "closing" /\ turn'[u].why = "completed"
                             => turn'[u].saved = "answered"
                        /\ turn'[u].saved = "answered"
                             => turn'[u].at \in {"closing", "ended", "dead"}
      OBVIOUS
    <3>2. turn'[u].at = turn[u].at /\ turn'[u].why = turn[u].why /\ turn'[u].saved = turn[u].saved
      BY <1>4
    <3> HIDE DEF Inv, Marks
    <3> QED
      BY ZenonT(30), <3>1, <3>2
  <2>4. \A n \in Numbers : \A i \in DOMAIN stream'[n].log :
          LET rec == stream'[n].log[i] IN
          rec.kind = "completed" => rec.of \in Turns /\ turn'[rec.of].saved = "answered"
    BY ZenonT(30), <2>2
  <2>5. SavedInv'
    BY ZenonT(30), <2>3, <2>4 DEF SavedInv
  <2> QED
    BY <2>1, <2>5
<1>10. Shape'
  BY <1>3 DEF Inv, Shape, StreamShape
<1> QED
  BY ZenonT(30), <1>6, <1>7, <1>8, <1>9, <1>10 DEF Inv

\* Only calls of /cancel have changed.
LEMMA StopsOnlyKeep ==
  ASSUME Inv, UNCHANGED <<turn, handle, index, latest, stream, jobs, pod, sent>>,
         UNCHANGED <<flag, cause, asked>>, StopsShape',
         \A s \in Stops : stop'[s].at \in {"reading", "written"} => stop'[s] = stop[s]
  PROVE  Inv'
<1>1. Shape' /\ FoundInv' /\ SavedInv' /\ JobsInv' /\ RepliesInv'
  BY TurnsAlone
<1>2. AskedInv'
  BY ZenonT(30)
     DEF Inv, AskedInv, CancelledWasAsked, Undecided, Early, StoppedReply, Told
<1> QED
  BY <1>1, <1>2 DEF Inv

\* A /cancel that cancels the task of its own replica.
LEMMA StopSignalsKeeps ==
  ASSUME Inv, NEW s \in Stops, StopSignals(s)
  PROVE  Inv'
<1> DEFINE c == stop[s]
<1> DEFINE t == c.aim
<1> DEFINE x == turn[t]
<1> DEFINE takes == Running(t) /\ (c.named => ~x.shutting)
<1> DEFINE again == c.named /\ x.cancel
<1>1. /\ c.at = "written"
      /\ stop' = [stop EXCEPT ![s] = [NewStop EXCEPT !.at = "over"]]
      /\ UNCHANGED <<handle, index, latest, stream, jobs, pod, sent, flag, cause, asked>>
  BY DEF StopSignals, redis
<1>2. StopsShape /\ t \in Turns /\ c.stalled \in BOOLEAN /\ <<t, c.stalled>> \in asked
  BY <1>1 DEF Inv, Shape, StopsShape, AskedInv
<1>3. StopsShape' /\ \A z \in Stops : stop'[z].at \in {"reading", "written"} => stop'[z] = stop[z]
  <2>1. PICK d : d = [NewStop EXCEPT !.at = "over"]
    BY ZenonT(30)
  <2>2. StopShape(d) /\ d.at = "over" /\ d.stalled \in BOOLEAN
    BY ZenonT(30), <2>1, StopDone
  <2>3. stop' = [stop EXCEPT ![s] = d]
    BY <1>1, <2>1
  <2>4. StopsShape' /\ \A z \in Stops : stop'[z] = IF z = s THEN d ELSE stop[z]
    BY ZenonT(30), <1>2, <2>2, <2>3, StopWritten
  <2> QED
    BY <2>2, <2>4
<1>4. CASE UNCHANGED turn
  BY <1>1, <1>3, <1>4, StopsOnlyKeep
<1>5. CASE /\ x.at \in {"unstarted", "asked", "relaying"}
           /\ turn' = [turn EXCEPT ![t] =
                [x EXCEPT !.stalled = IF again \/ (c.named /\ ~takes) THEN @ ELSE c.stalled,
                          !.cancel = @ \/ takes]]
  <2>1. WellFormed(x)
    BY <1>2 DEF Inv, Shape, TurnsShape
  <2>2. Running(t) /\ Undecided(t)
    BY <1>2, <1>5, RemoteTurnsAssumption DEF Running, Undecided, Early
  <2>3. PICK stalled : stalled = IF again \/ (c.named /\ ~takes) THEN x.stalled ELSE c.stalled
    BY ZenonT(30)
  <2>4. PICK cancel : cancel = (x.cancel \/ takes)
    OBVIOUS
  <2>5. PICK y : y = [x EXCEPT !.stalled = stalled, !.cancel = cancel]
    OBVIOUS
  <2>6. turn' = [turn EXCEPT ![t] = y]
    BY <1>5, <2>3, <2>4, <2>5
  <2>7. /\ stalled \in BOOLEAN /\ cancel \in BOOLEAN /\ x.shutting \in BOOLEAN
        /\ x.cancel \in BOOLEAN /\ x.stalled \in BOOLEAN
    BY ZenonT(30), <1>2, <2>1, <2>3, <2>4 DEF WellFormed
  <2>8. Holds(y, x.at, x.why, x.saved, x.unread, x.got, cancel, stalled, x.shutting)
    BY ZenonT(30), <2>1, <2>5 DEF WellFormed, TurnShape, Holds
  <2>9. /\ x.stalled => <<t, TRUE>> \in asked
        /\ x.cancel => x.shutting \/ x.stalled \/ <<t, FALSE>> \in asked
    BY ZenonT(30), <1>2, <2>2 DEF Inv, AskedInv
  <2>10. /\ c.stalled => <<t, TRUE>> \in asked
         /\ ~c.stalled => <<t, FALSE>> \in asked
    <3>1. CASE c.stalled = TRUE
      BY ZenonT(30), <1>2, <3>1
    <3>2. CASE c.stalled = FALSE
      BY ZenonT(30), <1>2, <3>2
    <3> QED
      BY ZenonT(30), <1>2, <3>1, <3>2
  <2>11. stalled => <<t, TRUE>> \in asked
    BY ZenonT(30), <2>3, <2>9, <2>10
  <2>12. cancel => x.shutting \/ stalled \/ <<t, FALSE>> \in asked
    BY ZenonT(30), <2>2, <2>3, <2>4, <2>9, <2>10
  <2> QED
    <3>1. Marks(x, y) /\ y.stalled = stalled /\ y.cancel = cancel /\ y.shutting = x.shutting
      BY ZenonT(30), <2>1, <2>7, <2>8 DEF Marks, Holds, WellFormed
    <3> QED
      BY ZenonT(30), <1>1, <1>2, <1>3, <2>6, <2>11, <2>12, <3>1, MarkKeeps
<1> QED
  BY <1>4, <1>5, Zenon DEF StopSignals

-----------------------------------------------------------------------------
(* The tails.                                                              *)

\* A tail that only reads changes nothing the invariant looks at.
LEMMA ReadingKeeps ==
  ASSUME Inv, UNCHANGED <<turn, handle, redis, latest, pod, sent, stop, asked>>
  PROVE  Inv'
<1>1. UNCHANGED <<index, stream, flag, cause, jobs>>
  BY DEF redis
<1>2. StopsShape'
  BY DEF Inv, Shape, StopsShape
<1> QED
  BY ZenonT(30), <1>1, <1>2, StopsOnlyKeep

\* A tail that ends the stream of an orphan.
LEMMA SealsKeeps ==
  ASSUME Inv, NEW k \in Readers, ReaderSeals(k)
  PROVE  Inv'
<1>1. UNCHANGED <<turn, handle, index, latest, flag, cause, jobs, pod, sent, stop, asked>>
  BY DEF ReaderSeals
<1>2. PICK rec : rec = [of |-> NoTurn, kind |-> "interrupted"]
  BY ZenonT(30)
<1>3. rec \in Records /\ rec.kind # "completed"
  BY <1>2 DEF Records, Reasons
<1>4. XAdd(reader[k].num, rec)
  BY <1>2 DEF ReaderSeals
<1>5. StreamShape' /\ Adds(rec)
  BY <1>3, <1>4, XAddAdds DEF Inv, Shape
<1>6. Shape'
  BY <1>1, <1>5 DEF Inv, Shape, TurnsShape, StopsShape
<1>7. SavedInv'
  <2>1. SavedInv
    BY ZenonT(30) DEF Inv
  <2>2. ASSUME NEW n \in Numbers, NEW i \in DOMAIN stream'[n].log,
               stream'[n].log[i].kind = "completed"
        PROVE  stream'[n].log[i].of \in Turns /\ turn'[stream'[n].log[i].of].saved = "answered"
    <3>1. i \in DOMAIN stream[n].log /\ stream'[n].log[i] = stream[n].log[i]
      BY ZenonT(30), <1>3, <1>5, <2>2 DEF Adds
    <3> QED
      BY ZenonT(30), <1>1, <2>1, <2>2, <3>1 DEF SavedInv
  <2>3. \A t \in Turns :
          /\ turn'[t].at = "closing" /\ turn'[t].why = "completed" => turn'[t].saved = "answered"
          /\ turn'[t].saved = "answered" => turn'[t].at \in {"closing", "ended", "dead"}
    BY ZenonT(30), <1>1, <2>1 DEF SavedInv
  <2> QED
    BY ZenonT(30), <2>2, <2>3 DEF SavedInv
<1>8. FoundInv' /\ JobsInv'
  BY ZenonT(30), <1>1 DEF Inv, FoundInv, JobsInv, Running, Early
<1>9. AskedInv'
  BY ZenonT(30), <1>1
     DEF Inv, AskedInv, CancelledWasAsked, Undecided, Early, StoppedReply, Told
<1>10. RepliesInv'
  BY ZenonT(30), <1>1 DEF Inv, RepliesInv, RelayInv
<1> QED
  BY <1>6, <1>7, <1>8, <1>9, <1>10 DEF Inv

-----------------------------------------------------------------------------
(* The end of a replica.                                                   *)

\* The replica that starts to shut down marks its turn.
LEMMA ShutdownMarksKeeps ==
  ASSUME Inv, NEW p \in Replicas, ShutdownMarks(p)
  PROVE  Inv'
<1> DEFINE h == handle[p]
<1>1. /\ UNCHANGED <<handle, index, latest, stream, jobs, pod, sent>>
      /\ UNCHANGED <<flag, cause, asked, stop>>
  BY DEF ShutdownMarks, redis
<1>2. StopsShape'
  BY <1>1 DEF Inv, Shape, StopsShape
<1>3. CASE UNCHANGED turn
  BY <1>1, <1>2, <1>3, StopsOnlyKeep
<1>4. CASE Running(h) /\ turn' = [turn EXCEPT ![h].shutting = TRUE]
  <2>1. PICK t \in Turns : t = h
    BY <1>4 DEF Inv, Shape, Running
  <2>2. WellFormed(turn[t]) /\ turn = [u \in Turns |-> turn[u]]
    BY DEF Inv, Shape, TurnsShape
  <2>3. PICK b : b = TRUE
    OBVIOUS
  <2>4. PICK y : y = [turn[t] EXCEPT !.shutting = b]
    BY ZenonT(30)
  <2>5. turn' = [turn EXCEPT ![t] = y]
    BY <1>4, <2>1, <2>2, <2>3, <2>4
  <2>6. Holds(y, turn[t].at, turn[t].why, turn[t].saved, turn[t].unread, turn[t].got,
              turn[t].cancel, turn[t].stalled, b)
    BY ZenonT(30), <2>2, <2>4 DEF WellFormed, TurnShape, Holds
  <2>7. Marks(turn[t], y) /\ y.shutting /\ y.stalled = turn[t].stalled
    BY <2>2, <2>3, <2>6 DEF Marks, WellFormed, Holds
  <2>8. Undecided(t) /\ y.stalled => <<t, TRUE>> \in asked
    BY ZenonT(30), <2>7 DEF Inv, AskedInv
  <2> QED
    BY ZenonT(30), <1>1, <1>2, <2>5, <2>7, <2>8, MarkKeeps
<1> QED
  BY <1>3, <1>4 DEF ShutdownMarks

\* It cancels the task of the turn.
LEMMA ShutdownCancelsKeeps ==
  ASSUME Inv, NEW p \in Replicas, ShutdownCancels(p)
  PROVE  Inv'
<1> DEFINE h == handle[p]
<1>1. /\ UNCHANGED <<handle, index, latest, stream, jobs, pod, sent>>
      /\ UNCHANGED <<flag, cause, asked, stop>>
  BY DEF ShutdownCancels, redis
<1>2. StopsShape'
  BY <1>1 DEF Inv, Shape, StopsShape
<1>3. CASE UNCHANGED turn
  BY <1>1, <1>2, <1>3, StopsOnlyKeep
<1>4. CASE Running(h) /\ turn[h].shutting /\ turn' = [turn EXCEPT ![h].cancel = TRUE]
  <2>1. PICK t \in Turns : t = h
    BY <1>4 DEF Inv, Shape, Running
  <2>2. WellFormed(turn[t]) /\ turn = [u \in Turns |-> turn[u]]
    BY DEF Inv, Shape, TurnsShape
  <2>3. PICK b : b = TRUE
    OBVIOUS
  <2>4. PICK y : y = [turn[t] EXCEPT !.cancel = b]
    BY ZenonT(30)
  <2>5. turn' = [turn EXCEPT ![t] = y]
    BY <1>4, <2>1, <2>2, <2>3, <2>4
  <2>6. Holds(y, turn[t].at, turn[t].why, turn[t].saved, turn[t].unread, turn[t].got,
              b, turn[t].stalled, turn[t].shutting)
    BY ZenonT(30), <2>2, <2>4 DEF WellFormed, TurnShape, Holds
  <2>7. Marks(turn[t], y) /\ y.shutting /\ y.stalled = turn[t].stalled
    BY <1>4, <2>1, <2>2, <2>3, <2>6 DEF Marks, WellFormed, Holds
  <2>8. Undecided(t) /\ y.stalled => <<t, TRUE>> \in asked
    BY ZenonT(30), <2>7 DEF Inv, AskedInv
  <2> QED
    BY ZenonT(30), <1>1, <1>2, <2>5, <2>7, <2>8, MarkKeeps
<1> QED
  BY <1>3, <1>4 DEF ShutdownCancels

\* It asks the controller to stop the turn.
LEMMA ShutdownFlagsKeeps ==
  ASSUME Inv, NEW p \in Replicas, ShutdownFlags(p)
  PROVE  Inv'
<1> DEFINE h == handle[p]
<1>1. UNCHANGED <<turn, handle, index, latest, stream, jobs, pod, sent, asked, stop>>
  BY DEF ShutdownFlags
<1>2. StopsShape'
  BY <1>1 DEF Inv, Shape, StopsShape
<1>3. CASE UNCHANGED <<flag, cause>>
  BY <1>1, <1>2, <1>3, StopsOnlyKeep
<1>4. CASE Running(h) /\ turn[h].shutting /\ SetFlag(h, FALSE)
  <2>1. PICK t \in Turns : t = h
    BY <1>4 DEF Inv, Shape, Running
  <2>2. PICK b \in BOOLEAN : b = FALSE
    BY ZenonT(30)
  <2>3. SetFlag(t, b) /\ turn[t].shutting /\ ~b
    BY ZenonT(30), <1>4, <2>1, <2>2
  <2>4. (\A u \in cause' : <<u, TRUE>> \in asked') /\ \A u \in Turns : AskedOf(u)'
    BY ZenonT(30), <1>1, <2>3, FlagKeeps
  <2>5. Shape' /\ FoundInv' /\ SavedInv' /\ JobsInv' /\ RepliesInv'
    BY <1>1, <1>2, TurnsAlone
  <2>6. AskedInv'
    BY ZenonT(30), <1>1, <2>4 DEF Inv, AskedInv, AskedOf, CancelledWasAsked
  <2> QED
    BY <2>5, <2>6 DEF Inv
<1> QED
  BY ZenonT(30), <1>3, <1>4 DEF ShutdownFlags

\* The replica that exits or crashes.
LEMMA DiesKeeps ==
  ASSUME Inv, NEW p \in Replicas, Dies(p)
  PROVE  Inv'
<1>1. /\ handle' = [handle EXCEPT ![p] = NoTurn]
      /\ UNCHANGED <<index, latest, stream, flag, cause, jobs, pod, sent, asked>>
  BY DEF Dies, redis
<1>2. turn' = [u \in Turns |-> turn'[u]]
  BY DEF Dies
<1>3. ASSUME NEW u \in Turns
      PROVE  /\ WellFormed(turn'[u]) /\ turn'[u].saved = turn[u].saved
             /\ \/ turn'[u] = turn[u]
                \/ turn'[u].at = "dead" /\ turn'[u].got = <<>>
  <2>1. CASE turn'[u] = turn[u]
    BY <2>1 DEF Inv, Shape, TurnsShape
  <2>2. CASE turn'[u] = Gone(turn[u], "dead")
    <3>1. Holds(turn'[u], "dead", "completed", turn[u].saved, <<>>, <<>>, FALSE, FALSE, FALSE)
      BY <2>2, GoneRecord, Zenon
    <3>2. "completed" \in Reasons /\ <<>> \in Seq(Turns \X Nat)
      BY DEF Reasons
    <3>3. WellFormed(turn'[u])
      BY ZenonT(30), <3>1, <3>2, QuietWellFormed
    <3> QED
      BY <3>1, <3>3 DEF Holds
  <2> QED
    BY <2>1, <2>2, Zenon DEF Dies
<1>4. TurnsShape'
  BY <1>2, <1>3 DEF TurnsShape
<1>5. StopsShape' /\ \A s \in Stops : stop'[s].at \in {"reading", "written"} => stop'[s] = stop[s]
  <2>1. PICK d : d = [NewStop EXCEPT !.at = "over"]
    BY ZenonT(30)
  <2>2. StopShape(d) /\ d.at = "over" /\ d.stalled \in BOOLEAN
    BY ZenonT(30), <2>1, StopDone
  <2>3. stop' = [s \in Stops |-> IF stop[s].via = p THEN d ELSE stop[s]]
    BY <2>1 DEF Dies
  <2> QED
    BY <2>2, <2>3 DEF Inv, Shape, StopsShape
<1>6. Shape'
  BY <1>1, <1>4, <1>5 DEF Inv, Shape, StreamShape
<1>7. FoundInv'
  BY <1>1, <1>3 DEF Inv, FoundInv, Running
<1>8. SavedInv'
  <2>1. \A u \in Turns :
          /\ turn'[u].at = "closing" /\ turn'[u].why = "completed" =>
               turn'[u].saved = "answered"
          /\ turn'[u].saved = "answered" => turn'[u].at \in {"closing", "ended", "dead"}
    BY ZenonT(30), <1>3 DEF Inv, SavedInv
  <2> QED
    BY ZenonT(30), <1>1, <1>3, <2>1 DEF Inv, SavedInv
<1>9. \A u \in Turns : Early(u)' => turn'[u] = turn[u]
  BY ZenonT(30), <1>3 DEF Early
<1>10. AskedInv'
  <2>1. ASSUME NEW u \in Turns
        PROVE  AskedOf(u)'
    <3>1. AskedOf(u)
      BY ZenonT(30) DEF Inv, AskedInv, AskedOf, CancelledWasAsked
    <3>2. CASE turn'[u] = turn[u]
      BY ZenonT(30), <1>1, <3>1, <3>2
         DEF AskedOf, Undecided, Early, StoppedReply, Told
    <3>3. CASE turn'[u].at = "dead"
      BY ZenonT(30), <3>3 DEF AskedOf, Undecided, Early
    <3> QED
      BY ZenonT(30), <1>3, <3>2, <3>3
  <2> QED
    BY ZenonT(30), <1>1, <1>5, <2>1
       DEF Inv, AskedInv, AskedOf, CancelledWasAsked
<1>11. JobsInv'
  <2>1. \A k \in 1..Len(jobs) : jobs[k] \in Turns
    BY DEF Inv, Shape
  <2>2. \A u \in Turns : Early(u)' => Early(u) /\ turn'[u].got = turn[u].got
    BY <1>9 DEF Early
  <2> QED
    BY ZenonT(30), <1>1, <2>1, <2>2 DEF Inv, JobsInv
<1>12. RepliesInv'
  <2> SUFFICES ASSUME NEW u \in Turns
               PROVE  OwnReplies(u)'
    BY DEF RepliesInv, OwnReplies
  <2>1. CASE turn'[u] = turn[u]
    <3>1. OwnReplies(u)
      BY ZenonT(30) DEF Inv, RepliesInv, OwnReplies
    <3> QED
      BY ZenonT(30), <1>1, <2>1, <3>1 DEF OwnReplies, RelayInv
  <2>2. CASE turn'[u].at = "dead" /\ turn'[u].got = <<>>
    BY <1>1, <2>2 DEF Inv, Shape, OwnReplies
  <2> QED
    BY <1>3, <2>1, <2>2
<1> QED
  BY <1>6, <1>7, <1>8, <1>10, <1>11, <1>12 DEF Inv

-----------------------------------------------------------------------------
(* The whole.                                                              *)

\* It holds of the system before the first turn.
LEMMA InitInv == Init => Inv
<1> SUFFICES ASSUME Init
             PROVE  Inv
  OBVIOUS
<1>1. PICK y : y = NewTurn
  OBVIOUS
<1>2. Holds(y, "none", "completed", "none", <<>>, <<>>, FALSE, FALSE, FALSE)
  BY <1>1 DEF NewTurn, Holds, TurnShape
<1>3. "completed" \in Reasons /\ <<>> \in Seq(Turns \X Nat)
  BY DEF Reasons
<1>4. WellFormed(y)
  BY ZenonT(30), <1>2, <1>3, QuietWellFormed
<1>5. /\ turn = [t \in Turns |-> turn[t]]
      /\ \A t \in Turns : turn[t] = y /\ turn[t].at = "none" /\ turn[t].saved = "none"
                          /\ turn[t].unread = <<>> /\ turn[t].got = <<>>
  BY ZenonT(30), <1>1, <1>2 DEF Init, Holds
<1>6. \A t \in Turns : turn[t].cancel = FALSE /\ turn[t].stalled = FALSE
  BY <1>2, <1>5 DEF Holds
<1>7. StreamShape /\ \A n \in Numbers : stream[n].log = <<>>
  <2>1. PICK s : s = [log |-> <<>>, base |-> 0]
    BY ZenonT(30)
  <2>2. s = [log |-> s.log, base |-> s.base] /\ s.log = <<>>
    BY <2>1
  <2>3. stream = [n \in Numbers |-> s]
    BY <2>1 DEF Init
  <2>4. <<>> \in Seq(Records)
    OBVIOUS
  <2>5. \A n \in Numbers : stream[n] = s
    BY <2>3
  <2>6. stream = [n \in Numbers |-> stream[n]]
    BY <2>3
  <2> QED
    BY ZenonT(30), <2>2, <2>4, <2>5, <2>6 DEF StreamShape
<1>8. StopsShape /\ \A s \in Stops : stop[s].at = "none"
  BY ZenonT(30) DEF Init, StopsShape, StopShape, NewStop
<1>9. Shape
  <2>1. TurnsShape
    BY ZenonT(30), <1>4, <1>5 DEF TurnsShape
  <2>2. handle \in [Replicas -> Turns \cup {NoTurn}] /\ {index, latest} \subseteq Turns \cup {NoTurn}
    BY ZenonT(30) DEF Init
  <2>3. jobs \in Seq(Turns) /\ sent \in [Turns -> Nat] /\ pod = [t \in Turns |-> pod[t]]
    <3>1. jobs = <<>> /\ sent = [t \in Turns |-> 0] /\ pod = [t \in Turns |-> "none"]
      BY ZenonT(30) DEF Init
    <3> QED
      BY <3>1
  <2> QED
    BY ZenonT(30), <1>7, <1>8, <2>1, <2>2, <2>3 DEF Shape
<1>10. FoundInv
  BY <1>5 DEF FoundInv, Running
<1>11. SavedInv
  BY <1>5, <1>7 DEF SavedInv
<1>12. AskedInv
  <2>1. \A t \in Turns : ~StoppedReply(t)
    BY <1>5 DEF StoppedReply
  <2>2. cause = {} /\ flag = {}
    BY ZenonT(30) DEF Init
  <2>3. CancelledWasAsked
    BY <1>5, <1>7 DEF CancelledWasAsked, Init
  <2> QED
    BY ZenonT(30), <1>6, <1>8, <2>1, <2>2, <2>3 DEF AskedInv
<1>13. jobs = <<>> /\ \A t \in Turns : sent[t] = 0 /\ pod[t] = "none"
  BY ZenonT(30) DEF Init
<1>14. JobsInv /\ RepliesInv
  <2>1. 1..Len(<<>>) = {} /\ Len(<<>>) = 0 /\ 0 <= 0
    OBVIOUS
  <2>2. JobsInv
    BY <1>5, <1>13, <2>1 DEF JobsInv
  <2>3. RepliesInv
    BY ZenonT(30), <1>5, <1>13, <2>1 DEF RepliesInv
  <2> QED
    BY <2>2, <2>3
<1> QED
  BY <1>9, <1>10, <1>11, <1>12, <1>14 DEF Inv

\* Every step of the system keeps the invariant.
LEMMA NextInv == Inv /\ [Next]_vars => Inv'
<1> SUFFICES ASSUME Inv, [Next]_vars
             PROVE  Inv'
  OBVIOUS
<1>1. CASE UNCHANGED vars
  BY <1>1, ReadingKeeps DEF vars, redis
<1>2. ASSUME NEW t \in Turns, Step(t)
      PROVE  Inv'
  BY <1>2, PublishKeeps, RegisterKeeps, SaveQuestionKeeps, EnqueueKeeps, RelayKeeps,
     IdleKeeps, UnwindKeeps, SaveAnswerKeeps, CloseKeeps DEF Step
<1>3. ASSUME NEW t \in Turns, PodSteps(t)
      PROVE  Inv'
  BY <1>3, PodRepliesKeeps, PodEndsKeeps, PodStopsKeeps DEF PodSteps
<1>4. ASSUME NEW s \in Stops, Cancels(s)
      PROVE  Inv'
  BY <1>4, StopSignalsKeeps, StopWritesKeeps DEF Cancels
<1>5. ASSUME NEW k \in Readers, Tails(k)
      PROVE  Inv'
  BY <1>5, ReadingKeeps, SealsKeeps DEF Tails, ReaderReads, ReaderCuts
<1>6. ASSUME NEW k \in Readers, NEW p \in Replicas, ReaderOpens(k, p)
      PROVE  Inv'
  BY <1>6, ReadingKeeps DEF ReaderOpens
<1>7. ASSUME NEW p \in Replicas, ShutdownMarks(p) \/ Quits(p) \/ Crash(p)
      PROVE  Inv'
  BY <1>7, ShutdownMarksKeeps, ShutdownFlagsKeeps, ShutdownCancelsKeeps, DiesKeeps
     DEF Quits, Exit, Crash
<1> QED
  BY <1>1, <1>2, <1>3, <1>4, <1>5, <1>6, <1>7, PodStartsKeeps, PostKeeps, StopReadsKeeps
     DEF Next

\* The inductive invariant.
LEMMA AlwaysInv == Spec => []Inv
BY InitInv, NextInv, PTL DEF Spec

\* What the relay of a turn keeps of the replies of its conversation's shared
\* stream is its own pod's deltas, each once and in order, and all of them when
\* the answer is complete.
THEOREM RelaysOwnReplies == Spec => []RepliesAreOwn
<1>1. Inv => RepliesAreOwn
  BY DEF Inv, RepliesInv, RepliesAreOwn
<1> QED
  BY <1>1, AlwaysInv, PTL

\* Only a Stop for that very run ends a turn as cancelled, and only a client
\* that gave up on it ends it as stalled.
THEOREM EndsAsAsked == Spec => []CancelledWasAsked
<1>1. Inv => CancelledWasAsked
  BY DEF Inv, AskedInv
<1> QED
  BY <1>1, AlwaysInv, PTL

\* A stream that says completed speaks of an answer the database holds.
THEOREM CompletesAfterSaving == Spec => []CompletedIsSaved
<1>1. Inv => CompletedIsSaved
  BY DEF Inv, SavedInv, CompletedIsSaved
<1> QED
  BY <1>1, AlwaysInv, PTL

\* The index names the run published last for as long as it runs.
THEOREM IndexNamesRun == Spec => []RunningIsFound
<1>1. Inv => RunningIsFound
  BY DEF Inv, Shape, FoundInv, RunningIsFound, Running
<1> QED
  BY <1>1, AlwaysInv, PTL

=============
