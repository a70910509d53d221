---------------------------- MODULE RunOwnership ----------------------------
(***************************************************************************)
(* What leases and epochs promise about a run, without computers, statuses,*)
(* clocks or commands: a run has a generation and at most one holder, a    *)
(* generation is handed out at most once, and only the holder adds to the  *)
(* run's log, each of its numbers at most once and in order.               *)
(***************************************************************************)
EXTENDS Naturals, Sequences

CONSTANTS Runs, NoHolder

VARIABLES
  generation,  \* the generation of each run, counted from zero
  holder,      \* the lease that may write to each run, or NoHolder
  handed,      \* every <<run, generation, lease>> ever handed out
  log          \* the <<generation, number>> pairs written to each run

vars == <<generation, holder, handed, log>>

Init ==
  /\ generation = [r \in Runs |-> 0]
  /\ holder = [r \in Runs |-> NoHolder]
  /\ handed = {}
  /\ log = [r \in Runs |-> <<>>]

\* A run is left to its holder, or taken from it by a new generation.
KeepOrTake(r) ==
  \/ generation'[r] = generation[r] /\ holder'[r] = holder[r]
  \/ generation'[r] > generation[r] /\ holder'[r] = NoHolder

Take ==
  /\ \A r \in Runs : KeepOrTake(r)
  /\ UNCHANGED <<handed, log>>

\* A generation of run r that nobody ever held gets its one holder, while other
\* runs may be taken from theirs.
HandOut(r) ==
  /\ holder'[r] # NoHolder
  /\ \A h \in handed : h[3] # holder'[r]
  /\ \A h \in handed : h[1] = r => h[2] < generation'[r]
  /\ generation'[r] >= generation[r]
  /\ \A q \in Runs \ {r} : KeepOrTake(q)
  /\ handed' = handed \cup {<<r, generation'[r], holder'[r]>>}
  /\ UNCHANGED log

\* The holder of run r writes its next number, and keeps the run or gives it up.
Write(r) ==
  LET size   == Len(log[r])
      number == log'[r][size + 1][2]
  IN  /\ holder[r] # NoHolder
      /\ Len(log'[r]) = size + 1
      /\ \A i \in 1..size :
           \/ log[r][i][1] < generation[r]
           \/ log[r][i][1] = generation[r] /\ log[r][i][2] < number
      /\ log' = [log EXCEPT ![r] = Append(@, <<generation[r], number>>)]
      /\ \/ holder' = holder
         \/ holder' = [holder EXCEPT ![r] = NoHolder]
      /\ UNCHANGED <<generation, handed>>

Next ==
  \/ Take
  \/ \E r \in Runs : HandOut(r) \/ Write(r)

Spec == Init /\ [][Next]_vars
=============================================================================
