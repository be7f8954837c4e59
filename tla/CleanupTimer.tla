----------------------------- MODULE CleanupTimer -----------------------------
(***************************************************************************)
(* ReservationCleanupScheduler and runScheduledReservationCleanup: once a  *)
(* minute, unless the run before is still going, the timer looks for       *)
(* venues by two queries, for reservations and for live sessions, and      *)
(* cleans up at once what they found.  The queries match more venues than  *)
(* have something due (a guest is seated, an arrival is near, a session is *)
(* on), each takes a bounded number of them, and neither has an order.     *)
(* Promise.all ends the run at the first cleanup that throws; the others   *)
(* go on, and the next run may clean the same venue at the same time.      *)
(***************************************************************************)
EXTENDS Naturals, FiniteSets

CONSTANTS
    Venues,
    Broken,         \* venues whose cleanup throws: a refund the provider keeps refusing
    Take,           \* `take` of the queries
    MaxStray        \* bound: cleanups of one venue that outlive their run

VARIABLES
    matched,        \* per query, the venues it matches
    due,            \* per query, those of them with something due that a cleanup can see to
    isRunning,
    awaited,        \* venues whose cleanup the run awaits
    stray           \* cleanups that go on after their run was rejected

vars == <<matched, due, isRunning, awaited, stray>>

Queries == {"reservations", "liveVenues"}

TimerTypes ==
    /\ matched \in [Queries -> SUBSET Venues]
    /\ \A q \in Queries : due[q] \subseteq matched[q]
    /\ due \in [Queries -> SUBSET Venues] /\ isRunning \in BOOLEAN
    /\ awaited \subseteq Venues
    /\ stray \in [Venues -> 0..MaxStray]

Init ==
    /\ matched = [q \in Queries |-> {}] /\ due = [q \in Queries |-> {}]
    /\ isRunning = FALSE /\ awaited = {} /\ stray = [v \in Venues |-> 0]

-----------------------------------------------------------------------------
(* Reservations and sessions come, fall due, and end. *)

Appears(q, v) ==
    /\ matched' = [matched EXCEPT ![q] = @ \cup {v}]
    /\ UNCHANGED <<due, isRunning, awaited, stray>>

\* What is due where cleanups throw stays due, and only keeps the venue matched.
FallsDue(q, v) ==
    /\ v \in matched[q] \ Broken
    /\ due' = [due EXCEPT ![q] = @ \cup {v}]
    /\ UNCHANGED <<matched, isRunning, awaited, stray>>

\* Once due, only a cleanup ends it here: requests of guests and owners are no help.
Ends(q, v) ==
    /\ v \notin due[q]
    /\ matched' = [matched EXCEPT ![q] = @ \ {v}]
    /\ UNCHANGED <<due, isRunning, awaited, stray>>

-----------------------------------------------------------------------------

SmallerOf(a, b) == IF a <= b THEN a ELSE b

\* findMany with `take` and no order: any of them.
Found(q) == {S \in SUBSET matched[q] : Cardinality(S) = SmallerOf(Cardinality(matched[q]), Take)}

\* With nothing found a run is over at once.
Fires ==
    /\ ~isRunning /\ (\E q \in Queries : matched[q] # {})
    /\ \E R \in Found("reservations"), L \in Found("liveVenues") :
          isRunning' = TRUE /\ awaited' = R \cup L
    /\ UNCHANGED <<matched, due, stray>>

\* Seeded fault: a run that was rejected stays marked as running.
RejectedKeepsRunning(v) ==
    /\ v \in awaited /\ v \in Broken
    /\ \A w \in awaited \ {v} : stray[w] < MaxStray
    /\ awaited' = {}
    /\ stray' = [w \in Venues |-> IF w \in awaited \ {v} THEN stray[w] + 1 ELSE stray[w]]
    /\ UNCHANGED <<matched, due, isRunning>>

\* The rejection of one cleanup ends the run; `finally` lets the timer fire again.
Rejected(v) ==
    /\ v \in awaited /\ v \in Broken
    /\ \A w \in awaited \ {v} : stray[w] < MaxStray
    /\ isRunning' = FALSE /\ awaited' = {}
    /\ stray' = [w \in Venues |-> IF w \in awaited \ {v} THEN stray[w] + 1 ELSE stray[w]]
    /\ UNCHANGED <<matched, due>>

\* A cleanup sees to all that is due at its venue, whichever query found it.  The venue may
\* go on being matched.
Served(v) ==
    /\ due' = [q \in Queries |-> due[q] \ {v}]
    /\ UNCHANGED matched

Resolved(v) ==
    /\ v \in awaited \ Broken
    /\ awaited' = awaited \ {v}
    /\ isRunning' = (awaited' # {})
    /\ Served(v)
    /\ UNCHANGED stray

StrayEnds(v) ==
    /\ stray[v] > 0
    /\ stray' = [stray EXCEPT ![v] = @ - 1]
    /\ Served(v)
    /\ UNCHANGED <<isRunning, awaited>>

Next ==
    \/ Fires
    \/ \E q \in Queries, v \in Venues : Appears(q, v) \/ FallsDue(q, v) \/ Ends(q, v)
    \/ \E v \in Venues : Rejected(v) \/ Resolved(v) \/ StrayEnds(v)

\* The interval comes round, and a cleanup that was begun ends one way or the other.
Fairness ==
    /\ WF_vars(Fires)
    /\ \A v \in Venues : WF_vars(Rejected(v) \/ Resolved(v)) /\ WF_vars(StrayEnds(v))

Spec == Init /\ [][Next]_vars /\ Fairness

-----------------------------------------------------------------------------

\* The query that would find the venue matches more than it takes.
Overflowing(q) == Cardinality(matched[q]) > Take

\* Cleanups that throw, run after run, do not keep another venue from being cleaned up, as
\* long as one of the queries that would find it does not match more venues than it takes.
\* When they all do, nothing is promised: the same venues may be taken run after run.
DueServed ==
    \A v \in Venues \ Broken :
        (\E q \in Queries : v \in due[q]) ~> \A q \in Queries : v \in due[q] => Overflowing(q)
=============================================================================
