------------------------------ MODULE AdminLogin ------------------------------
(***************************************************************************)
(* AuthService.adminLogin: failed attempts are counted in the memory of    *)
(* the process, by e-mail address and by network address, and lock both    *)
(* keys for a while.  The password is compared between the test of the     *)
(* lock and the count, so attempts overlap.                                *)
(***************************************************************************)
EXTENDS Integers, FiniteSets

CONSTANTS
    Emails, Addresses,
    Requests,       \* HTTP requests that can be in flight
    MaxActive,      \* bound: attempts in flight at once
    Limit,          \* ADMIN_LOGIN_ATTEMPT_LIMIT
    Window,         \* ADMIN_LOGIN_WINDOW_MS
    Lock,           \* ADMIN_LOGIN_LOCK_MS
    MaxTime         \* bound: the last tick

AdminLoginBounds ==
    /\ {MaxActive, Limit, Window, Lock, MaxTime} \subseteq Nat
    /\ Limit >= 2 /\ MaxActive >= 1
    /\ 1 <= Window /\ Window <= Lock
    /\ IsFiniteSet(Requests)
    /\ Emails \cap Addresses = {}

Keys == Emails \cup Addresses

VARIABLES
    now,
    attempts,       \* adminLoginAttempts: count 0 stands for no entry
    tally,          \* kept for the property: failures since the last success
    trying          \* the keys each request in flight tries, {} for none

vars == <<now, attempts, tally, trying>>

Ticks   == 0..MaxTime
NoLock  == -1
Failures == Ticks \X Nat        \* each with its tick, and numbered
Entry   == [count: Nat, first: Ticks, lockedUntil: Nat \cup {NoLock}]
NoEntry == [count |-> 0, first |-> 0, lockedUntil |-> NoLock]

\* Counters and locks stay in their range, and a request tries one key of each kind.
AdminLoginTypes ==
    /\ now \in Ticks
    /\ attempts \in [Keys -> Entry]
    /\ tally \in [Keys -> SUBSET Failures]
    /\ trying \in [Requests -> {{}} \cup {{e, a} : e \in Emails, a \in Addresses}]

Init ==
    /\ now = 0
    /\ attempts = [k \in Keys |-> NoEntry]
    /\ tally = [k \in Keys |-> {}]
    /\ trying = [h \in Requests |-> {}]

Locked(k)   == attempts[k].lockedUntil > now
Unlocked(k) == attempts[k].lockedUntil \in 0..now

\* assertAdminLoginAllowed: the address comes after the e-mail, whose lapsed lock is
\* forgotten even if the address is locked.
Begin(h, e, a) ==
    /\ trying[h] = {}
    /\ Cardinality({g \in Requests : trying[g] # {}}) < MaxActive
    /\ ~Locked(e)
    /\ attempts' = [k \in Keys |-> IF \/ k = e /\ Unlocked(e)
                                      \/ k = a /\ Unlocked(a)
                                   THEN NoEntry ELSE attempts[k]]
    /\ trying' = [trying EXCEPT ![h] = IF Locked(a) THEN {} ELSE {e, a}]
    /\ UNCHANGED <<now, tally>>

\* Seeded fault: one more attempt than the limit allows.
CountedLate(k) ==
    LET fresh == attempts[k].count = 0 \/ now - attempts[k].first > Window
        next  == IF fresh THEN [count |-> 1, first |-> now, lockedUntil |-> NoLock]
                          ELSE [attempts[k] EXCEPT !.count = @ + 1]
    IN  IF next.count > Limit THEN [next EXCEPT !.lockedUntil = now + Lock] ELSE next

\* recordFailedAdminLogin for one key: a window starts with its first failure.
Counted(k) ==
    LET fresh == attempts[k].count = 0 \/ now - attempts[k].first > Window
        next  == IF fresh THEN [count |-> 1, first |-> now, lockedUntil |-> NoLock]
                          ELSE [attempts[k] EXCEPT !.count = @ + 1]
    IN  IF next.count >= Limit THEN [next EXCEPT !.lockedUntil = now + Lock] ELSE next

Done(h) == trying' = [trying EXCEPT ![h] = {}] /\ UNCHANGED now

Failed(h) ==
    /\ trying[h] # {}
    /\ attempts' = [k \in Keys |-> IF k \in trying[h] THEN Counted(k) ELSE attempts[k]]
    /\ tally' = [k \in Keys |-> IF k \in trying[h] THEN tally[k] \cup {<<now, Cardinality(tally[k])>>}
                                                   ELSE tally[k]]
    /\ Done(h)

Succeeded(h) ==
    /\ trying[h] # {}
    /\ attempts' = [k \in Keys |-> IF k \in trying[h] THEN NoEntry ELSE attempts[k]]
    /\ tally' = [k \in Keys |-> IF k \in trying[h] THEN {} ELSE tally[k]]
    /\ Done(h)

Tick == now < MaxTime /\ now' = now + 1 /\ UNCHANGED <<attempts, tally, trying>>

Next ==
    \/ \E h \in Requests :
          \/ \E e \in Emails, a \in Addresses : Begin(h, e, a)
          \/ Failed(h) \/ Succeeded(h)
    \/ Tick

Spec == Init /\ [][Next]_vars

-----------------------------------------------------------------------------

Recent(k) == {x \in tally[k] : now - Window < x[1]}

\* Windows are counted from a first failure and do not slide, and an attempt that was under
\* way when the lock was set can still fail, or start the next window: no period as long as
\* the window sees more failures than two windows allow and those under way at the end of each.
FailuresBounded ==
    \A k \in Keys : Cardinality(Recent(k)) <= 2 * (Limit + MaxActive - 2)
=============================================================================
