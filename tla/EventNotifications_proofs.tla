----------------------- MODULE EventNotifications_proofs -----------------------
(***************************************************************************)
(* Proofs about announcements, for any set of events, rows and users, any  *)
(* delay and any number of crashes, when a save of the panel or a run of   *)
(* the sender is over before the next one begins (MaxActive = 1).          *)
(***************************************************************************)
EXTENDS EventNotifications, FiniteSetTheorems, WellFoundedInduction, TLAPS

-----------------------------------------------------------------------------
(* Lists of events.                                                        *)

\* Of sets of subsets of a finite set, one has no proper subset among them.
LEMMA Minimal ==
    ASSUME NEW S, IsFiniteSet(S), NEW T, T # {}, \A A \in T : A \subseteq S
    PROVE  \E A \in T : \A B \in T : B \subseteq A => B = A
<1> DEFINE R == StrictSubsetOrdering(S)
<1>1. IsWellFoundedOn(R, FiniteSubsetsOf(S))
  BY FS_StrictSubsetOrderingWellFounded
<1>2. T \subseteq FiniteSubsetsOf(S)
  BY FS_Subset DEF FiniteSubsetsOf
<1>3. PICK A \in T : \A B \in T : ~(<<B, A>> \in R)
  <2> HIDE DEF R
  <2> QED
    BY <1>1, <1>2, WFMin
<1> QED
  BY <1>3 DEF StrictSubsetOrdering

\* A finite set of numbers that is not empty has a greatest one.
LEMMA Greatest ==
    ASSUME NEW S \in SUBSET Nat, IsFiniteSet(S), S # {}
    PROVE  \E m \in S : \A e \in S : e <= m
<1> DEFINE Above(m) == {e \in S : e >= m}
           T == {Above(m) : m \in S}
<1>1. T # {} /\ \A A \in T : A \subseteq S
  OBVIOUS
<1>2. PICK A \in T : \A B \in T : B \subseteq A => B = A
  <2> HIDE DEF T
  <2> QED
    BY <1>1, Minimal
<1>3. PICK m \in S : A = Above(m)
  OBVIOUS
<1>4. ASSUME NEW e \in S, e > m PROVE FALSE
  <2>1. Above(e) \in T
    OBVIOUS
  <2>2. m \in A /\ m \notin Above(e)
    BY <1>3, <1>4
  <2>3. ASSUME NEW a \in Above(e) PROVE a \in Above(m)
    <3>1. a \in Nat /\ e \in Nat /\ m \in Nat /\ a >= e
      OBVIOUS
    <3> QED
      BY <1>4, <3>1
  <2> QED
    BY <1>2, <1>3, <2>1, <2>2, <2>3
<1> QED
  BY <1>4

\* f lists S in order.
Orders(f, S) == f \in [1..Cardinality(S) -> S] /\ \A i, j \in DOMAIN f : i < j => f[i] < f[j]

\* A finite set of numbers can be listed in order.
LEMMA OrderExists ==
    ASSUME NEW S \in SUBSET Nat, IsFiniteSet(S)
    PROVE  \E f : Orders(f, S)
<1> DEFINE T == {A \in SUBSET S : ~ \E f : Orders(f, A)}
<1>1. SUFFICES ASSUME T # {} PROVE FALSE
  OBVIOUS
<1>2. PICK A \in T : \A B \in T : B \subseteq A => B = A
  <2>1. \A A \in T : A \subseteq S
    OBVIOUS
  <2> HIDE DEF T
  <2> QED
    BY <1>1, <2>1, Minimal
<1>3. IsFiniteSet(A) /\ A \in SUBSET Nat /\ Cardinality(A) \in Nat
  BY FS_Subset, FS_CardinalityType
<1>4. A # {}
  <2>1. SUFFICES ASSUME A = {} PROVE FALSE
    OBVIOUS
  <2>2. Cardinality(A) = 0
    BY <2>1, FS_EmptySet
  <2>3. Orders([i \in 1..Cardinality(A) |-> i], A)
    BY <2>2 DEF Orders
  <2> QED
    BY <2>3
<1>5. PICK m \in A : \A e \in A : e <= m
  BY <1>3, <1>4, Greatest
<1> DEFINE B == A \ {m}
<1>6. B \notin T /\ B \in SUBSET S
  BY <1>2
<1>7. PICK g : Orders(g, B)
  BY <1>6
<1>8. Cardinality(B) = Cardinality(A) - 1 /\ Cardinality(A) >= 1
  <2>1. Cardinality(B) = Cardinality(A) - 1
    BY <1>3, FS_RemoveElement
  <2>2. Cardinality(A) # 0
    BY <1>3, <1>4, FS_EmptySet
  <2> QED
    BY <1>3, <2>1, <2>2
<1> DEFINE n == Cardinality(A)
           f == [i \in 1..n |-> IF i = n THEN m ELSE g[i]]
<1>9. g \in [1..(n - 1) -> B] /\ \A i, j \in 1..(n - 1) : i < j => g[i] < g[j]
  BY <1>7, <1>8 DEF Orders
<1>10. n \in Nat
  BY <1>3
<1>11. Orders(f, A)
  <2> HIDE DEF n
  <2>1. f \in [1..n -> A]
    BY <1>9, <1>10
  <2>2. ASSUME NEW i \in 1..n, NEW j \in 1..n, i < j PROVE f[i] < f[j]
    <3>1. i \in 1..(n - 1) /\ i \in 1..n /\ i # n
      BY <1>10, <2>2
    <3>2. CASE j = n
      <4>1. g[i] \in A /\ g[i] # m
        BY <1>9, <3>1
      <4>2. g[i] <= m /\ g[i] \in Nat /\ m \in Nat
        BY <1>3, <1>5, <4>1
      <4>3. f[i] = g[i] /\ f[j] = m
        BY <3>1, <3>2
      <4> QED
        BY <4>1, <4>2, <4>3
    <3>3. CASE j # n
      <4>1. j \in 1..(n - 1)
        BY <1>10, <3>3
      <4> QED
        BY <1>9, <2>2, <3>1, <3>3, <4>1
    <3> QED
      BY <3>2, <3>3
  <2> QED
    BY <2>1, <2>2 DEF Orders, n
<1> QED
  BY <1>11

\* Each member of a finite set of numbers has one place in its list.
LEMMA ListedAll ==
    ASSUME NEW S \in SUBSET Nat, IsFiniteSet(S)
    PROVE  /\ Cardinality(S) \in Nat
           /\ Listed(S) \in [1..Cardinality(S) -> S]
           /\ \A e \in S : \E i \in 1..Cardinality(S) : Listed(S)[i] = e
<1>1. Cardinality(S) \in Nat
  BY FS_CardinalityType
<1>2. Orders(Listed(S), S)
  BY OrderExists DEF Orders, Listed
<1>3. Listed(S) \in Injection(1..Cardinality(S), S)
  <2>1. ASSUME NEW i \in 1..Cardinality(S), NEW j \in 1..Cardinality(S),
               Listed(S)[i] = Listed(S)[j]
        PROVE  i = j
    <3>1. /\ Listed(S)[i] \in Nat
          /\ i < j => Listed(S)[i] < Listed(S)[j]
          /\ j < i => Listed(S)[j] < Listed(S)[i]
      BY <1>2 DEF Orders
    <3> QED
      BY <1>1, <2>1, <3>1
  <2> QED
    BY <1>2, <2>1 DEF Orders, Injection, IsInjective
<1>4. IsFiniteSet(1..Cardinality(S)) /\ Cardinality(1..Cardinality(S)) = Cardinality(S)
  <2>1. 1 \in Int /\ Cardinality(S) \in Int
    BY <1>1
  <2>2. Cardinality(1..Cardinality(S)) = IF 1 > Cardinality(S) THEN 0 ELSE Cardinality(S) - 1 + 1
    BY <2>1, FS_Interval
  <2> QED
    BY <1>1, <2>1, <2>2, FS_Interval
<1>5. Listed(S) \in Surjection(1..Cardinality(S), S)
  BY <1>3, <1>4, FS_Injection
<1> QED
  BY <1>1, <1>2, <1>5 DEF Orders, Surjection

-----------------------------------------------------------------------------
(* The inductive invariant.                                                *)

Serial == MaxActive = 1

Busy(s) == sender[s].step # "idle"

\* One save or one run of the sender is in flight.
OneInFlight ==
    /\ \A s, t \in Senders : Busy(s) /\ Busy(t) => s = t
    /\ \A s \in Senders : Busy(s) => save.step = "idle"

\* What a run of the sender has left is what the rows still say.
SenderGood(s) ==
    /\ Busy(s) => \A r \in sender[s].todo : Pending(r) /\ sender[s].about[r] = row[r].event
    /\ sender[s].step = "mark" => sender[s].row \in sender[s].todo

\* Followers were told of a row: it says so, or is about to.
Told(r) == row[r].sent \/ \E s \in Senders : sender[s].step = "mark" /\ sender[s].row = r

\* Beyond once for every crash, an event is pushed for a row that says so.
PushesCounted ==
    \A u \in Users, e \in Events :
        /\ pushed[u][e] <= 1 + crashes
        /\ pushed[u][e] > crashes => \E r \in RowOf(e) : Told(r)

Kept(e) == \E r \in RowOf(e) : row[r].sent \/ row[r].skipped # "removed"

\* What a save found waiting is still waiting, and what it passed is scheduled.
SaveGood ==
    /\ save.index >= 1
    /\ save.step \in {"pending", "edit", "remove", "add"} => panel = save.after
    /\ save.step = "edit" => EditLike
    /\ save.moved # {} => EditLike
    /\ save.step \in {"edit", "remove"} => \A e \in Events : save.waiting[e] # None =>
          row[save.waiting[e]].event = e /\ Pending(save.waiting[e])
    /\ save.step = "add" =>
          /\ \A e \in save.after : save.waiting[e] # None => Kept(e)
          /\ \A i \in 1..Cardinality(save.after) : i < save.index =>
                EditLike \/ Listed(save.after)[i] \in save.before \cup {e \in Events : Kept(e)}

\* A row that waits is about an event of the panel, or one the save under way drops.
PanelListed ==
    \A r \in Rows : Pending(r) =>
        /\ crashes = 0 /\ save.step \in {"idle", "write"} => row[r].event \in panel
        /\ save.step \in {"edit", "remove"} => save.waiting[row[r].event] = r
        /\ save.step = "add" => row[r].event \in save.after

NotificationInv ==
    /\ NotificationTypes
    /\ pushed \in [Users -> [Events -> Nat]] /\ crashes \in Nat
    /\ OneInFlight
    /\ \A s \in Senders : SenderGood(s)
    /\ PushesCounted
    /\ SaveGood
    /\ PanelListed
    /\ AddedScheduled

LEMMA NothingTyped ==
    ASSUME NotificationBounds
    PROVE  NoEntry \in Entries /\ NoSave \in Saves /\ NoSend \in Sends
<1>1. 0 \in Ticks
  BY DEF Ticks, NotificationBounds
<1>2. NoEntry \in Entries
  BY <1>1 DEF NoEntry, Entries, Reasons
<1>3. NoSave \in Saves
  <2>1. NoSave.waiting \in [Events -> Rows \cup {None}]
    BY DEF NoSave
  <2> QED
    BY <1>1, <2>1 DEF NoSave, Saves
<1>4. NoSend \in Sends
  BY DEF NoSend, Sends
<1> QED
  BY <1>2, <1>3, <1>4

LEMMA NotificationInvInit ==
    ASSUME NotificationIdentities, NotificationBounds, Init
    PROVE  NotificationInv
<1> USE DEF Init
<1>1. NotificationTypes
  <2>1. \A r, q \in Rows : row[r].event = row[q].event /\ row[r].event # None => r = q
    BY DEF NoEntry
  <2> QED
    BY <2>1, NothingTyped DEF NotificationTypes, NotificationBounds
<1>2. OneInFlight /\ \A s \in Senders : SenderGood(s)
  BY DEF OneInFlight, Busy, SenderGood, NoSend
<1>3. PushesCounted
  BY DEF PushesCounted
<1>4. SaveGood /\ PanelListed
  BY DEF SaveGood, NoSave, PanelListed, Pending, NoEntry
<1> QED
  BY <1>1, <1>2, <1>3, <1>4 DEF NotificationInv, AddedScheduled

\* While nothing else is in flight a save or a run of the sender may begin.
LEMMA NobodyBusy ==
    ASSUME Serial, NotificationInv, Quiet
    PROVE  save.step = "idle" /\ \A s \in Senders : ~Busy(s)
<1> DEFINE B == {s \in Senders : sender[s].step # "idle"}
<1>1. IsFiniteSet(Senders)
  <2>1. IsFiniteSet({"timer"}) /\ Senders = {"timer"} \cup {"immediate"}
    BY FS_Singleton DEF Senders
  <2> QED
    BY <2>1, FS_AddElement
<1>2. IsFiniteSet(B) /\ Cardinality(B) \in Nat
  <2>1. B \in SUBSET Senders
    OBVIOUS
  <2> QED
    BY <1>1, <2>1, FS_Subset, FS_CardinalityType
<1>3. Cardinality(B) = 0 /\ save.step = "idle"
  <2>1. Cardinality(B) + (IF save.step # "idle" THEN 1 ELSE 0) < 1
    BY DEF Quiet, InFlight, Serial
  <2> HIDE DEF B
  <2> QED
    BY <1>2, <2>1
<1>4. B = {}
  BY <1>2, <1>3, FS_EmptySet
<1> QED
  BY <1>3, <1>4 DEF Busy

\* Each event has a place in the list of a set of events.
LEMMA PanelListOrdered ==
    ASSUME NotificationBounds, NEW S \in SUBSET Events
    PROVE  /\ IsFiniteSet(S) /\ Cardinality(S) \in Nat
           /\ Listed(S) \in [1..Cardinality(S) -> S]
           /\ \A e \in S : \E i \in 1..Cardinality(S) : Listed(S)[i] = e
<1>1. IsFiniteSet(S) /\ S \in SUBSET Nat
  BY FS_Subset DEF NotificationBounds
<1> QED
  BY <1>1, ListedAll

\* An event that has no row finds one that is free.
LEMMA RowIsFree ==
    ASSUME NotificationBounds, NotificationIdentities, NotificationTypes, NEW e \in Events,
           RowOf(e) = {}
    PROVE  \E r \in Rows : row[r].event = None
<1> SUFFICES ASSUME \A r \in Rows : row[r].event # None PROVE FALSE
  OBVIOUS
<1> DEFINE f == [r \in Rows |-> row[r].event]
<1>1. f \in [Rows -> Events \ {e}]
  BY DEF NotificationTypes, Entries, RowOf
<1>2. f \in Injection(Rows, Events \ {e})
  BY <1>1 DEF NotificationTypes, Injection, IsInjective
<1>3. /\ IsFiniteSet(Events \ {e}) /\ Cardinality(Events \ {e}) = Cardinality(Events) - 1
      /\ Cardinality(Events) \in Nat /\ Cardinality(Rows) \in Nat
  BY FS_RemoveElement, FS_CardinalityType DEF NotificationBounds
<1>4. Cardinality(Rows) <= Cardinality(Events \ {e})
  BY <1>2, <1>3, FS_Injection
<1> QED
  BY <1>3, <1>4 DEF NotificationBounds

-----------------------------------------------------------------------------
(* Saves.                                                                  *)

\* What a step does not touch stays good.
LEMMA RowsUntouched ==
    ASSUME NotificationInv, UNCHANGED <<row, sender, pushed, crashes>>
    PROVE  /\ pushed' \in [Users -> [Events -> Nat]] /\ crashes' \in Nat
           /\ \A s \in Senders : SenderGood(s)'
           /\ PushesCounted'
<1>1. pushed' \in [Users -> [Events -> Nat]] /\ crashes' \in Nat
  BY DEF NotificationInv
<1>2. \A s \in Senders : SenderGood(s)'
  BY DEF NotificationInv, SenderGood, Busy, Pending
<1>3. PushesCounted'
  BY DEF NotificationInv, PushesCounted, RowOf, Told
<1> QED
  BY <1>1, <1>2, <1>3

LEMMA SaveBeginKeeps ==
    ASSUME Serial, NotificationBounds, NotificationInv, NEW events \in SUBSET Events,
           SaveBegin(events)
    PROVE  NotificationInv'
<1> USE DEF SaveBegin
<1>1. \A s \in Senders : ~Busy(s)
  BY NobodyBusy
<1>2. /\ save' = [NoSave EXCEPT !.step = "write", !.before = panel, !.after = events]
      /\ save'.step = "write" /\ save'.index = 1 /\ save'.moved = {}
  BY DEF NoSave
<1>3. NotificationTypes'
  <2>1. save' \in Saves
    <3>1. NoSave \in Saves /\ panel \in SUBSET Events
      BY NothingTyped DEF NotificationInv, NotificationTypes
    <3> QED
      BY <1>2, <3>1 DEF Saves
  <2> QED
    BY <2>1 DEF NotificationInv, NotificationTypes
<1>4. OneInFlight'
  BY <1>1 DEF OneInFlight, Busy
<1>5. SaveGood'
  BY <1>2 DEF SaveGood
<1>6. PanelListed'
  BY <1>2 DEF NotificationInv, PanelListed, Pending
<1>7. AddedScheduled'
  BY <1>2 DEF AddedScheduled
<1> QED
  BY <1>3, <1>4, <1>5, <1>6, <1>7, RowsUntouched DEF NotificationInv

LEMMA SaveWriteKeeps ==
    ASSUME NotificationBounds, NotificationInv, SaveWrite
    PROVE  NotificationInv'
<1> USE DEF SaveWrite
<1>1. save \in Saves /\ now \in 0..MaxTime
  BY DEF NotificationInv, NotificationTypes
<1>2. save' = [save EXCEPT !.step = "pending", !.due = now + Delay]
  OBVIOUS
<1>3. now + Delay \in Ticks
  BY <1>1 DEF Ticks, NotificationBounds
<1>4. /\ save' \in Saves /\ save'.step = "pending" /\ save'.index = save.index
      /\ save'.moved = save.moved /\ save'.before = save.before /\ save'.after = save.after
  BY <1>1, <1>2, <1>3 DEF Saves
<1>5. NotificationTypes'
  <2>1. panel' \subseteq Events
    BY <1>1 DEF Saves
  <2> QED
    BY <1>4, <2>1 DEF NotificationInv, NotificationTypes
<1>6. OneInFlight'
  BY <1>4 DEF NotificationInv, OneInFlight, Busy
<1>7. SaveGood'
  BY <1>4 DEF NotificationInv, SaveGood, EditLike
<1>8. PanelListed' /\ AddedScheduled'
  BY <1>4 DEF PanelListed, AddedScheduled
<1> QED
  BY <1>5, <1>6, <1>7, <1>8, RowsUntouched DEF NotificationInv

LEMMA SavePendingKeeps ==
    ASSUME NotificationIdentities, NotificationInv, SavePending
    PROVE  NotificationInv'
<1> USE DEF SavePending
<1>1. save \in Saves /\ NotificationTypes
  BY DEF NotificationInv, NotificationTypes
<1> DEFINE W == [e \in Events |->
              IF \E r \in RowOf(e) : Pending(r) THEN CHOOSE r \in RowOf(e) : TRUE ELSE None]
<1>2. save' = [save EXCEPT !.step = IF EditLike THEN "edit" ELSE "remove", !.waiting = W]
  OBVIOUS
<1>3. ASSUME NEW e \in Events
      PROVE  /\ W[e] \in Rows \cup {None}
             /\ W[e] # None => row[W[e]].event = e /\ Pending(W[e])
             /\ \A r \in RowOf(e) : Pending(r) => W[e] = r
  <2>1. RowOf(e) \subseteq Rows /\ \A r, q \in RowOf(e) : r = q
    BY <1>1 DEF NotificationTypes, RowOf, NotificationIdentities
  <2>2. CASE \E r \in RowOf(e) : Pending(r)
    <3>1. W[e] \in RowOf(e)
      BY <2>2
    <3> QED
      BY <2>1, <2>2, <3>1 DEF RowOf
  <2>3. CASE ~ \E r \in RowOf(e) : Pending(r)
    BY <2>3
  <2> QED
    BY <2>2, <2>3
<1> HIDE DEF W
<1>4. W \in [Events -> Rows \cup {None}]
  <2>1. W = [e \in Events |-> W[e]]
    BY DEF W
  <2> QED
    BY <1>3, <2>1
<1>5. /\ save' \in Saves /\ save'.step = (IF EditLike THEN "edit" ELSE "remove")
      /\ save'.index = save.index /\ save'.waiting = W
      /\ save'.moved = save.moved /\ save'.before = save.before /\ save'.after = save.after
  BY <1>1, <1>2, <1>4 DEF Saves
<1>6. NotificationTypes'
  BY <1>1, <1>5 DEF NotificationTypes
<1>7. OneInFlight'
  BY DEF NotificationInv, OneInFlight, Busy
<1>8. SaveGood'
  <2>1. \A e \in Events : save'.waiting[e] # None =>
           (row[save.waiting[e]].event = e /\ Pending(save.waiting[e]))'
    BY <1>3, <1>5 DEF Pending
  <2>2. EditLike' <=> EditLike
    BY <1>5 DEF EditLike
  <2>3. save.index >= 1 /\ panel = save.after /\ (save.moved # {} => EditLike)
    BY DEF NotificationInv, SaveGood
  <2> QED
    BY <1>5, <2>1, <2>2, <2>3 DEF SaveGood
<1>9. PanelListed'
  <2> SUFFICES ASSUME NEW r \in Rows, Pending(r) PROVE W[row[r].event] = r
    <3>1. save'.step \in {"edit", "remove"} /\ save'.waiting = W /\ \A r \in Rows : Pending(r)' <=> Pending(r)
      BY <1>5 DEF Pending
    <3> QED
      BY <3>1 DEF PanelListed
  <2>1. row[r].event \in Events /\ r \in RowOf(row[r].event)
    BY <1>1 DEF NotificationTypes, Entries, Pending, RowOf
  <2> QED
    BY <1>3, <2>1
<1>10. AddedScheduled'
  BY <1>5 DEF AddedScheduled
<1> QED
  BY <1>6, <1>7, <1>8, <1>9, <1>10, RowsUntouched DEF NotificationInv

\* A row is found by its event alone.
LEMMA OneRowOf ==
    ASSUME NotificationIdentities, NotificationTypes, NEW e \in Events, NEW r \in RowOf(e)
    PROVE  r \in Rows /\ row[r].event = e /\ RowOf(e) = {r}
BY DEF NotificationIdentities, NotificationTypes, RowOf

LEMMA SaveEditKeeps ==
    ASSUME NotificationBounds, NotificationIdentities, NotificationInv, SaveEdit
    PROVE  NotificationInv'
<1>1. /\ NotificationTypes /\ save \in Saves /\ row \in [Rows -> Entries] /\ save.step = "edit"
      /\ save.index \in Nat /\ save.index >= 1
  BY DEF NotificationInv, NotificationTypes, Saves, SaveGood, SaveEdit
<1>2. \A s \in Senders : ~Busy(s)
  BY <1>1 DEF NotificationInv, OneInFlight
<1>3. /\ EditLike /\ save.before \in SUBSET Events /\ save.after \in SUBSET Events
      /\ Cardinality(save.before) = Cardinality(save.after)
  BY <1>1 DEF NotificationInv, SaveGood, EditLike, Saves
<1>4. UNCHANGED <<now, panel, followers, sender, asked, pushed, added, crashes>>
  BY DEF SaveEdit
<1> DEFINE old == Listed(save.before)[save.index]
           new == Listed(save.after)[save.index]
           r   == save.waiting[old]
<1>5. CASE /\ save.index <= Cardinality(save.after)
           /\ old # new /\ r # None /\ save.waiting[new] = None /\ RowOf(new) \subseteq {r}
           /\ row' = [row EXCEPT ![r].event = new]
           /\ save' = [save EXCEPT !.index = @ + 1, !.moved = @ \cup {new},
                          !.waiting = [@ EXCEPT ![old] = None, ![new] = r]]
  <2>1. PICK o, n, q : o = old /\ n = new /\ q = r
    OBVIOUS
  <2>2. o \in Events /\ n \in save.after /\ n \in Events
    <3>1. Cardinality(save.after) \in Nat /\ save.index \in 1..Cardinality(save.after)
      BY <1>1, <1>3, <1>5, PanelListOrdered
    <3>2. Listed(save.before) \in [1..Cardinality(save.before) -> save.before]
          /\ Listed(save.after) \in [1..Cardinality(save.after) -> save.after]
      BY <1>3, PanelListOrdered
    <3> QED
      BY <1>3, <2>1, <3>1, <3>2
  <2>3. /\ o # n /\ q # None /\ save.waiting[o] = q /\ save.waiting[n] = None
        /\ RowOf(n) \subseteq {q}
        /\ row' = [row EXCEPT ![q].event = n]
        /\ save' = [save EXCEPT !.index = @ + 1, !.moved = @ \cup {n},
                       !.waiting = [@ EXCEPT ![o] = None, ![n] = q]]
    BY <1>5, <2>1
  <2> HIDE DEF old, new, r
  <2>4. q \in Rows /\ row[q].event = o /\ Pending(q)
    BY <1>1, <2>2, <2>3 DEF NotificationInv, SaveGood, Saves
  <2>5. /\ \A p \in Rows : row'[p].sent = row[p].sent /\ row'[p].skipped = row[p].skipped
        /\ row'[q].event = n /\ \A p \in Rows \ {q} : row'[p] = row[p]
        /\ row' \in [Rows -> Entries]
    BY <1>1, <2>2, <2>3, <2>4 DEF Entries
  <2>6. /\ save' \in Saves /\ save'.step = "edit" /\ save'.index = save.index + 1
        /\ save'.before = save.before /\ save'.after = save.after
        /\ save'.waiting[n] = q /\ save'.waiting[o] = None
        /\ \A e \in Events \ {o, n} : save'.waiting[e] = save.waiting[e]
    <3>1. save.waiting \in [Events -> Rows \cup {None}] /\ save.moved \in SUBSET Events
      BY <1>1 DEF Saves
    <3> DEFINE w == [save.waiting EXCEPT ![o] = None, ![n] = q]
    <3>2. /\ w \in [Events -> Rows \cup {None}] /\ w[n] = q /\ w[o] = None
          /\ \A e \in Events \ {o, n} : w[e] = save.waiting[e]
      BY <2>2, <2>3, <2>4, <3>1
    <3>3. save' = [save EXCEPT !.index = save.index + 1, !.moved = save.moved \cup {n}, !.waiting = w]
      BY <1>1, <2>3 DEF Saves
    <3> HIDE DEF w
    <3>4. save' \in Saves /\ save'.waiting = w
      <4>1. save.index + 1 \in Nat /\ save.moved \cup {n} \in SUBSET Events
        BY <1>1, <2>2, <3>1
      <4> QED
        BY <1>1, <3>2, <3>3, <4>1 DEF Saves
    <3> QED
      BY <1>1, <3>2, <3>3, <3>4 DEF Saves
  <2>7. NotificationTypes'
    <3>1. ASSUME NEW p \in Rows, NEW s \in Rows, row'[p].event = row'[s].event,
                 row'[p].event # None
          PROVE  p = s
      BY <1>1, <2>3, <2>5, <3>1 DEF NotificationTypes, RowOf
    <3> QED
      BY <1>4, <2>5, <2>6, <3>1 DEF NotificationInv, NotificationTypes
  <2>8. OneInFlight' /\ \A s \in Senders : SenderGood(s)'
    BY <1>2, <1>4 DEF OneInFlight, Busy, SenderGood
  <2>9. PushesCounted'
    <3> SUFFICES ASSUME NEW u \in Users, NEW e \in Events
                 PROVE  /\ pushed[u][e] <= 1 + crashes
                        /\ pushed[u][e] > crashes => \E p \in Rows : row'[p].event = e /\ row'[p].sent
      BY <1>4 DEF PushesCounted, RowOf, Told
    <3>1. /\ pushed[u][e] <= 1 + crashes
          /\ pushed[u][e] > crashes => \E p \in RowOf(e) : Told(p)
      BY DEF NotificationInv, PushesCounted
    <3>2. ASSUME NEW p \in RowOf(e), Told(p) PROVE p \in Rows /\ row'[p].event = e /\ row'[p].sent
      <4>1. p \in Rows /\ row[p].sent /\ row[p].event = e
        BY <1>2, <3>2 DEF Told, RowOf, Busy
      <4>2. p # q
        BY <2>4, <4>1 DEF Pending
      <4> QED
        BY <2>5, <4>1, <4>2
    <3> QED
      BY <3>1, <3>2
  <2>10. SaveGood'
    <3>1. EditLike'
      BY <1>3, <2>6 DEF EditLike
    <3>2. ASSUME NEW e \in Events, save'.waiting[e] # None
          PROVE  (row[save.waiting[e]].event = e /\ Pending(save.waiting[e]))'
      <4>1. CASE e = n
        BY <2>4, <2>5, <2>6, <4>1, <2>2 DEF Pending, NotificationIdentities
      <4>2. CASE e # n
        <5>1. save'.waiting[e] = save.waiting[e]
          BY <2>6, <3>2, <4>2
        <5>2. row[save.waiting[e]].event = e /\ Pending(save.waiting[e]) /\ save.waiting[e] \in Rows
          BY <1>1, <3>2, <5>1 DEF NotificationInv, SaveGood, Saves
        <5>3. save.waiting[e] # q
          BY <2>4, <2>6, <3>2, <4>2, <5>2
        <5> QED
          BY <2>5, <5>1, <5>2, <5>3 DEF Pending
      <4> QED
        BY <4>1, <4>2
    <3>3. panel = save.after
      BY <1>1 DEF NotificationInv, SaveGood
    <3> QED
      BY <1>1, <1>4, <2>6, <3>1, <3>2, <3>3 DEF SaveGood
  <2>11. PanelListed'
    <3> SUFFICES ASSUME NEW p \in Rows, Pending(p)' PROVE save'.waiting[row'[p].event] = p
      BY <2>6 DEF PanelListed
    <3>1. CASE p = q
      BY <2>5, <2>6, <3>1
    <3>2. CASE p # q
      <4>1. row'[p] = row[p] /\ Pending(p) /\ save.waiting[row[p].event] = p
        BY <1>1, <2>5, <3>2 DEF NotificationInv, PanelListed, Pending
      <4>2. row[p].event \in Events /\ row[p].event # o /\ row[p].event # n
        BY <1>1, <2>3, <2>4, <3>2, <4>1 DEF NotificationTypes, Entries, Pending, RowOf
      <4> QED
        BY <2>6, <4>1, <4>2
    <3> QED
      BY <3>1, <3>2
  <2>12. AddedScheduled'
    BY <2>6 DEF AddedScheduled
  <2> QED
    BY <1>4, <2>7, <2>8, <2>9, <2>10, <2>11, <2>12 DEF NotificationInv
<1>6. CASE \/ save' = [save EXCEPT !.index = @ + 1] /\ UNCHANGED row
           \/ save' = [save EXCEPT !.step = "remove"] /\ UNCHANGED row
  <2>1. /\ save' \in Saves /\ save'.step \in {"edit", "remove"} /\ save'.index >= 1
        /\ save'.before = save.before /\ save'.after = save.after
        /\ save'.waiting = save.waiting /\ UNCHANGED row
    BY <1>1, <1>6 DEF Saves
  <2>2. NotificationTypes' /\ OneInFlight'
    BY <1>2, <1>4, <2>1 DEF NotificationInv, NotificationTypes, OneInFlight, Busy
  <2>3. SaveGood'
    <3>1. EditLike'
      BY <1>3, <2>1 DEF EditLike
    <3>2. panel = save.after /\ \A e \in Events : save.waiting[e] # None =>
             row[save.waiting[e]].event = e /\ Pending(save.waiting[e])
      BY <1>1 DEF NotificationInv, SaveGood
    <3> QED
      BY <1>4, <2>1, <3>1, <3>2 DEF SaveGood, Pending
  <2>4. PanelListed' /\ AddedScheduled'
    BY <1>1, <2>1 DEF NotificationInv, PanelListed, Pending, AddedScheduled
  <2> QED
    BY <1>4, <2>1, <2>2, <2>3, <2>4, RowsUntouched DEF NotificationInv
<1> QED
  BY <1>1, <1>5, <1>6 DEF SaveEdit

LEMMA SaveRemoveDrops ==
    ASSUME NotificationIdentities, NotificationInv, SaveRemove
    PROVE  NotificationInv'
<1>1. /\ NotificationTypes /\ save \in Saves /\ row \in [Rows -> Entries] /\ save.step = "remove"
      /\ save.waiting \in [Events -> Rows \cup {None}]
  <2>1. NotificationTypes /\ save \in Saves /\ row \in [Rows -> Entries] /\ save.step = "remove"
    BY DEF NotificationInv, NotificationTypes, SaveRemove
  <2> QED
    BY <2>1 DEF Saves
<1>2. \A s \in Senders : ~Busy(s)
  BY <1>1 DEF NotificationInv, OneInFlight
<1>3. UNCHANGED <<now, panel, followers, sender, asked, pushed, added, crashes>>
  BY DEF SaveRemove
<1> DEFINE D == {r \in Rows : \E e \in Events \ save.after : save.waiting[e] = r}
<1>4. row' = [r \in Rows |-> IF r \in D THEN [row[r] EXCEPT !.skipped = "removed"] ELSE row[r]]
  BY DEF SaveRemove
<1>5. \A e \in Events : save.waiting[e] # None =>
         /\ save.waiting[e] \in Rows /\ row[save.waiting[e]].event = e /\ Pending(save.waiting[e])
  BY <1>1 DEF NotificationInv, SaveGood
<1>6. \A r \in Rows :
         /\ row'[r] \in Entries /\ row'[r].event = row[r].event /\ row'[r].sent = row[r].sent
         /\ r \in D => row'[r].skipped = "removed"
         /\ r \notin D => row'[r].skipped = row[r].skipped
  BY <1>1, <1>4 DEF Entries, Reasons
<1>7. row' \in [Rows -> Entries]
  <2>1. row' = [r \in Rows |-> row'[r]]
    BY <1>4
  <2> QED
    BY <1>6, <2>1
<1>8. /\ save' \in Saves /\ save'.step = "add" /\ save'.index = 1 /\ save'.moved = save.moved
      /\ save'.before = save.before /\ save'.after = save.after /\ save'.waiting = save.waiting
  BY <1>1 DEF SaveRemove, Saves
<1>9. NotificationTypes'
  BY <1>1, <1>3, <1>6, <1>7, <1>8 DEF NotificationTypes
<1>10. OneInFlight' /\ \A s \in Senders : SenderGood(s)'
  BY <1>2, <1>3 DEF OneInFlight, Busy, SenderGood
<1>11. PushesCounted'
  BY <1>3, <1>6 DEF NotificationInv, PushesCounted, RowOf, Told
<1>12. SaveGood'
  <2>1. EditLike' <=> EditLike
    BY <1>8 DEF EditLike
  <2>2. ASSUME NEW e \in save.after, save.waiting[e] # None PROVE Kept(e)'
    <3>1. PICK r \in Rows : r = save.waiting[e]
      BY <1>1, <1>5, <2>2 DEF Saves
    <3>2. e \in Events /\ row[r].event = e /\ Pending(r)
      BY <1>1, <1>5, <2>2, <3>1 DEF Saves
    <3>3. r # None
      BY DEF NotificationIdentities
    <3>4. r \notin D
      BY <1>5, <2>2, <3>2, <3>3
    <3>5. row'[r].event = e /\ row'[r].skipped # "removed"
      BY <1>6, <3>2, <3>4 DEF Pending
    <3> QED
      BY <3>5 DEF Kept, RowOf
  <2>3. panel = save.after /\ (save.moved # {} => EditLike)
    BY <1>1 DEF NotificationInv, SaveGood
  <2> QED
    BY <1>3, <1>8, <2>1, <2>2, <2>3 DEF SaveGood
<1>13. PanelListed'
  <2> SUFFICES ASSUME NEW r \in Rows, Pending(r)' PROVE row[r].event \in save.after
    BY <1>6, <1>8 DEF PanelListed
  <2>1. Pending(r) /\ r \notin D /\ row[r].event \in Events
    BY <1>1, <1>6 DEF Pending, NotificationTypes, Entries
  <2>2. save.waiting[row[r].event] = r
    BY <1>1, <2>1 DEF NotificationInv, PanelListed
  <2> QED
    BY <2>1, <2>2
<1>14. AddedScheduled'
  BY <1>8 DEF AddedScheduled
<1>15. pushed' \in [Users -> [Events -> Nat]] /\ crashes' \in Nat
  BY <1>3 DEF NotificationInv
<1> QED
  BY <1>9, <1>10, <1>11, <1>12, <1>13, <1>14, <1>15 DEF NotificationInv

\* A step that frees no row keeps an event that has one.
LEMMA RowsKept ==
    ASSUME NEW e \in Events, Kept(e),
           \A r \in RowOf(e) : /\ row'[r].event = e
                               /\ row[r].sent => row'[r].sent
                               /\ row[r].skipped # "removed" => row'[r].skipped # "removed"
    PROVE  Kept(e)'
BY DEF Kept, RowOf

LEMMA SaveAddKeeps ==
    ASSUME NotificationBounds, NotificationIdentities, NotificationInv, SaveAdd
    PROVE  NotificationInv'
<1>1. /\ NotificationTypes /\ save \in Saves /\ row \in [Rows -> Entries] /\ save.step = "add"
      /\ save.before \in SUBSET Events /\ save.after \in SUBSET Events
      /\ save.index \in Nat /\ save.index >= 1
  <2>1. NotificationTypes /\ save \in Saves /\ row \in [Rows -> Entries] /\ save.step = "add"
    BY DEF NotificationInv, NotificationTypes, SaveAdd
  <2> QED
    BY <2>1 DEF Saves, NotificationInv, SaveGood
<1>2. \A s \in Senders : ~Busy(s)
  BY <1>1 DEF NotificationInv, OneInFlight
<1>3. UNCHANGED <<now, panel, followers, sender, pushed, crashes>>
  BY DEF SaveAdd
<1>4. /\ panel = save.after /\ (save.moved # {} => EditLike)
      /\ \A e \in save.after : save.waiting[e] # None => Kept(e)
      /\ \A i \in 1..Cardinality(save.after) : i < save.index =>
            EditLike \/ Listed(save.after)[i] \in save.before \/ Kept(Listed(save.after)[i])
  BY <1>1 DEF NotificationInv, SaveGood
<1>5. /\ Cardinality(save.after) \in Nat
      /\ Listed(save.after) \in [1..Cardinality(save.after) -> save.after]
      /\ \A e \in save.after : \E i \in 1..Cardinality(save.after) : Listed(save.after)[i] = e
  BY <1>1, PanelListOrdered
<1>6. OneInFlight' /\ \A s \in Senders : SenderGood(s)'
  BY <1>2, <1>3 DEF OneInFlight, Busy, SenderGood
<1>7. CASE save.index <= Cardinality(save.after) /\ save' = [save EXCEPT !.index = @ + 1]
  <2>1. PICK e : e = Listed(save.after)[save.index]
    OBVIOUS
  <2>2. e \in save.after /\ e \in Events
    BY <1>1, <1>5, <1>7, <2>1
  <2>3. /\ save' \in Saves /\ save'.step = "add" /\ save'.index = save.index + 1
        /\ save'.moved = save.moved /\ save'.before = save.before /\ save'.after = save.after
        /\ save'.waiting = save.waiting
    BY <1>1, <1>7 DEF Saves
  \* It is enough that rows stay where they are, and that the event at hand is kept.
  <2>4. SUFFICES ASSUME row' \in [Rows -> Entries],
                        \A r, q \in Rows :
                            row'[r].event = row'[q].event /\ row'[r].event # None => r = q,
                        \A d \in Events : \A r \in RowOf(d) :
                            /\ row'[r].event = d /\ row'[r].sent = row[r].sent
                            /\ row[r].skipped # "removed" => row'[r].skipped # "removed",
                        \A r \in Rows : Pending(r)' =>
                            \/ Pending(r) /\ row'[r] = row[r]
                            \/ row'[r].event \in save.after,
                        EditLike \/ e \in save.before \/ Kept(e)'
                 PROVE  NotificationInv'
    <3>1. CASE (Settled(e) \/ \E r \in RowOf(e) : row[r].sent) /\ UNCHANGED row
      <4>1. ASSUME NEW d \in Events, NEW r \in RowOf(d)
            PROVE  /\ row'[r].event = d /\ row'[r].sent = row[r].sent
                   /\ row[r].skipped # "removed" => row'[r].skipped # "removed"
        BY <3>1 DEF RowOf
      <4>2. \A r \in Rows : Pending(r)' => Pending(r) /\ row'[r] = row[r]
        BY <3>1 DEF Pending
      <4>3. EditLike \/ e \in save.before \/ Kept(e)
        BY <1>4, <2>2, <3>1 DEF Settled, Kept
      <4>4. EditLike \/ e \in save.before \/ Kept(e)'
        BY <3>1, <4>3 DEF Kept, RowOf
      <4> QED
        BY <1>1, <2>4, <3>1, <4>1, <4>2, <4>4 DEF NotificationTypes
    <3>2. CASE /\ ~\E r \in RowOf(e) : row[r].sent
               /\ LET r == CHOOSE r \in Rows : row[r].event = (IF RowOf(e) # {} THEN e ELSE None)
                  IN  row' = [row EXCEPT ![r] = Scheduled(e, r)]
      <4>1. PICK q : q = CHOOSE r \in Rows : row[r].event = (IF RowOf(e) # {} THEN e ELSE None)
        OBVIOUS
      <4>2. \E r \in Rows : row[r].event = (IF RowOf(e) # {} THEN e ELSE None)
        BY <1>1, <2>2, RowIsFree DEF RowOf
      <4>3. q \in Rows /\ row[q].event = (IF RowOf(e) # {} THEN e ELSE None)
        BY <4>1, <4>2
      <4>4. row' = [row EXCEPT ![q] = [row[q] EXCEPT !.event = e, !.due = save.due, !.skipped = "no"]]
        BY <3>2, <4>1 DEF Scheduled
      <4>5. /\ row' \in [Rows -> Entries] /\ \A r \in Rows \ {q} : row'[r] = row[r]
            /\ row'[q].event = e /\ row'[q].skipped = "no" /\ row'[q].sent = row[q].sent
        <5>1. save.due \in Ticks
          BY <1>1 DEF Saves
        <5>2. [row[q] EXCEPT !.event = e, !.due = save.due, !.skipped = "no"] \in Entries
          BY <1>1, <2>2, <4>3, <5>1 DEF Entries, Reasons
        <5> QED
          BY <1>1, <4>3, <4>4, <5>2 DEF Entries
      <4>6. \A r \in Rows \ {q} : row[r].event # e
        BY <1>1, <2>2, <4>3 DEF NotificationTypes, RowOf, NotificationIdentities
      <4>7. \A r, s \in Rows : row'[r].event = row'[s].event /\ row'[r].event # None => r = s
        BY <1>1, <4>5, <4>6 DEF NotificationTypes
      <4>8. ASSUME NEW d \in Events, NEW r \in RowOf(d)
            PROVE  /\ row'[r].event = d /\ row'[r].sent = row[r].sent
                   /\ row[r].skipped # "removed" => row'[r].skipped # "removed"
        <5>1. r \in Rows /\ row[r].event = d /\ d # None
          BY DEF RowOf, NotificationIdentities
        <5>2. CASE r = q
          BY <4>3, <4>5, <5>1, <5>2
        <5>3. CASE r # q
          BY <4>5, <5>1, <5>3
        <5> QED
          BY <5>2, <5>3
      <4>9. \A r \in Rows : Pending(r)' =>
                 \/ Pending(r) /\ row'[r] = row[r]
                 \/ row'[r].event \in save.after
        BY <2>2, <4>5 DEF Pending
      <4>10. Kept(e)'
        BY <4>3, <4>5 DEF Kept, RowOf
      <4> QED
        BY <2>4, <4>5, <4>7, <4>8, <4>9, <4>10
    <3>3. ~(save.index > Cardinality(save.after))
      BY <1>1, <1>5, <1>7
    <3> QED
      BY <2>1, <3>1, <3>2, <3>3 DEF SaveAdd
  <2>5. NotificationTypes'
    BY <1>1, <1>3, <2>3, <2>4 DEF NotificationTypes
  <2>6. PushesCounted'
    <3> SUFFICES ASSUME NEW u \in Users, NEW d \in Events
                 PROVE  /\ pushed[u][d] <= 1 + crashes
                        /\ pushed[u][d] > crashes => \E r \in Rows : row'[r].event = d /\ row'[r].sent
      BY <1>3 DEF PushesCounted, RowOf, Told
    <3>1. /\ pushed[u][d] <= 1 + crashes
          /\ pushed[u][d] > crashes => \E r \in RowOf(d) : Told(r)
      BY DEF NotificationInv, PushesCounted
    <3>2. ASSUME NEW r \in RowOf(d), Told(r) PROVE r \in Rows /\ row'[r].event = d /\ row'[r].sent
      BY <1>2, <2>4, <3>2 DEF Told, RowOf, Busy
    <3> QED
      BY <3>1, <3>2
  <2>7. SaveGood'
    <3>1. EditLike' <=> EditLike
      BY <2>3 DEF EditLike
    <3>2. ASSUME NEW d \in Events, Kept(d) PROVE Kept(d)'
      BY <2>4, <3>2, RowsKept
    <3>3. \A d \in save'.after : save'.waiting[d] # None => Kept(d)'
      BY <1>1, <1>4, <2>3, <3>2
    <3>4. ASSUME NEW i \in 1..Cardinality(save.after), i < save.index + 1
          PROVE  EditLike' \/ Listed(save.after)[i] \in save.before \cup {d \in Events : Kept(d)'}
      <4>1. Listed(save.after)[i] \in Events
        BY <1>1, <1>5
      <4>2. CASE i = save.index
        BY <2>1, <2>4, <3>1, <4>1, <4>2
      <4>3. CASE i # save.index
        <5>1. EditLike \/ Listed(save.after)[i] \in save.before \/ Kept(Listed(save.after)[i])
          BY <1>1, <1>4, <1>5, <3>4, <4>3
        <5> QED
          BY <3>1, <3>2, <4>1, <5>1
      <4> QED
        BY <4>2, <4>3
    <3>5. \A i \in 1..Cardinality(save'.after) : i < save'.index =>
             EditLike' \/ Listed(save'.after)[i] \in save'.before \cup {d \in Events : Kept(d)'}
      BY <2>3, <3>4
    <3> QED
      BY <1>1, <1>3, <1>4, <2>3, <3>1, <3>3, <3>5 DEF SaveGood
  <2>8. PanelListed'
    <3> SUFFICES ASSUME NEW r \in Rows, Pending(r)' PROVE row'[r].event \in save.after
      BY <2>3 DEF PanelListed
    <3> QED
      BY <1>1, <2>4 DEF NotificationInv, PanelListed
  <2>9. AddedScheduled'
    BY <2>3 DEF AddedScheduled
  <2> QED
    BY <1>3, <1>6, <2>5, <2>6, <2>7, <2>8, <2>9 DEF NotificationInv
<1>8. CASE /\ save.index > Cardinality(save.after) /\ UNCHANGED row /\ save' = NoSave
           /\ added' = IF EditLike THEN {} ELSE save.after \ save.before
  <2>1. save' \in Saves /\ save'.step = "idle" /\ save'.index = 1 /\ save'.moved = {}
    BY <1>8, NothingTyped DEF NoSave
  <2>2. NotificationTypes'
    BY <1>1, <1>3, <1>8, <2>1 DEF NotificationTypes
  <2>3. SaveGood'
    BY <2>1 DEF SaveGood
  <2>4. PanelListed'
    BY <1>1, <1>3, <1>4, <1>8, <2>1 DEF NotificationInv, PanelListed, Pending
  <2>5. AddedScheduled'
    <3> SUFFICES ASSUME NEW e \in save.after, e \notin save.before, ~EditLike
                 PROVE  Kept(e)
      BY <1>8 DEF AddedScheduled, Kept, RowOf
    <3>1. PICK i \in 1..Cardinality(save.after) : Listed(save.after)[i] = e
      BY <1>5
    <3> QED
      BY <1>1, <1>4, <1>5, <1>8, <3>1
  <2> QED
    BY <1>3, <1>6, <1>8, <2>2, <2>3, <2>4, <2>5, RowsUntouched DEF NotificationInv
<1> QED
  BY <1>1, <1>7, <1>8 DEF SaveAdd

-----------------------------------------------------------------------------
(* Runs of the sender.                                                     *)

\* What a run of the sender leaves alone stays good when rows keep their events.
LEMMA SaveAway ==
    ASSUME NotificationInv, save.step = "idle", UNCHANGED <<save, panel>>, crashes' = crashes,
           \A r \in Rows : Pending(r)' => Pending(r) /\ row'[r].event = row[r].event
    PROVE  SaveGood' /\ PanelListed'
<1>1. SaveGood'
  <2>1. EditLike' <=> EditLike
    BY DEF EditLike
  <2>2. save.index >= 1 /\ (save.moved # {} => EditLike)
    BY DEF NotificationInv, SaveGood
  <2> QED
    BY <2>1, <2>2 DEF SaveGood
<1>2. PanelListed'
  BY DEF NotificationInv, PanelListed
<1> QED
  BY <1>1, <1>2

LEMMA SendFindKeeps ==
    ASSUME Serial, NotificationInv, NEW s \in Senders, SendFind(s)
    PROVE  NotificationInv'
<1>1. NotificationTypes /\ sender \in [Senders -> Sends] /\ row \in [Rows -> Entries]
  BY DEF NotificationInv, NotificationTypes
<1>2. save.step = "idle" /\ \A t \in Senders : ~Busy(t)
  BY NobodyBusy DEF SendFind
<1>3. /\ UNCHANGED <<now, panel, followers, row, save, pushed, added, crashes>>
      /\ sender' = [sender EXCEPT ![s] = [NoSend EXCEPT !.step = "send",
                       !.todo = {r \in Rows : Due(r)},
                       !.about = [r \in Rows |-> row[r].event], !.audience = followers]]
  BY DEF SendFind
<1>4. PICK run : run = [NoSend EXCEPT !.step = "send", !.todo = {r \in Rows : Due(r)},
                           !.about = [r \in Rows |-> row[r].event], !.audience = followers]
  OBVIOUS
<1>5. /\ run \in Sends /\ run.step = "send" /\ run.todo = {r \in Rows : Due(r)}
      /\ \A r \in Rows : run.about[r] = row[r].event
  <2>1. [r \in Rows |-> row[r].event] \in [Rows -> Events \cup {None}]
    BY <1>1 DEF Entries
  <2>2. followers \in SUBSET Users
    BY <1>1 DEF NotificationTypes
  <2> QED
    BY <1>4, <2>1, <2>2 DEF NoSend, Sends
<1>6. /\ sender' \in [Senders -> Sends] /\ sender'[s] = run
      /\ \A t \in Senders \ {s} : sender'[t] = sender[t]
  BY <1>1, <1>3, <1>4, <1>5
<1>7. NotificationTypes'
  BY <1>1, <1>3, <1>6 DEF NotificationTypes
<1>8. OneInFlight'
  BY <1>2, <1>3, <1>6 DEF OneInFlight, Busy
<1>9. ASSUME NEW t \in Senders PROVE SenderGood(t)'
  <2>1. CASE t = s
    BY <1>3, <1>5, <1>6, <2>1 DEF SenderGood, Due, Pending
  <2>2. CASE t # s
    BY <1>2, <1>6, <2>2 DEF SenderGood, Busy
  <2> QED
    BY <2>1, <2>2
<1>10. PushesCounted'
  BY <1>2, <1>3 DEF NotificationInv, PushesCounted, RowOf, Told, Busy
<1>11. SaveGood' /\ PanelListed'
  BY <1>2, <1>3, SaveAway DEF Pending
<1>12. AddedScheduled'
  BY <1>3 DEF NotificationInv, AddedScheduled, RowOf
<1>13. pushed' \in [Users -> [Events -> Nat]] /\ crashes' \in Nat
  BY <1>3 DEF NotificationInv
<1> QED
  BY <1>7, <1>8, <1>9, <1>10, <1>11, <1>12, <1>13 DEF NotificationInv

LEMMA SendRowKeeps ==
    ASSUME NotificationIdentities, NotificationInv, NEW s \in Senders, NEW r \in Rows, SendRow(s, r)
    PROVE  NotificationInv' /\ OnlyListedAnnounced
<1>1. /\ NotificationTypes /\ sender \in [Senders -> Sends] /\ row \in [Rows -> Entries]
      /\ pushed \in [Users -> [Events -> Nat]] /\ crashes \in Nat
  BY DEF NotificationInv, NotificationTypes
<1>2. /\ Busy(s) /\ sender[s].step = "send" /\ r \in sender[s].todo
      /\ save.step = "idle" /\ \A t \in Senders \ {s} : ~Busy(t)
  BY DEF NotificationInv, OneInFlight, SendRow, Busy
<1>3. UNCHANGED <<now, panel, followers, save, asked, added, crashes>>
  BY DEF SendRow
<1>4. /\ \A q \in sender[s].todo : Pending(q) /\ sender[s].about[q] = row[q].event
      /\ Pending(r) /\ sender[s].about[r] = row[r].event /\ row[r].event \in Events
  BY <1>1, <1>2 DEF NotificationInv, SenderGood, Pending, Entries
<1>5. CASE /\ row' = [row EXCEPT ![r].skipped = "nobody"]
           /\ sender' = [sender EXCEPT ![s].todo = @ \ {r}]
           /\ UNCHANGED pushed
  <2>1. /\ row' \in [Rows -> Entries] /\ \A q \in Rows \ {r} : row'[q] = row[q]
        /\ row'[r].event = row[r].event /\ row'[r].sent = row[r].sent
        /\ row'[r].skipped = "nobody"
    BY <1>1, <1>5 DEF Entries, Reasons
  <2>2. /\ sender' \in [Senders -> Sends] /\ \A t \in Senders \ {s} : sender'[t] = sender[t]
        /\ sender'[s].step = "send" /\ sender'[s].todo = sender[s].todo \ {r}
        /\ sender'[s].about = sender[s].about
    <3> DEFINE f == [sender[s] EXCEPT !.todo = @ \ {r}]
    <3>1. /\ f \in Sends /\ f.step = sender[s].step /\ f.todo = sender[s].todo \ {r}
          /\ f.about = sender[s].about
      BY <1>1 DEF Sends
    <3>2. sender' = [sender EXCEPT ![s] = f]
      BY <1>5
    <3> HIDE DEF f
    <3> QED
      BY <1>1, <1>2, <3>1, <3>2
  <2>3. NotificationTypes'
    BY <1>1, <1>3, <2>1, <2>2 DEF NotificationTypes
  <2>4. OneInFlight'
    BY <1>2, <1>3, <2>2 DEF OneInFlight, Busy
  <2>5. ASSUME NEW t \in Senders PROVE SenderGood(t)'
    <3>1. CASE t = s
      <4>1. sender[s].todo \subseteq Rows
        BY <1>1 DEF Sends
      <4> QED
        BY <1>4, <2>1, <2>2, <3>1, <4>1 DEF SenderGood, Pending
    <3>2. CASE t # s
      BY <1>2, <2>2, <3>2 DEF SenderGood, Busy
    <3> QED
      BY <3>1, <3>2
  <2>6. PushesCounted'
    <3> SUFFICES ASSUME NEW u \in Users, NEW e \in Events
                 PROVE  /\ pushed[u][e] <= 1 + crashes
                        /\ pushed[u][e] > crashes => \E q \in Rows : row'[q].event = e /\ row'[q].sent
      BY <1>3, <1>5 DEF PushesCounted, RowOf, Told
    <3>1. /\ pushed[u][e] <= 1 + crashes
          /\ pushed[u][e] > crashes => \E q \in RowOf(e) : Told(q)
      BY DEF NotificationInv, PushesCounted
    <3>2. ASSUME NEW q \in RowOf(e), Told(q) PROVE q \in Rows /\ row'[q].event = e /\ row'[q].sent
      BY <1>2, <2>1, <3>2 DEF Told, RowOf, Busy
    <3> QED
      BY <3>1, <3>2
  <2>7. SaveGood' /\ PanelListed'
    BY <1>2, <1>3, <2>1, SaveAway DEF Pending
  <2>8. AddedScheduled'
    <3> SUFFICES ASSUME NEW e \in added
                 PROVE  \E q \in RowOf(e)' : row'[q].sent \/ row'[q].skipped # "removed"
      BY <1>3 DEF AddedScheduled
    <3>1. PICK q \in RowOf(e) : row[q].sent \/ row[q].skipped # "removed"
      BY <1>2 DEF NotificationInv, AddedScheduled
    <3>2. q \in RowOf(e)' /\ (row'[q].sent \/ row'[q].skipped # "removed")
      BY <2>1, <3>1 DEF RowOf
    <3> QED
      BY <3>2
  <2>9. pushed' \in [Users -> [Events -> Nat]] /\ crashes' \in Nat
    BY <1>1, <1>3, <1>5
  <2>10. OnlyListedAnnounced
    BY <1>1, <1>5 DEF OnlyListedAnnounced
  <2> QED
    BY <2>3, <2>4, <2>5, <2>6, <2>7, <2>8, <2>9, <2>10 DEF NotificationInv
<1>6. CASE /\ pushed' = [u \in Users |-> IF u \in sender[s].audience
                                         THEN [pushed[u] EXCEPT ![sender[s].about[r]] = @ + 1]
                                         ELSE pushed[u]]
           /\ sender' = [sender EXCEPT ![s].step = "mark", ![s].row = r]
           /\ UNCHANGED row
  <2>1. PICK d \in Events : d = row[r].event
    BY <1>4
  <2>2. ASSUME NEW u \in Users
        PROVE  /\ pushed'[u] \in [Events -> Nat]
               /\ \A e \in Events \ {d} : pushed'[u][e] = pushed[u][e]
               /\ pushed'[u][d] <= pushed[u][d] + 1
    <3>1. pushed[u] \in [Events -> Nat] /\ sender[s].about[r] = d
      BY <1>1, <1>4, <2>1
    <3>2. pushed'[u] = IF u \in sender[s].audience THEN [pushed[u] EXCEPT ![d] = pushed[u][d] + 1]
                       ELSE pushed[u]
      BY <1>6, <3>1
    <3> QED
      BY <3>1, <3>2
  <2>3. pushed' \in [Users -> [Events -> Nat]]
    <3>1. pushed' = [u \in Users |-> pushed'[u]]
      BY <1>6
    <3> QED
      BY <2>2, <3>1
  <2>4. /\ sender' \in [Senders -> Sends] /\ \A t \in Senders \ {s} : sender'[t] = sender[t]
        /\ sender'[s].step = "mark" /\ sender'[s].todo = sender[s].todo /\ sender'[s].row = r
        /\ sender'[s].about = sender[s].about
    <3> DEFINE f == [sender[s] EXCEPT !.step = "mark", !.row = r]
    <3>1. /\ f \in Sends /\ f.step = "mark" /\ f.todo = sender[s].todo /\ f.row = r
          /\ f.about = sender[s].about
      BY <1>1 DEF Sends
    <3>2. sender' = [sender EXCEPT ![s] = f]
      BY <1>6
    <3> HIDE DEF f
    <3> QED
      BY <1>1, <3>1, <3>2
  <2>5. NotificationTypes'
    BY <1>1, <1>3, <1>6, <2>4 DEF NotificationTypes
  <2>6. OneInFlight'
    BY <1>2, <1>3, <2>4 DEF OneInFlight, Busy
  <2>7. ASSUME NEW t \in Senders PROVE SenderGood(t)'
    <3>1. CASE t = s
      BY <1>2, <1>4, <1>6, <2>4, <3>1 DEF SenderGood, Pending
    <3>2. CASE t # s
      BY <1>2, <2>4, <3>2 DEF SenderGood, Busy
    <3> QED
      BY <3>1, <3>2
  <2>8. PushesCounted'
    <3> SUFFICES ASSUME NEW u \in Users, NEW e \in Events
                 PROVE  /\ pushed'[u][e] <= 1 + crashes
                        /\ pushed'[u][e] > crashes => \E q \in RowOf(e) : Told(q)'
      BY <1>3, <1>6 DEF PushesCounted, RowOf
    <3>1. /\ pushed[u][e] <= 1 + crashes
          /\ pushed[u][e] > crashes => \E q \in RowOf(e) : Told(q)
      BY DEF NotificationInv, PushesCounted
    <3>2. CASE e = d
      <4>1. ~Told(r)
        BY <1>2, <1>4 DEF Told, Busy, Pending
      <4>2. r \in RowOf(e)
        BY <2>1, <3>2 DEF RowOf
      <4>3. RowOf(e) = {r}
        BY <1>1, <4>2, OneRowOf
      <4>4. pushed[u][e] <= crashes
        BY <1>1, <3>1, <4>1, <4>3
      <4>5. Told(r)'
        BY <2>4 DEF Told
      <4>6. pushed'[u][e] <= pushed[u][e] + 1 /\ pushed'[u][e] \in Nat /\ pushed[u][e] \in Nat
        BY <1>1, <2>2, <3>2
      <4> QED
        BY <1>1, <4>2, <4>4, <4>5, <4>6
    <3>3. CASE e # d
      <4>1. \A q \in RowOf(e) : Told(q) => Told(q)'
        BY <1>2, <1>6 DEF Told, Busy, RowOf
      <4> QED
        BY <2>2, <3>1, <3>3, <4>1
    <3> QED
      BY <3>2, <3>3
  <2>9. SaveGood' /\ PanelListed'
    BY <1>2, <1>3, <1>6, SaveAway DEF Pending
  <2>10. AddedScheduled'
    BY <1>3, <1>6 DEF NotificationInv, AddedScheduled, RowOf
  <2>11. OnlyListedAnnounced
    <3> SUFFICES ASSUME crashes = 0, NEW u \in Users, NEW e \in Events, pushed'[u][e] > pushed[u][e]
                 PROVE  e \in panel
      BY DEF OnlyListedAnnounced
    <3>1. e = d
      <4>1. pushed[u][e] \in Nat
        BY <1>1
      <4> QED
        BY <2>2, <4>1
    <3>2. row[r].event \in panel
      BY <1>2, <1>4 DEF NotificationInv, PanelListed
    <3> QED
      BY <2>1, <3>1, <3>2
  <2>12. crashes' \in Nat
    BY <1>1, <1>3
  <2> QED
    BY <2>3, <2>5, <2>6, <2>7, <2>8, <2>9, <2>10, <2>11, <2>12 DEF NotificationInv
<1> QED
  BY <1>5, <1>6 DEF SendRow

\* A step that pushes nothing announces nothing.
LEMMA NothingPushed ==
    ASSUME NotificationInv, UNCHANGED pushed
    PROVE  OnlyListedAnnounced
<1> SUFFICES ASSUME NEW u \in Users, NEW e \in Events, pushed[u][e] > pushed[u][e] PROVE FALSE
  BY DEF OnlyListedAnnounced
<1>1. pushed[u][e] \in Nat
  BY DEF NotificationInv
<1> QED
  BY <1>1

LEMMA SendMarkKeeps ==
    ASSUME NotificationIdentities, NotificationInv, NEW s \in Senders, SendMark(s)
    PROVE  NotificationInv'
<1>1. /\ NotificationTypes /\ sender \in [Senders -> Sends] /\ row \in [Rows -> Entries]
  BY DEF NotificationInv, NotificationTypes
<1>2. /\ Busy(s) /\ sender[s].step = "mark" /\ save.step = "idle"
      /\ \A t \in Senders \ {s} : ~Busy(t)
  BY DEF NotificationInv, OneInFlight, SendMark, Busy
<1>3. UNCHANGED <<now, panel, followers, save, asked, pushed, added, crashes>>
  BY DEF SendMark
<1>4. PICK r : r = sender[s].row
  OBVIOUS
<1>5. /\ r \in Rows /\ r \in sender[s].todo /\ sender[s].todo \subseteq Rows
      /\ \A q \in sender[s].todo : Pending(q) /\ sender[s].about[q] = row[q].event
  <2>1. sender[s].todo \subseteq Rows
    BY <1>1 DEF Sends
  <2> QED
    BY <1>2, <1>4, <2>1 DEF NotificationInv, SenderGood
<1>6. /\ row' = [row EXCEPT ![r].sent = TRUE]
      /\ sender' = [sender EXCEPT ![s].step = "send", ![s].todo = @ \ {r}, ![s].row = None]
  BY <1>4 DEF SendMark
<1>7. /\ row' \in [Rows -> Entries] /\ \A q \in Rows \ {r} : row'[q] = row[q]
      /\ row'[r].event = row[r].event /\ row'[r].sent = TRUE /\ row'[r].skipped = row[r].skipped
  BY <1>1, <1>5, <1>6 DEF Entries
<1>8. /\ sender' \in [Senders -> Sends] /\ \A t \in Senders \ {s} : sender'[t] = sender[t]
      /\ sender'[s].step = "send" /\ sender'[s].todo = sender[s].todo \ {r}
      /\ sender'[s].about = sender[s].about
  <2> DEFINE next == [sender[s] EXCEPT !.step = "send", !.todo = @ \ {r}, !.row = None]
  <2>1. sender[s] \in Sends
    BY <1>1
  <2>2. next \in Sends
    BY <2>1 DEF Sends
  <2>3. next.step = "send" /\ next.todo = sender[s].todo \ {r} /\ next.about = sender[s].about
    BY <2>1 DEF Sends
  <2>4. sender' = [sender EXCEPT ![s] = next]
    BY <1>1, <1>6, <2>1 DEF Sends
  <2> HIDE DEF next
  <2> QED
    BY <1>1, <2>2, <2>3, <2>4
<1>9. NotificationTypes'
  BY <1>1, <1>3, <1>7, <1>8 DEF NotificationTypes
<1>10. OneInFlight'
  BY <1>2, <1>3, <1>8 DEF OneInFlight, Busy
<1>11. ASSUME NEW t \in Senders PROVE SenderGood(t)'
  <2>1. CASE t = s
    BY <1>5, <1>7, <1>8, <2>1 DEF SenderGood, Pending
  <2>2. CASE t # s
    BY <1>2, <1>8, <2>2 DEF SenderGood, Busy
  <2> QED
    BY <2>1, <2>2
<1>12. PushesCounted'
  <2> SUFFICES ASSUME NEW u \in Users, NEW e \in Events
               PROVE  /\ pushed[u][e] <= 1 + crashes
                      /\ pushed[u][e] > crashes => \E q \in Rows : row'[q].event = e /\ row'[q].sent
    BY <1>3 DEF PushesCounted, RowOf, Told
  <2>1. /\ pushed[u][e] <= 1 + crashes
        /\ pushed[u][e] > crashes => \E q \in RowOf(e) : Told(q)
    BY DEF NotificationInv, PushesCounted
  <2>2. ASSUME NEW q \in RowOf(e), Told(q) PROVE q \in Rows /\ row'[q].event = e /\ row'[q].sent
    BY <1>2, <1>4, <1>7, <2>2 DEF Told, RowOf, Busy
  <2> QED
    BY <2>1, <2>2
<1>13. SaveGood' /\ PanelListed'
  BY <1>2, <1>3, <1>7, SaveAway DEF Pending
<1>14. AddedScheduled'
  <2> SUFFICES ASSUME NEW e \in added
               PROVE  \E q \in RowOf(e)' : row'[q].sent \/ row'[q].skipped # "removed"
    BY <1>3 DEF AddedScheduled
  <2>1. PICK q \in RowOf(e) : row[q].sent \/ row[q].skipped # "removed"
    BY <1>2 DEF NotificationInv, AddedScheduled
  <2>2. q \in RowOf(e)' /\ (row'[q].sent \/ row'[q].skipped # "removed")
    BY <1>7, <2>1 DEF RowOf
  <2> QED
    BY <2>2
<1>15. pushed' \in [Users -> [Events -> Nat]] /\ crashes' \in Nat
  BY <1>3 DEF NotificationInv
<1> QED
  BY <1>9, <1>10, <1>11, <1>12, <1>13, <1>14, <1>15 DEF NotificationInv

LEMMA SendDoneKeeps ==
    ASSUME NotificationBounds, NotificationInv, NEW s \in Senders, SendDone(s)
    PROVE  NotificationInv'
<1>1. NotificationTypes /\ sender \in [Senders -> Sends]
  BY DEF NotificationInv, NotificationTypes
<1>2. /\ sender[s].step = "send" /\ save.step = "idle" /\ \A t \in Senders \ {s} : ~Busy(t)
  BY DEF NotificationInv, OneInFlight, SendDone, Busy
<1>3. /\ UNCHANGED <<now, panel, followers, row, save, asked, pushed, added, crashes>>
      /\ sender' = [sender EXCEPT ![s] = NoSend]
  BY DEF SendDone
<1>4. /\ sender' \in [Senders -> Sends] /\ \A t \in Senders : sender'[t].step = "idle"
  BY <1>1, <1>2, <1>3, NothingTyped DEF NoSend, Busy
<1>5. NotificationTypes'
  BY <1>1, <1>3, <1>4 DEF NotificationTypes
<1>6. OneInFlight' /\ \A t \in Senders : SenderGood(t)'
  BY <1>4 DEF OneInFlight, SenderGood, Busy
<1>7. PushesCounted'
  <2>1. \A r \in Rows : Told(r) => row[r].sent
    BY <1>2 DEF Told, Busy
  <2> QED
    BY <1>3, <2>1 DEF NotificationInv, PushesCounted, RowOf, Told
<1>8. SaveGood' /\ PanelListed'
  BY <1>2, <1>3, SaveAway DEF Pending
<1>9. AddedScheduled'
  BY <1>3 DEF NotificationInv, AddedScheduled, RowOf
<1>10. pushed' \in [Users -> [Events -> Nat]] /\ crashes' \in Nat
  BY <1>3 DEF NotificationInv
<1> QED
  BY <1>5, <1>6, <1>7, <1>8, <1>9, <1>10 DEF NotificationInv

-----------------------------------------------------------------------------
(* Crashes, and what concerns neither saves nor senders.                   *)

LEMMA CrashKeeps ==
    ASSUME NotificationBounds, NotificationInv, Crash
    PROVE  NotificationInv'
<1>1. NotificationTypes
  BY DEF NotificationInv
<1>2. /\ crashes' = crashes + 1 /\ crashes \in Nat /\ pushed \in [Users -> [Events -> Nat]]
      /\ save' = NoSave /\ sender' = [s \in Senders |-> NoSend] /\ added' = {}
      /\ UNCHANGED <<now, panel, followers, row, pushed>>
  BY DEF Crash, NotificationInv
<1>3. NotificationTypes'
  BY <1>1, <1>2, NothingTyped DEF NotificationTypes
<1>4. OneInFlight' /\ \A s \in Senders : SenderGood(s)'
  BY <1>2 DEF OneInFlight, Busy, SenderGood, NoSend
<1>5. PushesCounted'
  <2> SUFFICES ASSUME NEW u \in Users, NEW e \in Events PROVE pushed[u][e] <= crashes + 1
    BY <1>2 DEF PushesCounted
  <2>1. pushed[u][e] <= 1 + crashes /\ pushed[u][e] \in Nat
    BY <1>2 DEF NotificationInv, PushesCounted
  <2> QED
    BY <1>2, <2>1
<1>6. SaveGood' /\ PanelListed'
  BY <1>2 DEF SaveGood, PanelListed, NoSave
<1>7. AddedScheduled'
  BY <1>2 DEF AddedScheduled
<1>8. pushed' \in [Users -> [Events -> Nat]] /\ crashes' \in Nat
  BY <1>2
<1> QED
  BY <1>3, <1>4, <1>5, <1>6, <1>7, <1>8 DEF NotificationInv

LEMMA OthersKeep ==
    ASSUME NotificationInv,
           followers' \subseteq Users, now' \in 0..MaxTime,
           UNCHANGED <<panel, row, save, sender, pushed, added, crashes>>
    PROVE  NotificationInv'
<1>1. NotificationTypes'
  BY DEF NotificationInv, NotificationTypes
<1>2. OneInFlight' /\ SaveGood' /\ PanelListed' /\ AddedScheduled'
  <2>1. OneInFlight' /\ PanelListed' /\ AddedScheduled'
    BY DEF NotificationInv, OneInFlight, Busy, PanelListed, Pending, AddedScheduled, RowOf
  <2>2. SaveGood'
    BY DEF NotificationInv, SaveGood, EditLike, Kept, RowOf, Pending
  <2> QED
    BY <2>1, <2>2
<1> QED
  BY <1>1, <1>2, RowsUntouched DEF NotificationInv

\* A step of the module keeps the invariant, and pushes events of the panel only.
LEMMA NotificationInvNext ==
    ASSUME Serial, NotificationIdentities, NotificationBounds, NotificationInv, [Next]_vars
    PROVE  NotificationInv' /\ OnlyListedAnnounced
<1>1. CASE UNCHANGED vars
  <2>1. followers' \subseteq Users /\ now' \in 0..MaxTime
    BY <1>1 DEF vars, NotificationInv, NotificationTypes
  <2> QED
    BY <1>1, <2>1, OthersKeep, NothingPushed DEF vars
<1>2. CASE \/ \E events \in SUBSET Events : SaveBegin(events)
           \/ SaveWrite \/ SavePending \/ SaveEdit \/ SaveRemove \/ SaveAdd
  <2>1. NotificationInv'
    BY <1>2, SaveBeginKeeps, SaveWriteKeeps, SavePendingKeeps, SaveEditKeeps, SaveRemoveDrops,
       SaveAddKeeps
  <2>2. UNCHANGED pushed
    BY <1>2 DEF SaveBegin, SaveWrite, SavePending, SaveEdit, SaveRemove, SaveAdd
  <2> QED
    BY <2>1, <2>2, NothingPushed
<1>3. CASE \E u \in Users : Follow(u) \/ Unfollow(u)
  <2>1. followers' \subseteq Users /\ now' \in 0..MaxTime
    BY <1>3 DEF Follow, Unfollow, NotificationInv, NotificationTypes
  <2>2. UNCHANGED <<panel, row, save, sender, pushed, added, crashes>>
    BY <1>3 DEF Follow, Unfollow
  <2> QED
    BY <2>1, <2>2, OthersKeep, NothingPushed
<1>4. ASSUME NEW s \in Senders, Send(s) PROVE NotificationInv' /\ OnlyListedAnnounced
  <2>1. CASE SendFind(s) \/ SendMark(s) \/ SendDone(s)
    <3>1. NotificationInv'
      BY <2>1, SendFindKeeps, SendMarkKeeps, SendDoneKeeps
    <3>2. UNCHANGED pushed
      BY <2>1 DEF SendFind, SendMark, SendDone
    <3> QED
      BY <3>1, <3>2, NothingPushed
  <2>2. CASE \E r \in Rows : SendRow(s, r)
    BY <2>2, SendRowKeeps
  <2> QED
    BY <1>4, <2>1, <2>2 DEF Send
<1>5. CASE Crash
  <2>1. UNCHANGED pushed
    BY <1>5 DEF Crash
  <2> QED
    BY <1>5, <2>1, CrashKeeps, NothingPushed
<1>6. CASE Tick
  <2>1. followers' \subseteq Users /\ now' \in 0..MaxTime
    BY <1>6 DEF Tick, NotificationInv, NotificationTypes, NotificationBounds
  <2>2. UNCHANGED <<panel, row, save, sender, pushed, added, crashes>>
    BY <1>6 DEF Tick
  <2> QED
    BY <2>1, <2>2, OthersKeep, NothingPushed
<1> QED
  BY <1>1, <1>2, <1>3, <1>4, <1>5, <1>6 DEF Next

LEMMA NotificationInvSays ==
    ASSUME NotificationInv
    PROVE  NotificationTypes /\ AnnouncedOnce /\ AddedScheduled
BY DEF NotificationInv, PushesCounted, AnnouncedOnce

-----------------------------------------------------------------------------
(* Theorems.                                                               *)

\* EventNotifications, one save or run at a time: a follower is told of an event once, and
\* once more at most for every crash, and an event that was added has a row that was sent,
\* waits, or found nobody to tell.
THEOREM EventsAreAnnounced ==
    Serial /\ NotificationIdentities /\ NotificationBounds
        => (Spec => [](AnnouncedOnce /\ AddedScheduled))
<1> SUFFICES ASSUME Serial, NotificationIdentities, NotificationBounds
             PROVE  Spec => [](AnnouncedOnce /\ AddedScheduled)
  OBVIOUS
<1>1. Init => NotificationInv
  BY NotificationInvInit
<1>2. NotificationInv /\ [Next]_vars => NotificationInv'
  BY NotificationInvNext
<1>3. NotificationInv => AnnouncedOnce /\ AddedScheduled
  BY NotificationInvSays
<1> QED
  BY <1>1, <1>2, <1>3, PTL DEF Spec

\* EventNotifications, one save or run at a time: until a crash nobody is told of an event
\* that the panel does not list.
THEOREM OnlyListedAreAnnounced ==
    Serial /\ NotificationIdentities /\ NotificationBounds
        => (Spec => [][OnlyListedAnnounced]_vars)
<1> SUFFICES ASSUME Serial, NotificationIdentities, NotificationBounds
             PROVE  Spec => [][OnlyListedAnnounced]_vars
  OBVIOUS
<1>1. Init => NotificationInv
  BY NotificationInvInit
<1>2. NotificationInv /\ [Next]_vars => NotificationInv' /\ [OnlyListedAnnounced]_vars
  BY NotificationInvNext
<1> QED
  BY <1>1, <1>2, PTL DEF Spec
=============================================================================
