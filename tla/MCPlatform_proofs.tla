--------------------------- MODULE MCPlatform_proofs ---------------------------
(* What MCPlatform checks is proved here for any sets of users, devices,      *)
(* cards, bookings, rooms, tables and requests: of sessions, numbers and      *)
(* announcements from the lemmas of their own modules, which MCPlatform       *)
(* instantiates, and of devices, cards, reminders, logins and layouts from    *)
(* the lemmas that come first.                                                *)
EXTENDS MCPlatform, FiniteSetTheorems, TLAPS

-----------------------------------------------------------------------------
(* DeviceTokens.                                                               *)

\* A token in use belongs to the account that is signed in on its device.
TokensFollow == \A d \in Devices : owner[d].enabled => owner[d].user = holder[d]

Sending == {"send", "sent", "refused", "unregistered", "disable"}

\* What a call of sendToUser still has to send goes to its addressee, unless the device
\* changed hands meanwhile.
CallGood(c) ==
    /\ c.step \in Sending => /\ c.device \in Devices
                             /\ holder[c.device] = c.user \/ c.device \in c.moved
    /\ c.step \in Sending \cup {"log"} => \A d \in c.todo : holder[d] = c.user \/ d \in c.moved

\* What was shown is of a call that began.
ShownGood(s) ==
    /\ push[s.push].step # "new"
    /\ s.user = push[s.push].user \/ s.device \in push[s.push].moved

WasShown(p, d) == \E s \in shown : s.push = p /\ s.device = d

PushInv ==
    /\ Pushed!DeviceTypes
    /\ TokensFollow
    /\ \A p \in Pushes : CallGood(push[p])
    /\ \A s \in shown : ShownGood(s)
    /\ \A p \in Pushes : push[p].step = "sent" => WasShown(p, push[p].device)
    /\ Pushed!SentWasShown

LEMMA PushInvInit ==
    ASSUME Pushed!DeviceIdentities, Pushed!Init
    PROVE  PushInv
BY DEF Pushed!Init, PushInv, Pushed!DeviceTypes, TokensFollow, CallGood, Pushed!SentWasShown,
   Pushed!Rows, Pushed!Calls, Pushed!Steps,
       Pushed!LogState, Sending, Pushed!DeviceIdentities

\* A call goes on with the same addressee, or begins.
LEMMA CallMoves ==
    ASSUME Pushed!DeviceIdentities, PushInv, NEW p \in Pushes, NEW c \in Pushed!Calls,
           CallGood(c),
           push' = [push EXCEPT ![p] = c],
           c.moved = push[p].moved, c.step # "new",
           push[p].step = "new" \/ c.user = push[p].user,
           c.step = "sent" => \E s \in shown' : s.push = p /\ s.device = c.device,
           shown \subseteq shown',
           shown' \subseteq [push: Pushes, device: Devices, user: Users \cup {None}],
           \A s \in shown' \ shown : s.push = p /\ (s.user = c.user \/ s.device \in c.moved),
           UNCHANGED <<installed, holder>>, owner' \in [Devices -> Pushed!Rows], TokensFollow',
           log' \in [Pushes -> [Devices \cup {None} -> Pushed!LogState]], Pushed!SentWasShown'
    PROVE  PushInv'
<1>1. /\ push \in [Pushes -> Pushed!Calls] /\ \A q \in Pushes : CallGood(push[q])
      /\ installed \subseteq Devices /\ holder \in [Devices -> Users \cup {None}]
      /\ shown \subseteq [push: Pushes, device: Devices, user: Users \cup {None}]
  BY DEF PushInv, Pushed!DeviceTypes
<1>2. /\ push' \in [Pushes -> Pushed!Calls] /\ push'[p] = c
      /\ \A q \in Pushes \ {p} : push'[q] = push[q]
  BY <1>1
<1>3. Pushed!DeviceTypes'
  BY <1>1, <1>2 DEF Pushed!DeviceTypes
<1>4. ASSUME NEW q \in Pushes PROVE CallGood(push[q])'
  <2>1. CASE q = p
    BY <1>2, <2>1 DEF CallGood
  <2>2. CASE q # p
    BY <1>1, <1>2, <2>2 DEF CallGood
  <2> QED
    BY <2>1, <2>2
<1>5. ASSUME NEW s \in shown' PROVE ShownGood(s)'
  <2>1. CASE s \in shown
    <3>1. ShownGood(s) /\ s.push \in Pushes
      BY <1>1, <2>1 DEF PushInv
    <3> QED
      BY <1>2, <3>1 DEF ShownGood
  <2>2. CASE s \notin shown
    BY <1>2, <2>2 DEF ShownGood
  <2> QED
    BY <2>1, <2>2
<1>6. ASSUME NEW q \in Pushes, push'[q].step = "sent" PROVE WasShown(q, push[q].device)'
  <2>1. CASE q = p
    BY <1>2, <1>6, <2>1 DEF WasShown
  <2>2. CASE q # p
    <3>1. WasShown(q, push[q].device) /\ push'[q] = push[q]
      BY <1>2, <1>6, <2>2 DEF PushInv
    <3>2. PICK s \in shown : s.push = q /\ s.device = push[q].device
      BY <3>1 DEF WasShown
    <3>3. s \in shown'
      OBVIOUS
    <3> QED
      BY <3>1, <3>2, <3>3 DEF WasShown
  <2> QED
    BY <2>1, <2>2
<1> QED
  BY <1>3, <1>4, <1>5, <1>6 DEF PushInv

LEMMA LogStays ==
    ASSUME PushInv, UNCHANGED log, shown \subseteq shown'
    PROVE  log' \in [Pushes -> [Devices \cup {None} -> Pushed!LogState]] /\ Pushed!SentWasShown'
<1>1. log' \in [Pushes -> [Devices \cup {None} -> Pushed!LogState]]
  BY DEF PushInv, Pushed!DeviceTypes
<1>2. ASSUME NEW q \in Pushes, NEW e \in Devices, log'[q][e] = "SENT"
      PROVE  \E s \in shown' : s.push = q /\ s.device = e
  <2>1. PICK s \in shown : s.push = q /\ s.device = e
    BY <1>2 DEF PushInv, Pushed!SentWasShown
  <2>2. s \in shown'
    OBVIOUS
  <2> QED
    BY <2>1, <2>2
<1> QED
  BY <1>1, <1>2 DEF Pushed!SentWasShown

LEMMA LogWritten ==
    ASSUME PushInv, shown \subseteq shown', NEW p \in Pushes, NEW d \in Devices \cup {None},
           NEW l \in Pushed!LogState, log' = [log EXCEPT ![p][d] = l],
           l = "SENT" => WasShown(p, d)
    PROVE  log' \in [Pushes -> [Devices \cup {None} -> Pushed!LogState]] /\ Pushed!SentWasShown'
<1>1. log \in [Pushes -> [Devices \cup {None} -> Pushed!LogState]]
  BY DEF PushInv, Pushed!DeviceTypes
<1>2. log' \in [Pushes -> [Devices \cup {None} -> Pushed!LogState]]
  BY <1>1
<1>3. ASSUME NEW q \in Pushes, NEW e \in Devices, log'[q][e] = "SENT"
      PROVE  \E s \in shown' : s.push = q /\ s.device = e
  <2>1. CASE q = p /\ e = d
    BY <1>1, <1>3, <2>1 DEF WasShown
  <2>2. CASE ~(q = p /\ e = d)
    <3>1. log[q][e] = "SENT"
      BY <1>1, <1>3, <2>2
    <3> QED
      BY <3>1 DEF PushInv, Pushed!SentWasShown
  <2> QED
    BY <2>1, <2>2
<1> QED
  BY <1>2, <1>3 DEF Pushed!SentWasShown

LEMMA OwnersStay ==
    ASSUME PushInv, UNCHANGED <<owner, holder>>
    PROVE  owner' \in [Devices -> Pushed!Rows] /\ TokensFollow'
BY DEF PushInv, Pushed!DeviceTypes, TokensFollow

LEMMA BeginPushes ==
    ASSUME Pushed!DeviceIdentities, PushInv, NEW p \in Pushes, NEW u \in Users,
           Pushed!SendBegin(p, u)
    PROVE  PushInv'
<1>1. /\ push[p] \in Pushed!Calls /\ push \in [Pushes -> Pushed!Calls]
      /\ owner \in [Devices -> Pushed!Rows]
  BY DEF PushInv, Pushed!DeviceTypes
<1>2. push[p].step = "new" /\ UNCHANGED <<owner, installed, holder, shown>>
  BY DEF Pushed!SendBegin
<1>3. CASE Pushed!TokensOf(u) = {}
  <2>1. PICK c : c = [push[p] EXCEPT !.step = "done", !.user = u]
    OBVIOUS
  <2>2. push' = [push EXCEPT ![p] = c] /\ log' = [log EXCEPT ![p][None] = "SKIPPED"]
    BY <1>1, <1>3, <2>1 DEF Pushed!SendBegin
  <2>3. c \in Pushed!Calls /\ c.step = "done" /\ c.moved = push[p].moved
    BY <1>1, <2>1 DEF Pushed!Calls, Pushed!Steps
  <2>4. CallGood(c)
    BY <2>3 DEF CallGood, Sending
  <2>5. log' \in [Pushes -> [Devices \cup {None} -> Pushed!LogState]] /\ Pushed!SentWasShown'
    BY <1>2, <2>2, LogWritten DEF Pushed!LogState
  <2> QED
    BY <1>2, <2>2, <2>3, <2>4, <2>5, OwnersStay, CallMoves DEF PushInv, Pushed!DeviceTypes
<1>4. CASE Pushed!TokensOf(u) # {}
  <2>1. PICK c : c = [push[p] EXCEPT !.step = "log", !.user = u, !.todo = Pushed!TokensOf(u)]
    OBVIOUS
  <2>2. push' = [push EXCEPT ![p] = c] /\ UNCHANGED log
    BY <1>1, <1>4, <2>1 DEF Pushed!SendBegin
  <2>3. /\ c \in Pushed!Calls /\ c.step = "log" /\ c.moved = push[p].moved /\ c.user = u
        /\ c.todo = Pushed!TokensOf(u)
        /\ c.device = push[p].device
    BY <1>1, <2>1 DEF Pushed!Calls, Pushed!Steps, Pushed!TokensOf
  <2>4. CallGood(c)
    BY <2>3 DEF CallGood, Sending, Pushed!TokensOf, PushInv, TokensFollow
  <2>5. log' \in [Pushes -> [Devices \cup {None} -> Pushed!LogState]] /\ Pushed!SentWasShown'
    BY <1>2, <2>2, LogStays
  <2> QED
    BY <1>2, <2>2, <2>3, <2>4, <2>5, OwnersStay, CallMoves DEF PushInv, Pushed!DeviceTypes
<1> QED
  BY <1>3, <1>4

LEMMA LogPushes ==
    ASSUME Pushed!DeviceIdentities, PushInv, NEW p \in Pushes, Pushed!SendLog(p)
    PROVE  PushInv'
<1>1. /\ push[p] \in Pushed!Calls /\ push \in [Pushes -> Pushed!Calls]
      /\ owner \in [Devices -> Pushed!Rows] /\ CallGood(push[p])
  BY DEF PushInv, Pushed!DeviceTypes
<1>2. push[p].step = "log" /\ UNCHANGED <<owner, installed, holder, shown>>
  BY DEF Pushed!SendLog
<1>3. ASSUME NEW d \in push[p].todo, log' = [log EXCEPT ![p][d] = "PENDING"],
             push' = [push EXCEPT ![p].step = "send", ![p].device = d, ![p].todo = @ \ {d}]
      PROVE  PushInv'
  <2>1. PICK c : c = [push[p] EXCEPT !.step = "send", !.device = d, !.todo = push[p].todo \ {d}]
    OBVIOUS
  <2>2. push' = [push EXCEPT ![p] = c] /\ d \in Devices
    BY <1>1, <1>3, <2>1 DEF Pushed!Calls
  <2>3. /\ c \in Pushed!Calls /\ c.step = "send" /\ c.moved = push[p].moved
        /\ c.user = push[p].user
        /\ c.device = d /\ c.todo \subseteq push[p].todo
    BY <1>1, <2>1, <2>2 DEF Pushed!Calls, Pushed!Steps
  <2>4. CallGood(c)
    BY <1>1, <1>2, <2>2, <2>3 DEF CallGood, Sending
  <2>5. log' \in [Pushes -> [Devices \cup {None} -> Pushed!LogState]] /\ Pushed!SentWasShown'
    BY <1>2, <1>3, <2>2, LogWritten DEF Pushed!LogState
  <2> QED
    BY <1>2, <2>2, <2>3, <2>4, <2>5, OwnersStay, CallMoves DEF PushInv, Pushed!DeviceTypes
<1>4. ASSUME UNCHANGED log, push' = [push EXCEPT ![p].step = "done"]
      PROVE  PushInv'
  <2>1. PICK c : c = [push[p] EXCEPT !.step = "done"]
    OBVIOUS
  <2>2. push' = [push EXCEPT ![p] = c]
    BY <1>1, <1>4, <2>1
  <2>3. /\ c \in Pushed!Calls /\ c.step = "done" /\ c.moved = push[p].moved
        /\ c.user = push[p].user
    BY <1>1, <2>1 DEF Pushed!Calls, Pushed!Steps
  <2>4. CallGood(c)
    BY <2>3 DEF CallGood, Sending
  <2>5. log' \in [Pushes -> [Devices \cup {None} -> Pushed!LogState]] /\ Pushed!SentWasShown'
    BY <1>2, <1>4, LogStays
  <2> QED
    BY <1>2, <2>2, <2>3, <2>4, <2>5, OwnersStay, CallMoves DEF PushInv, Pushed!DeviceTypes
<1> QED
  BY <1>3, <1>4 DEF Pushed!SendLog

\* A step of a call that keeps its devices.
LEMMA StepMoves ==
    ASSUME Pushed!DeviceIdentities, PushInv, NEW p \in Pushes, push[p].step \in Sending,
           NEW l \in {"log"} \cup Sending, push' = [push EXCEPT ![p].step = l],
           shown' \in {shown, shown \cup {Pushed!Shown(p)}},
           l = "sent" => Pushed!Shown(p) \in shown',
           UNCHANGED <<installed, holder>>, owner' \in [Devices -> Pushed!Rows], TokensFollow',
           log' \in [Pushes -> [Devices \cup {None} -> Pushed!LogState]], Pushed!SentWasShown'
    PROVE  PushInv'
<1>1. /\ push[p] \in Pushed!Calls /\ push \in [Pushes -> Pushed!Calls]
      /\ owner \in [Devices -> Pushed!Rows]
      /\ CallGood(push[p]) /\ holder \in [Devices -> Users \cup {None}]
      /\ shown \subseteq [push: Pushes, device: Devices, user: Users \cup {None}]
  BY DEF PushInv, Pushed!DeviceTypes
<1>2. PICK c : c = [push[p] EXCEPT !.step = l]
  OBVIOUS
<1>3. push' = [push EXCEPT ![p] = c]
  BY <1>1, <1>2
<1>4. /\ c \in Pushed!Calls /\ c.step = l /\ c.moved = push[p].moved /\ c.user = push[p].user
      /\ c.device = push[p].device /\ c.todo = push[p].todo
  BY <1>1, <1>2 DEF Pushed!Calls, Pushed!Steps, Sending
<1>5. CallGood(c)
  BY <1>1, <1>4 DEF CallGood, Sending
<1>6. /\ push[p].device \in Devices
      /\ holder[push[p].device] = push[p].user \/ push[p].device \in push[p].moved
  BY <1>1 DEF CallGood
<1>7. PICK s : s = Pushed!Shown(p)
  OBVIOUS
<1>8. /\ s \in [push: Pushes, device: Devices, user: Users \cup {None}]
      /\ s.push = p /\ s.device = c.device
      /\ s.user = c.user \/ s.device \in c.moved
  BY <1>1, <1>4, <1>6, <1>7 DEF Pushed!Shown
<1>9. /\ shown \subseteq shown'
      /\ shown' \subseteq [push: Pushes, device: Devices, user: Users \cup {None}]
      /\ \A t \in shown' \ shown : t.push = p /\ (t.user = c.user \/ t.device \in c.moved)
      /\ c.step = "sent" => \E t \in shown' : t.push = p /\ t.device = c.device
  <2>1. shown' \in {shown, shown \cup {s}} /\ (l = "sent" => s \in shown')
    BY <1>7
  <2>2. \A t \in shown' \ shown : t = s
    BY <2>1
  <2>3. c.step = "sent" => \E t \in shown' : t.push = p /\ t.device = c.device
    BY <1>4, <1>8, <2>1
  <2>4. \A t \in shown' \ shown : t.push = p /\ (t.user = c.user \/ t.device \in c.moved)
    BY <1>8, <2>2
  <2>5. /\ shown \subseteq shown'
        /\ shown' \subseteq [push: Pushes, device: Devices, user: Users \cup {None}]
    BY <1>1, <1>8, <2>1
  <2> QED
    BY <2>3, <2>4, <2>5
<1>10. c.step # "new"
  BY <1>4 DEF Sending
<1> QED
  BY <1>3, <1>4, <1>5, <1>9, <1>10, CallMoves

LEMMA ProviderPushes ==
    ASSUME Pushed!DeviceIdentities, PushInv, NEW p \in Pushes, Pushed!SendProvider(p)
    PROVE  PushInv'
<1>1. /\ push[p].step = "send" /\ UNCHANGED <<owner, installed, holder, log>>
      /\ shown' \in {shown, shown \cup {Pushed!Shown(p)}}
  BY DEF Pushed!SendProvider
<1>2. PICK l \in {"sent", "refused", "unregistered", "log"} :
          push' = [push EXCEPT ![p].step = l] /\ (l = "sent" => Pushed!Shown(p) \in shown')
  BY DEF Pushed!SendProvider
<1>3. shown \subseteq shown' /\ push[p].step \in Sending /\ l \in {"log"} \cup Sending
  BY <1>1, <1>2 DEF Sending
<1>4. log' \in [Pushes -> [Devices \cup {None} -> Pushed!LogState]] /\ Pushed!SentWasShown'
  BY <1>1, <1>3, LogStays
<1> QED
  BY <1>1, <1>2, <1>3, <1>4, OwnersStay, StepMoves

LEMMA ResultPushes ==
    ASSUME Pushed!DeviceIdentities, PushInv, NEW p \in Pushes, Pushed!SendResult(p)
    PROVE  PushInv'
<1>1. /\ push[p].step \in {"sent", "refused", "unregistered"}
      /\ UNCHANGED <<owner, installed, holder, shown>>
      /\ push \in [Pushes -> Pushed!Calls] /\ CallGood(push[p])
  BY DEF Pushed!SendResult, PushInv, Pushed!DeviceTypes
<1>2. PICK l \in {"disable", "log"} : push' = [push EXCEPT ![p].step = l]
  <2>1. push' = [push EXCEPT ![p].step = IF push[p].step = "unregistered" THEN "disable" ELSE "log"]
    BY DEF Pushed!SendResult
  <2> QED
    BY <2>1
<1>3. PICK r \in {"SENT", "FAILED"} :
          /\ log' = [log EXCEPT ![p][push[p].device] = r]
          /\ (r = "SENT" => push[p].step = "sent")
  BY DEF Pushed!SendResult
<1>4. push[p].device \in Devices /\ (r = "SENT" => WasShown(p, push[p].device))
  BY <1>1, <1>3 DEF PushInv, CallGood, Sending
<1>5. log' \in [Pushes -> [Devices \cup {None} -> Pushed!LogState]] /\ Pushed!SentWasShown'
  <2>1. /\ r \in Pushed!LogState /\ push[p].device \in Devices \cup {None}
        /\ shown \subseteq shown'
    BY <1>1, <1>4 DEF Pushed!LogState
  <2> QED
    BY <1>3, <1>4, <2>1, LogWritten
<1>6. push[p].step \in Sending /\ l \in {"log"} \cup Sending /\ l # "sent"
  BY <1>1 DEF Sending
<1> QED
  BY <1>1, <1>2, <1>5, <1>6, OwnersStay, StepMoves

LEMMA DisablePushes ==
    ASSUME Pushed!DeviceIdentities, PushInv, NEW p \in Pushes, Pushed!SendDisable(p)
    PROVE  PushInv'
<1>1. /\ push[p].step = "disable" /\ push' = [push EXCEPT ![p].step = "log"]
      /\ owner' = [owner EXCEPT ![push[p].device].enabled = FALSE]
      /\ UNCHANGED <<installed, holder, log, shown>>
  BY DEF Pushed!SendDisable
<1>2. log' \in [Pushes -> [Devices \cup {None} -> Pushed!LogState]] /\ Pushed!SentWasShown'
  BY <1>1, LogStays
<1>3. push[p].step \in Sending /\ CallGood(push[p]) /\ owner \in [Devices -> Pushed!Rows]
  BY <1>1 DEF Sending, PushInv, Pushed!DeviceTypes
<1>4. push[p].device \in Devices
  BY <1>3 DEF CallGood
<1>5. owner' \in [Devices -> Pushed!Rows] /\ TokensFollow'
  BY <1>1, <1>3, <1>4 DEF PushInv, TokensFollow, Pushed!Rows
<1> QED
  BY <1>1, <1>2, <1>3, <1>5, StepMoves

LEMMA CrashPushes ==
    ASSUME Pushed!DeviceIdentities, PushInv, NEW p \in Pushes, Pushed!Crash(p)
    PROVE  PushInv'
<1>1. /\ push[p] \in Pushed!Calls /\ push \in [Pushes -> Pushed!Calls]
      /\ owner \in [Devices -> Pushed!Rows]
  BY DEF PushInv, Pushed!DeviceTypes
<1>2. /\ push' = [push EXCEPT ![p].step = "done"]
      /\ UNCHANGED <<owner, installed, holder, log, shown>>
  BY DEF Pushed!Crash
<1>3. PICK c : c = [push[p] EXCEPT !.step = "done"]
  OBVIOUS
<1>4. push' = [push EXCEPT ![p] = c]
  BY <1>1, <1>2, <1>3
<1>5. c \in Pushed!Calls /\ c.step = "done" /\ c.moved = push[p].moved /\ c.user = push[p].user
  BY <1>1, <1>3 DEF Pushed!Calls, Pushed!Steps
<1>6. CallGood(c)
  BY <1>5 DEF CallGood, Sending
<1>7. log' \in [Pushes -> [Devices \cup {None} -> Pushed!LogState]] /\ Pushed!SentWasShown'
  BY <1>2, LogStays
<1> QED
  BY <1>2, <1>4, <1>5, <1>6, <1>7, OwnersStay, CallMoves DEF PushInv, Pushed!DeviceTypes

\* A device changes hands: calls in flight take notice of it.
LEMMA SignInKeeps ==
    ASSUME Pushed!DeviceIdentities, PushInv, NEW d \in Devices, NEW u \in Users \cup {None},
           Pushed!SignIn(d, u),
           NEW r \in Pushed!Rows, owner' = [owner EXCEPT ![d] = r], r.enabled => r.user = u
    PROVE  PushInv'
<1>1. /\ push \in [Pushes -> Pushed!Calls] /\ owner \in [Devices -> Pushed!Rows]
      /\ holder \in [Devices -> Users \cup {None}] /\ \A p \in Pushes : CallGood(push[p])
  BY DEF PushInv, Pushed!DeviceTypes
<1>2. /\ holder' = [holder EXCEPT ![d] = u] /\ UNCHANGED <<installed, log, shown>>
      /\ push' = [p \in Pushes |-> IF p \in Pushed!Active
                                   THEN [push[p] EXCEPT !.moved = @ \cup {d}] ELSE push[p]]
  BY DEF Pushed!SignIn
<1>3. ASSUME NEW p \in Pushes
      PROVE  /\ push'[p] \in Pushed!Calls /\ push'[p].step = push[p].step
             /\ push'[p].user = push[p].user
             /\ push'[p].device = push[p].device /\ push'[p].todo = push[p].todo
             /\ push[p].moved \subseteq push'[p].moved
             /\ push[p].step \notin {"new", "done"} => d \in push'[p].moved
  <2>1. push[p] \in Pushed!Calls
    BY <1>1
  <2>2. CASE p \in Pushed!Active
    <3>1. push'[p] = [push[p] EXCEPT !.moved = push[p].moved \cup {d}]
      BY <1>2, <2>2
    <3> QED
      BY <2>1, <3>1 DEF Pushed!Calls
  <2>3. CASE p \notin Pushed!Active
    BY <1>2, <2>1, <2>3 DEF Pushed!Active
  <2> QED
    BY <2>2, <2>3
<1>4. ASSUME NEW p \in Pushes PROVE CallGood(push[p])'
  <2>1. CallGood(push[p]) /\ push'[p] \in Pushed!Calls
    BY <1>1, <1>3
  <2>2. \A e \in Devices : holder'[e] = IF e = d THEN u ELSE holder[e]
    BY <1>1, <1>2
  <2>3. CASE push[p].step \in {"new", "done"}
    BY <1>3, <2>3 DEF CallGood, Sending
  <2>4. CASE push[p].step \in Sending \cup {"log"}
    <3>1. d \in push'[p].moved /\ push'[p].todo \subseteq Devices
      BY <1>3, <2>1, <2>4 DEF Sending, Pushed!Calls
    <3> QED
      BY <1>3, <2>1, <2>2, <2>4, <3>1 DEF CallGood
  <2>5. push[p].step \in {"new", "done", "log"} \cup Sending
    BY <1>1 DEF Pushed!Calls, Pushed!Steps, Sending
  <2> QED
    BY <2>3, <2>4, <2>5
<1>5. push' \in [Pushes -> Pushed!Calls]
  BY <1>2, <1>3
<1>6. /\ owner' \in [Devices -> Pushed!Rows] /\ TokensFollow'
      /\ holder' \in [Devices -> Users \cup {None}]
  BY <1>1, <1>2 DEF PushInv, TokensFollow
<1>7. Pushed!DeviceTypes'
  BY <1>2, <1>5, <1>6 DEF PushInv, Pushed!DeviceTypes
<1>8. ASSUME NEW s \in shown PROVE ShownGood(s)'
  <2>1. ShownGood(s) /\ s.push \in Pushes
    BY DEF PushInv, Pushed!DeviceTypes
  <2> QED
    BY <1>3, <2>1 DEF ShownGood
<1>9. \A p \in Pushes : push'[p].step = "sent" => WasShown(p, push[p].device)'
  BY <1>2, <1>3 DEF PushInv, WasShown
<1>10. Pushed!SentWasShown'
  BY <1>2 DEF PushInv, Pushed!SentWasShown
<1> QED
  BY <1>2, <1>4, <1>6, <1>7, <1>8, <1>9, <1>10 DEF PushInv

LEMMA DevicesKeep ==
    ASSUME Pushed!DeviceIdentities, PushInv, NEW u \in Users, NEW d \in Devices,
           Pushed!Register(u, d) \/ Pushed!Disable(u, d)
    PROVE  PushInv'
<1>1. owner \in [Devices -> Pushed!Rows] /\ TokensFollow /\ owner[d] \in Pushed!Rows
  BY DEF PushInv, Pushed!DeviceTypes
<1>2. CASE Pushed!Register(u, d)
  <2>1. PICK r : r = [user |-> u, enabled |-> TRUE]
    OBVIOUS
  <2>2. /\ r \in Pushed!Rows /\ r.user = u /\ owner' = [owner EXCEPT ![d] = r]
        /\ Pushed!SignIn(d, u)
    BY <1>2, <2>1 DEF Pushed!Register, Pushed!Rows
  <2> QED
    BY <2>2, SignInKeeps
<1>3. CASE Pushed!Disable(u, d)
  <2>1. PICK r : r = [owner[d] EXCEPT !.enabled = IF owner[d].user = u THEN FALSE ELSE owner[d].enabled]
    OBVIOUS
  <2>2. owner' = [owner EXCEPT ![d] = r] /\ Pushed!SignIn(d, None) /\ holder[d] = u
    BY <1>1, <1>3, <2>1 DEF Pushed!Disable
  <2>3. r \in Pushed!Rows /\ r.enabled = (IF owner[d].user = u THEN FALSE ELSE owner[d].enabled)
    BY <1>1, <2>1 DEF Pushed!Rows
  <2>4. ~r.enabled
    BY <1>1, <2>2, <2>3 DEF TokensFollow
  <2> QED
    BY <2>2, <2>3, <2>4, SignInKeeps
<1> QED
  BY <1>2, <1>3

LEMMA NothingSent ==
    ASSUME PushInv, UNCHANGED <<owner, holder, push, log, shown>>, installed' \subseteq Devices
    PROVE  PushInv'
<1>1. Pushed!DeviceTypes' /\ TokensFollow'
  BY DEF PushInv, Pushed!DeviceTypes, TokensFollow
<1>2. \A p \in Pushes : CallGood(push[p])'
  BY DEF PushInv, CallGood
<1>3. \A s \in shown : ShownGood(s)'
  BY DEF PushInv, ShownGood
<1>4. /\ (\A p \in Pushes : push[p].step = "sent" => WasShown(p, push[p].device))'
      /\ Pushed!SentWasShown'
  BY DEF PushInv, WasShown, Pushed!SentWasShown
<1> QED
  BY <1>1, <1>2, <1>3, <1>4 DEF PushInv

LEMMA PushInvNext ==
    ASSUME Pushed!DeviceIdentities, PushInv, [Pushed!Next]_(Pushed!vars)
    PROVE  PushInv'
<1>1. ASSUME NEW p \in Pushes, Pushed!Send(p) PROVE PushInv'
  BY <1>1, BeginPushes, LogPushes, ProviderPushes, ResultPushes, DisablePushes, CrashPushes
  DEF Pushed!Send
<1>2. CASE UNCHANGED Pushed!vars
  BY <1>2, NothingSent DEF Pushed!vars, PushInv, Pushed!DeviceTypes
<1>3. ASSUME NEW d \in Devices, Pushed!Uninstall(d) PROVE PushInv'
  BY <1>3, NothingSent DEF Pushed!Uninstall, PushInv, Pushed!DeviceTypes
<1> QED
  BY <1>1, <1>2, <1>3, DevicesKeep DEF Pushed!Next

-----------------------------------------------------------------------------
(* PaymentMethods, one request at a time.                                      *)

SerialCards == OneAtATime = 1 /\ IsFiniteSet(Requests)

CardRows ==
    /\ owner \in [Methods!AllCards -> Users \cup {None}]
    /\ status \in [Methods!AllCards -> {"ACTIVE", "DISABLED"}]
    /\ isDefault \in [Methods!AllCards -> BOOLEAN]

CardPlaces == {<<"idle">>} \cup ({"save", "disable", "default"} \X Methods!AllCards)

OneCardHandler == \A g, h \in Requests : pc[g] # <<"idle">> /\ pc[h] # <<"idle">> => g = h

CardHandlersGood ==
    /\ pc \in [Requests -> CardPlaces]
    /\ frame \in [Requests -> [guest: Users \cup {None}, first: BOOLEAN]]
    /\ OneCardHandler

\* What a handler read is still so.
CardRelies(h) ==
    \A c \in Methods!AllCards :
        /\ pc[h] = <<"save", c>> => /\ frame[h].guest \in Users
                                    /\ owner[c] \in {frame[h].guest, None}
                                    /\ frame[h].first => Methods!Defaults(frame[h].guest) = {}
        /\ pc[h] = <<"default", c>> => frame[h].guest \in Users /\ c \in Methods!Active(frame[h].guest)

\* Defaults are active cards, one for each guest.
DefaultsGood ==
    /\ \A c \in Methods!AllCards : isDefault[c] => owner[c] # None /\ status[c] = "ACTIVE"
    /\ \A c, d \in Methods!AllCards : isDefault[c] /\ isDefault[d] /\ owner[c] = owner[d] => c = d

CardsInv == CardRows /\ CardHandlersGood /\ (\A h \in Requests : CardRelies(h)) /\ DefaultsGood

LEMMA CardsInvInit ==
    ASSUME Methods!Init
    PROVE  CardsInv
BY DEF Methods!Init, CardsInv, CardRows, CardHandlersGood, OneCardHandler, CardRelies,
   DefaultsGood, CardPlaces, Methods!Idle

LEMMA OneDefaultEach ==
    ASSUME CardsInv
    PROVE  Methods!OneDefault
<1>1. ASSUME NEW g \in Users PROVE Cardinality(Methods!Defaults(g)) <= 1
  <2>1. CASE Methods!Defaults(g) = {}
    BY <2>1, FS_EmptySet
  <2>2. CASE Methods!Defaults(g) # {}
    <3>1. PICK c : c \in Methods!Defaults(g)
      BY <2>2
    <3>2. Methods!Defaults(g) = {c}
      BY <3>1 DEF CardsInv, DefaultsGood, Methods!Defaults, Methods!Active, Methods!Rows
    <3>3. Cardinality({c}) = 1
      BY FS_Singleton
    <3>4. Cardinality(Methods!Defaults(g)) = 1
      BY <3>2, <3>3, Zenon
    <3> QED
      BY <3>4
  <2> QED
    BY <2>1, <2>2
<1>2. \A c \in Methods!AllCards : isDefault[c] => c \in Methods!Rows /\ status[c] = "ACTIVE"
  BY DEF CardsInv, DefaultsGood, Methods!Rows
<1> QED
  BY <1>1, <1>2 DEF Methods!OneDefault, Methods!Cardinality, Cardinality

LEMMA OtherCardHandlersIdle ==
    ASSUME SerialCards, CardsInv, NEW h \in Requests, pc[h] # <<"idle">> \/ Methods!MayBegin(h)
    PROVE  \A g \in Requests \ {h} : pc[g] = <<"idle">>
<1>1. CASE pc[h] # <<"idle">>
  BY <1>1 DEF CardsInv, CardHandlersGood, OneCardHandler
<1>2. CASE Methods!MayBegin(h)
  <2> DEFINE A == {k \in Requests : pc[k] # <<"idle">>}
  <2>1. IsFiniteSet(A)
    BY FS_Subset DEF SerialCards
  <2>2. Cardinality(A) < 1
    BY <1>2 DEF Methods!MayBegin, SerialCards, Methods!Cardinality, Cardinality
  <2>3. Cardinality(A) = 0
    BY <2>1, <2>2, FS_CardinalityType
  <2>4. A = {}
    BY <2>1, <2>3, FS_EmptySet
  <2> QED
    BY <2>4
<1> QED
  BY <1>1, <1>2

\* Nobody but the handler that moves is in flight.
LEMMA CardHandlerMoves ==
    ASSUME SerialCards, CardsInv, NEW h \in Requests, pc[h] # <<"idle">> \/ Methods!MayBegin(h),
           NEW l \in CardPlaces, pc' = [pc EXCEPT ![h] = l],
           NEW f \in [guest: Users \cup {None}, first: BOOLEAN],
           frame' = [frame EXCEPT ![h] = f],
           CardRelies(h)'
    PROVE  CardHandlersGood' /\ \A g \in Requests : CardRelies(g)'
<1>1. pc \in [Requests -> CardPlaces] /\ \A g \in Requests \ {h} : pc'[g] = <<"idle">>
  BY OtherCardHandlersIdle DEF CardsInv, CardHandlersGood
<1>2. CardHandlersGood'
  BY <1>1 DEF CardsInv, CardHandlersGood, OneCardHandler
<1>3. ASSUME NEW g \in Requests \ {h} PROVE CardRelies(g)'
  BY <1>1 DEF CardRelies
<1> QED
  BY <1>2, <1>3

LEMMA CardHandlerEnds ==
    ASSUME SerialCards, CardsInv, NEW h \in Requests, pc[h] # <<"idle">>, Methods!Finish(h)
    PROVE  CardHandlersGood' /\ \A g \in Requests : CardRelies(g)'
<1>1. PICK f \in [guest: Users \cup {None}, first: BOOLEAN] : f = Methods!Idle
  BY DEF Methods!Idle
<1>2. /\ pc' = [pc EXCEPT ![h] = <<"idle">>] /\ frame' = [frame EXCEPT ![h] = f]
      /\ <<"idle">> \in CardPlaces
  BY <1>1 DEF Methods!Finish, CardPlaces
<1>3. pc'[h] = <<"idle">>
  BY <1>2 DEF CardsInv, CardHandlersGood
<1>4. CardRelies(h)'
  BY <1>3 DEF CardRelies
<1> QED
  BY <1>2, <1>4, CardHandlerMoves

LEMMA CardHandlerBegins ==
    ASSUME SerialCards, CardsInv, NEW h \in Requests, NEW c \in Methods!AllCards,
           NEW g \in Users,
           NEW l \in {"save", "disable", "default"}, Methods!Begin(h, l, c, g),
           l = "save" => owner[c] \in {g, None}, l = "default" => c \in Methods!Active(g)
    PROVE  CardsInv'
<1>1. PICK f \in [guest: Users \cup {None}, first: BOOLEAN] :
          f = [guest |-> g, first |-> Methods!Defaults(g) = {}]
  <2>1. PICK b \in BOOLEAN : b = (Methods!Defaults(g) = {})
    OBVIOUS
  <2>2. [guest |-> g, first |-> b] = [guest |-> g, first |-> Methods!Defaults(g) = {}]
    BY <2>1, Zenon
  <2>3. [guest |-> g, first |-> b] \in [guest: Users \cup {None}, first: BOOLEAN]
    OBVIOUS
  <2> QED
    BY <2>2, <2>3, Zenon
<1>2. PICK p \in CardPlaces : p = <<l, c>>
  BY DEF CardPlaces
<1>3. /\ pc' = [pc EXCEPT ![h] = p] /\ frame' = [frame EXCEPT ![h] = f]
      /\ UNCHANGED <<owner, status, isDefault>> /\ Methods!MayBegin(h)
  BY <1>1, <1>2 DEF Methods!Begin
<1>4. pc'[h] = <<l, c>> /\ frame'[h].guest = g /\ (frame'[h].first <=> Methods!Defaults(g) = {})
  BY <1>1, <1>2, <1>3 DEF CardsInv, CardHandlersGood
<1>5. UNCHANGED <<Methods!Defaults(g), Methods!Active(g)>>
  BY <1>3 DEF Methods!Defaults, Methods!Active, Methods!Rows
<1>6. CardRelies(h)'
  BY <1>3, <1>4, <1>5 DEF CardRelies
<1>7. CardRows' /\ DefaultsGood'
  BY <1>3 DEF CardsInv, CardRows, DefaultsGood
<1> QED
  BY <1>3, <1>6, <1>7, CardHandlerMoves DEF CardsInv

LEMMA SaveKeeps ==
    ASSUME Methods!MethodIdentities, SerialCards, CardsInv, NEW h \in Requests,
           NEW c \in Methods!AllCards, Methods!SaveWrite(h, c)
    PROVE  CardsInv'
<1>1. PICK g \in Users : /\ g = frame[h].guest /\ owner[c] \in {g, None}
                         /\ frame[h].first => Methods!Defaults(g) = {}
  BY DEF Methods!SaveWrite, CardsInv, CardRelies
<1>2. /\ pc[h] # <<"idle">> /\ Methods!Finish(h)
      /\ owner' = [owner EXCEPT ![c] = g] /\ status' = [status EXCEPT ![c] = "ACTIVE"]
      /\ isDefault' = [isDefault EXCEPT ![c] = IF owner[c] = None THEN frame[h].first ELSE isDefault[c]]
  BY <1>1 DEF Methods!SaveWrite
<1>3. CardRows /\ frame[h].first \in BOOLEAN
  BY DEF CardsInv, CardHandlersGood
<1>4. CardRows'
  BY <1>2, <1>3 DEF CardRows
<1>5. /\ owner'[c] = g /\ status'[c] = "ACTIVE"
      /\ \A d \in Methods!AllCards \ {c} :
            owner'[d] = owner[d] /\ status'[d] = status[d] /\ isDefault'[d] = isDefault[d]
      /\ isDefault'[c] => isDefault[c] \/ frame[h].first
  BY <1>2, <1>3 DEF CardRows
<1>6. isDefault'[c] => \A d \in Methods!AllCards \ {c} : owner[d] = g => ~isDefault[d]
  BY <1>1, <1>2, <1>3, <1>5 DEF CardsInv, DefaultsGood, Methods!Defaults, Methods!Active,
     Methods!Rows, Methods!MethodIdentities, CardRows
<1>7. DefaultsGood'
  BY <1>5, <1>6 DEF CardsInv, DefaultsGood, Methods!MethodIdentities
<1> QED
  BY <1>2, <1>4, <1>7, CardHandlerEnds DEF CardsInv

LEMMA DisableKeeps ==
    ASSUME SerialCards, CardsInv, NEW h \in Requests, NEW c \in Methods!AllCards,
           Methods!DisableWrite(h, c)
    PROVE  CardsInv'
<1>1. /\ pc[h] # <<"idle">> /\ Methods!Finish(h) /\ UNCHANGED owner
      /\ status' = [status EXCEPT ![c] = "DISABLED"]
      /\ isDefault' = [isDefault EXCEPT ![c] = FALSE]
  BY DEF Methods!DisableWrite
<1>2. CardRows' /\ DefaultsGood'
  BY <1>1 DEF CardsInv, CardRows, DefaultsGood
<1> QED
  BY <1>1, <1>2, CardHandlerEnds DEF CardsInv

LEMMA DefaultKeeps ==
    ASSUME Methods!MethodIdentities, SerialCards, CardsInv, NEW h \in Requests,
           NEW c \in Methods!AllCards, Methods!DefaultWrite(h, c)
    PROVE  CardsInv'
<1>1. PICK g \in Users : g = frame[h].guest /\ c \in Methods!Active(g)
  BY DEF Methods!DefaultWrite, CardsInv, CardRelies
<1>2. /\ pc[h] # <<"idle">> /\ Methods!Finish(h) /\ UNCHANGED <<owner, status>>
      /\ isDefault' = [d \in Methods!AllCards |-> IF owner[d] = g THEN d = c ELSE isDefault[d]]
  BY <1>1 DEF Methods!DefaultWrite
<1>3. owner[c] = g /\ status[c] = "ACTIVE" /\ g # None
  BY <1>1 DEF Methods!Active, Methods!Rows, Methods!MethodIdentities
<1>4. /\ CardRows'
      /\ \A d \in Methods!AllCards : isDefault'[d] <=> IF owner[d] = g THEN d = c ELSE isDefault[d]
  BY <1>2 DEF CardsInv, CardRows
<1>5. DefaultsGood'
  BY <1>2, <1>3, <1>4 DEF CardsInv, DefaultsGood
<1> QED
  BY <1>2, <1>4, <1>5, CardHandlerEnds DEF CardsInv

LEMMA CardsInvNext ==
    ASSUME Methods!MethodIdentities, SerialCards, CardsInv, [Methods!Next]_(Methods!vars)
    PROVE  CardsInv'
<1>1. ASSUME NEW h \in Requests, NEW c \in Methods!AllCards, NEW g \in Users,
             \/ Methods!SaveRead(h, c, g) \/ Methods!AddTest(h, c, g)
             \/ Methods!DisableRead(h, c, g) \/ Methods!DefaultRead(h, c, g)
      PROVE  CardsInv'
  BY <1>1, CardHandlerBegins DEF Methods!SaveRead, Methods!AddTest, Methods!DisableRead,
     Methods!DefaultRead
<1>2. CASE UNCHANGED Methods!vars
  BY <1>2 DEF Methods!vars, CardsInv, CardRows, CardHandlersGood, OneCardHandler, CardRelies,
     DefaultsGood, Methods!Defaults, Methods!Active, Methods!Rows
<1> QED
  BY <1>1, <1>2, SaveKeeps, DisableKeeps, DefaultKeeps DEF Methods!Next

-----------------------------------------------------------------------------
(* CheckInReminders.                                                           *)

\* A term's window opens before it closes, which is before its slot and not long before.
LEMMA TermsGood ==
    ASSUME Due!ReminderClock, NEW m \in Due!Terms
    PROVE  /\ m.slot \in Nat /\ m.opens \in Nat /\ m.closes \in Nat
           /\ m.opens <= m.closes /\ m.closes <= m.slot /\ m.slot <= m.closes + OpensBefore
<1>1. PICK s \in Slots, t \in Due!Ticks : m = Due!TermAt(s, t)
  BY DEF Due!Terms
<1>2. /\ s \in Nat /\ OpensBefore <= s /\ t \in Nat /\ OpensBefore \in Nat /\ WindowLen \in Nat
      /\ WindowLen <= OpensBefore
  BY <1>1 DEF Due!ReminderClock, Due!Ticks
<1>3. PICK w : w = Due!Policy(s)!CustomerCheckInWindowFor(t)
  OBVIOUS
<1>4. /\ w.opens \in Nat /\ w.closes \in Nat /\ w.opens <= w.closes /\ w.closes <= s
      /\ s <= w.closes + OpensBefore
  BY <1>2, <1>3 DEF Due!Policy!CustomerCheckInWindowFor, Due!Policy!CustomerCheckInOpensAt,
     Due!Policy!CustomerCheckInClosesAt, Due!Policy!SmallerOf
<1>5. m = [slot |-> s, opens |-> w.opens, closes |-> w.closes]
  BY <1>1, <1>3 DEF Due!TermAt
<1> QED
  BY <1>2, <1>4, <1>5

RemTyped ==
    /\ now \in Due!Ticks /\ ran \in BOOLEAN
    /\ booking \in [Guests -> Due!Rows]
    /\ cleanup \in [Due!Cleanups -> Due!Frames]

\* What is claimed was claimed for the slot, and a final reminder goes with a first one.
MarksGood(b) ==
    /\ b.final # None => b.first # None
    /\ b.first # None => b.term.opens <= b.first /\ b.first <= b.term.closes

RowGood(b) ==
    /\ b.status = "NONE" => b = Due!NoRow
    /\ b.status # "NONE" => b.term \in Due!Terms
    /\ b.status = "CONFIRMED" => b.settled \in 0..now
    /\ ~b.overtaken => MarksGood(b)

\* An answer is about a reservation that was made, and a move to a slot that was asked for.
AnswersGood ==
    \A c \in Due!Cleanups :
        /\ cleanup[c].step \in {"accept", "move"} =>
              /\ c # Timer /\ cleanup[c].guest \in Guests
              /\ booking[cleanup[c].guest].status # "NONE"
        /\ cleanup[c].step = "move" => cleanup[c].to \in Due!Terms

\* A candidate on a list is due, and its first reminder claimed if it was when it was read.
ListGood(c, g) ==
    /\ booking[g].status # "NONE"
    /\ ~booking[g].overtaken =>
          /\ booking[g].term.opens <= cleanup[c].clock /\ cleanup[c].clock <= booking[g].term.closes
          /\ cleanup[c].step \in {"final", "pushFinal"} /\ g \notin cleanup[c].blank
                => booking[g].first # None

ListsGood == \A c \in Due!Cleanups : \A g \in cleanup[c].todo : ListGood(c, g)

Claimed(g, k)    == IF k = "final" THEN booking[g].final # None ELSE booking[g].first # None
Pushing(c, g, k) == /\ cleanup[c].step = (IF k = "final" THEN "pushFinal" ELSE "pushFirst")
                    /\ cleanup[c].guest = g
Pushers(g, k)    == {c \in Due!Cleanups : Pushing(c, g, k)}

\* A reminder is pushed by the cleanup that claimed it, and a claim is forgotten by a move only.
CountGood(g, k) ==
    pushed[g][k] + Cardinality(Pushers(g, k)) <= booking[g].moves + (IF Claimed(g, k) THEN 1 ELSE 0)

ClaimsGood ==
    /\ pushed \in [Guests -> [Due!Kinds -> Nat]]
    /\ \A c \in Due!Cleanups : cleanup[c].step \in {"pushFinal", "pushFirst"} => cleanup[c].guest \in Guests
    /\ \A g \in Guests, k \in Due!Kinds : CountGood(g, k)

\* Agreed on in time, and still to check in.
Expected(g) ==
    /\ booking[g].status = "CONFIRMED" /\ ~booking[g].checkedIn /\ ~booking[g].overtaken
    /\ booking[g].settled < booking[g].term.closes

\* In the last tick of a window the timer's cleanup has its guest on the list.
TimerGood ==
    cleanup[Timer].step # "idle" =>
        /\ cleanup[Timer].step # "remind" /\ cleanup[Timer].clock = now /\ ~ran
        /\ cleanup[Timer].step \in {"first", "pushFirst"} =>
              \A g \in Guests : Expected(g) /\ booking[g].term.closes = now /\ booking[g].first = None
                                   => g \in cleanup[Timer].todo

Remembered ==
    \A g \in Guests :
        Expected(g) /\ (booking[g].term.closes < now \/ (booking[g].term.closes = now /\ ran))
            => booking[g].first # None

RowsGood == \A g \in Guests : RowGood(booking[g])

RemindInv ==
    RemTyped /\ RowsGood /\ AnswersGood /\ ListsGood /\ ClaimsGood /\ TimerGood /\ Remembered

LEMMA PushersFinite ==
    ASSUME Due!ReminderIdentities, NEW g, NEW k
    PROVE  IsFiniteSet(Pushers(g, k)) /\ Cardinality(Pushers(g, k)) \in Nat
<1>1. IsFiniteSet(Due!Cleanups)
  <2>1. IsFiniteSet(Owners)
    BY DEF Due!ReminderIdentities, Due!IsFiniteSet, IsFiniteSet
  <2> QED
    BY <2>1, FS_AddElement DEF Due!Cleanups
<1> QED
  BY <1>1, FS_Subset, FS_CardinalityType DEF Pushers

LEMMA RemindInvInit ==
    ASSUME Due!ReminderIdentities, Due!ReminderClock, Due!Init
    PROVE  RemindInv
<1>1. RemTyped
  <2>1. 0 \in Due!Ticks
    BY DEF Due!Ticks, Due!ReminderClock
  <2>2. Due!NoRow \in Due!Rows /\ Due!Idle \in Due!Frames
    BY <2>1 DEF Due!Rows, Due!NoRow, Due!Frames, Due!Idle, Due!Steps
  <2> QED
    BY <2>1, <2>2 DEF Due!Init, RemTyped
<1>2. RowsGood /\ TimerGood /\ Remembered
  BY DEF Due!Init, RowsGood, RowGood, MarksGood, TimerGood, Remembered, Expected, Due!NoRow,
     Due!Idle, Due!Cleanups
<1>3. AnswersGood /\ ListsGood
  BY DEF Due!Init, AnswersGood, ListsGood, Due!Idle
<1>4. ClaimsGood
  <2>1. ASSUME NEW g \in Guests, NEW k \in Due!Kinds PROVE CountGood(g, k)
    <3>1. Pushers(g, k) = {}
      BY DEF Due!Init, Pushers, Pushing, Due!Idle
    <3>2. booking[g].moves = 0 /\ pushed[g][k] = 0
      BY DEF Due!Init, Due!NoRow
    <3> QED
      BY <3>1, <3>2, FS_EmptySet DEF CountGood
  <2> QED
    BY <2>1 DEF Due!Init, ClaimsGood, Due!Idle
<1> QED
  BY <1>1, <1>2, <1>3, <1>4 DEF RemindInv

-----------------------------------------------------------------------------
\* How other handlers change the row of a guest: the marks and the slot stay, or the
\* reservation is new to every list, or it was moved.
RowChange(g, r) ==
    /\ RowGood(r) /\ r.status # "NONE"
    /\ r.moves \in Nat
    /\ \/ r.first = booking[g].first /\ r.final = booking[g].final /\ r.moves = booking[g].moves
       \/ r.moves = booking[g].moves + 1
    /\ \/ r.first = booking[g].first /\ r.term = booking[g].term /\ r.overtaken = booking[g].overtaken
       \/ Due!OnAList(g) => r.overtaken
    /\ \/ /\ r.status = booking[g].status /\ r.checkedIn = booking[g].checkedIn
          /\ r.settled = booking[g].settled /\ r.overtaken = booking[g].overtaken
          /\ r.term = booking[g].term /\ r.first = booking[g].first
       \/ r.status = "CONFIRMED" /\ ~r.checkedIn /\ r.settled < r.term.closes => r.term.closes > now

LEMMA RowMoves ==
    ASSUME Due!ReminderIdentities, Due!ReminderClock, RemindInv, NEW c \in Due!Cleanups,
           NEW g \in Guests, NEW r \in Due!Rows, RowChange(g, r),
           booking' = [booking EXCEPT ![g] = r], UNCHANGED <<now, ran, pushed>>,
           \/ UNCHANGED cleanup
           \/ /\ Due!Set(c, [Due!Idle EXCEPT !.step = "remind"]) /\ c # Timer
              /\ cleanup[c].step \in {"accept", "move"}
    PROVE  RemindInv'
<1>1. booking \in [Guests -> Due!Rows] /\ cleanup \in [Due!Cleanups -> Due!Frames]
  BY DEF RemindInv, RemTyped
<1>2. /\ booking'[g] = r /\ \A h \in Guests \ {g} : booking'[h] = booking[h]
      /\ booking' \in [Guests -> Due!Rows]
  BY <1>1
<1>3. /\ cleanup' \in [Due!Cleanups -> Due!Frames]
      /\ \A d \in Due!Cleanups :
            \/ cleanup'[d] = cleanup[d]
            \/ /\ d = c /\ d # Timer /\ cleanup[d].step \in {"accept", "move"}
               /\ cleanup'[d].step = "remind" /\ cleanup'[d].todo = {}
  <2>1. CASE UNCHANGED cleanup
    BY <1>1, <2>1
  <2>2. CASE Due!Set(c, [Due!Idle EXCEPT !.step = "remind"]) /\ c # Timer
             /\ cleanup[c].step \in {"accept", "move"}
    <3>1. PICK f : f = [Due!Idle EXCEPT !.step = "remind"]
      OBVIOUS
    <3>2. f \in Due!Frames /\ f.step = "remind" /\ f.todo = {}
      BY <3>1 DEF Due!Idle, Due!Frames, Due!Steps, Due!Ticks, Due!ReminderClock
    <3>3. cleanup' = [cleanup EXCEPT ![c] = f]
      BY <2>2, <3>1 DEF Due!Set
    <3> QED
      BY <1>1, <2>2, <3>2, <3>3
  <2> QED
    BY <2>1, <2>2
<1>4. RemTyped'
  BY <1>2, <1>3 DEF RemindInv, RemTyped
<1>5. RowsGood'
  BY <1>2 DEF RemindInv, RowsGood, RowGood, RowChange, MarksGood
<1>6. AnswersGood'
  <2> SUFFICES ASSUME NEW d \in Due!Cleanups, cleanup'[d].step \in {"accept", "move"}
               PROVE  /\ d # Timer /\ cleanup'[d].guest \in Guests
                      /\ booking'[cleanup'[d].guest].status # "NONE"
                      /\ cleanup'[d].step = "move" => cleanup'[d].to \in Due!Terms
    BY DEF AnswersGood
  <2>1. cleanup'[d] = cleanup[d]
    BY <1>3
  <2> QED
    BY <1>2, <2>1 DEF RemindInv, AnswersGood, RowChange
<1>7. ListsGood'
  <2> SUFFICES ASSUME NEW d \in Due!Cleanups, NEW h \in cleanup'[d].todo PROVE ListGood(d, h)'
    BY DEF ListsGood
  <2>1. cleanup'[d] = cleanup[d] /\ h \in Guests /\ ListGood(d, h)
    BY <1>1, <1>3 DEF RemindInv, ListsGood, Due!Frames
  <2>2. CASE h # g
    BY <1>2, <2>1, <2>2 DEF ListGood
  <2>3. CASE h = g
    BY <1>2, <2>1, <2>3 DEF ListGood, RowChange, Due!OnAList
  <2> QED
    BY <2>2, <2>3
<1>8. ClaimsGood'
  <2>1. \A h \in Guests, k \in Due!Kinds : Pushers(h, k)' = Pushers(h, k)
    BY <1>3 DEF Pushers, Pushing
  <2>2. ASSUME NEW h \in Guests, NEW k \in Due!Kinds PROVE CountGood(h, k)'
    <3>1. /\ CountGood(h, k) /\ pushed'[h][k] = pushed[h][k] /\ pushed[h][k] \in Nat
          /\ Cardinality(Pushers(h, k)) \in Nat /\ booking[h].moves \in Nat
      BY <1>1, PushersFinite DEF RemindInv, ClaimsGood, Due!Rows
    <3>2. CASE h # g
      BY <1>2, <2>1, <3>1, <3>2 DEF CountGood, Claimed
    <3>3. CASE h = g /\ r.moves = booking[g].moves + 1
      BY <1>2, <2>1, <3>1, <3>3 DEF CountGood, Claimed
    <3>4. CASE h = g /\ r.first = booking[g].first /\ r.final = booking[g].final
               /\ r.moves = booking[g].moves
      BY <1>2, <2>1, <3>1, <3>4 DEF CountGood, Claimed
    <3> QED
      BY <3>2, <3>3, <3>4 DEF RowChange
  <2>3. \A d \in Due!Cleanups :
           cleanup'[d].step \in {"pushFinal", "pushFirst"} => cleanup'[d].guest \in Guests
    BY <1>3 DEF RemindInv, ClaimsGood
  <2> QED
    BY <2>2, <2>3 DEF RemindInv, ClaimsGood
<1>9. ASSUME NEW h \in Guests \ {g} PROVE Expected(h)' = Expected(h) /\ booking'[h] = booking[h]
  BY <1>2 DEF Expected
<1>10. ASSUME Expected(g)'
       PROVE  \/ Expected(g) /\ booking'[g].term = booking[g].term /\ booking'[g].first = booking[g].first
              \/ ~(booking'[g].term.closes < now) /\ booking'[g].term.closes # now
  <2>1. r.term \in Due!Terms /\ now \in Nat
    BY DEF RowChange, RowGood, RemindInv, RemTyped, Due!Ticks
  <2>2. r.term.closes \in Nat
    BY <2>1, TermsGood
  <2> QED
    BY <1>2, <1>10, <2>1, <2>2 DEF Expected, RowChange
<1>11. cleanup'[Timer] = cleanup[Timer]
  BY <1>3 DEF Due!Cleanups
<1>12. TimerGood' /\ Remembered'
  BY <1>9, <1>10, <1>11 DEF RemindInv, TimerGood, Remembered
<1> QED
  BY <1>4, <1>5, <1>6, <1>7, <1>8, <1>12 DEF RemindInv

\* No reservation is on a list before it is made.
LEMMA NewOnNoList ==
    ASSUME RemindInv, NEW g \in Guests, booking[g].status = "NONE"
    PROVE  ~Due!OnAList(g)
BY DEF RemindInv, ListsGood, ListGood, Due!OnAList

LEMMA BookKeeps ==
    ASSUME Due!ReminderIdentities, Due!ReminderClock, RemindInv, NEW g \in Guests, Due!Book(g)
    PROVE  RemindInv'
<1>1. PICK s \in Slots :
          Due!Change(g, [Due!NoRow EXCEPT !.status = "PENDING_VENUE_CONFIRMATION",
                                          !.term = Due!TermAt(s, now)])
  BY DEF Due!Book
<1>2. PICK r : r = [Due!NoRow EXCEPT !.status = "PENDING_VENUE_CONFIRMATION",
                                     !.term = Due!TermAt(s, now)]
  OBVIOUS
<1>3. Due!TermAt(s, now) \in Due!Terms
  BY DEF Due!Terms, RemindInv, RemTyped
<1>4. /\ r \in Due!Rows /\ r.first = None /\ r.final = None /\ r.moves = 0 /\ ~r.overtaken
      /\ r.status = "PENDING_VENUE_CONFIRMATION" /\ r.term \in Due!Terms
  <2>1. r = [status |-> "PENDING_VENUE_CONFIRMATION", term |-> Due!TermAt(s, now), checkedIn |-> FALSE,
             asked |-> None, first |-> None, final |-> None, settled |-> None, moves |-> 0,
             overtaken |-> FALSE]
    BY <1>2 DEF Due!NoRow
  <2> QED
    BY <1>3, <2>1 DEF Due!Rows
<1>5. booking[g] = Due!NoRow /\ booking[g].status = "NONE"
  BY DEF Due!Book, RemindInv, RowsGood, RowGood
<1>6. RowChange(g, r)
  <2>1. ~Due!OnAList(g)
    BY <1>5, NewOnNoList
  <2>2. booking[g].first = None /\ booking[g].final = None /\ booking[g].moves = 0
    BY <1>5 DEF Due!NoRow
  <2>3. RowGood(r)
    BY <1>4 DEF RowGood, MarksGood
  <2> QED
    BY <1>4, <2>1, <2>2, <2>3 DEF RowChange
<1>7. booking' = [booking EXCEPT ![g] = r] /\ UNCHANGED <<now, cleanup, ran, pushed>>
  BY <1>1, <1>2 DEF Due!Change
<1>8. PICK c : c \in Due!Cleanups
  BY DEF Due!Cleanups
<1> QED
  BY <1>4, <1>6, <1>7, <1>8, RowMoves

\* A guest checks in, asks for another slot or is told no, or the reservation is over.
LEMMA GuestKeeps ==
    ASSUME Due!ReminderIdentities, Due!ReminderClock, RemindInv, NEW g \in Guests,
           Due!CheckIn(g) \/ Due!End(g) \/ Due!RequestMove(g) \/ Due!DeclineMove(g)
    PROVE  RemindInv'
<1> DEFINE b == booking[g]
<1>1. b \in Due!Rows /\ RowGood(b) /\ now \in Due!Ticks
  BY DEF RemindInv, RemTyped, RowsGood
<1>2. b.asked # None => b.status # "NONE"
  BY <1>1 DEF RowGood, Due!NoRow
<1>3. PICK r \in Due!Rows :
          /\ Due!Change(g, r) /\ r.term = b.term /\ r.first = b.first /\ r.final = b.final
          /\ r.settled = b.settled /\ r.moves = b.moves /\ r.overtaken = b.overtaken
          /\ r.status # "NONE" /\ b.status # "NONE"
          /\ \/ r.status = b.status /\ r.checkedIn = b.checkedIn
             \/ r.status \in {"CHECK_IN_PENDING", "ENDED"}
  <2>1. CASE Due!CheckIn(g)
    <3>1. PICK r : r = [b EXCEPT !.status = "CHECK_IN_PENDING", !.checkedIn = TRUE]
      OBVIOUS
    <3>2. Due!Change(g, r) /\ b.status = "CONFIRMED"
      BY <2>1, <3>1 DEF Due!CheckIn
    <3>3. /\ r \in Due!Rows /\ r.term = b.term /\ r.first = b.first /\ r.final = b.final
          /\ r.settled = b.settled /\ r.moves = b.moves /\ r.overtaken = b.overtaken
          /\ r.status = "CHECK_IN_PENDING"
      BY <1>1, <3>1 DEF Due!Rows
    <3> QED
      BY <3>2, <3>3
  <2>2. CASE Due!End(g)
    <3>1. PICK r : r = [b EXCEPT !.status = "ENDED"]
      OBVIOUS
    <3> QED
      BY <1>1, <2>2, <3>1 DEF Due!End, Due!Rows
  <2>3. CASE Due!RequestMove(g)
    <3>1. PICK s \in Slots : Due!Change(g, [b EXCEPT !.asked = Due!TermAt(s, now)])
      BY <2>3 DEF Due!RequestMove
    <3>2. Due!TermAt(s, now) \in Due!Terms
      BY <1>1 DEF Due!Terms
    <3>3. PICK r : r = [b EXCEPT !.asked = Due!TermAt(s, now)]
      OBVIOUS
    <3> QED
      BY <1>1, <2>3, <3>1, <3>2, <3>3 DEF Due!RequestMove, Due!Rows
  <2>4. CASE Due!DeclineMove(g)
    <3>1. PICK r : r = [b EXCEPT !.asked = None]
      OBVIOUS
    <3> QED
      BY <1>1, <1>2, <2>4, <3>1 DEF Due!DeclineMove, Due!Rows
  <2> QED
    BY <2>1, <2>2, <2>3, <2>4
<1>4. booking' = [booking EXCEPT ![g] = r] /\ UNCHANGED <<now, cleanup, ran, pushed>>
  BY <1>3 DEF Due!Change
<1>5. RowGood(r) /\ r.moves \in Nat
  BY <1>1, <1>3 DEF RowGood, MarksGood, Due!Rows
<1>6. RowChange(g, r)
  BY <1>3, <1>5 DEF RowChange
<1>7. PICK c : c \in Due!Cleanups
  BY DEF Due!Cleanups
<1> QED
  BY <1>4, <1>6, <1>7, RowMoves

LEMMA AcceptWriteKeeps ==
    ASSUME Due!ReminderIdentities, Due!ReminderClock, RemindInv, NEW c \in Due!Cleanups,
           Due!AcceptWrite(c)
    PROVE  RemindInv'
<1>1. PICK g : g = cleanup[c].guest
  OBVIOUS
<1>2. /\ g \in Guests /\ booking[g].status # "NONE" /\ c # Timer /\ cleanup[c].step = "accept"
      /\ booking[g] \in Due!Rows /\ RowGood(booking[g]) /\ booking \in [Guests -> Due!Rows]
      /\ now \in Due!Ticks /\ now \in Nat
  BY <1>1 DEF Due!AcceptWrite, RemindInv, AnswersGood, RemTyped, RowsGood, Due!Ticks
<1>3. PICK r : r = [booking[g] EXCEPT !.status = "CONFIRMED", !.settled = now]
  OBVIOUS
<1>4. /\ r \in Due!Rows /\ r.status = "CONFIRMED" /\ r.settled = now /\ r.term = booking[g].term
      /\ r.first = booking[g].first /\ r.final = booking[g].final /\ r.moves = booking[g].moves
      /\ r.overtaken = booking[g].overtaken /\ r.moves \in Nat
  BY <1>2, <1>3 DEF Due!Rows
<1>5. r.term \in Due!Terms /\ r.term.closes \in Nat
  BY <1>2, <1>4, TermsGood DEF RowGood
<1>6. RowGood(r)
  BY <1>2, <1>4, <1>5 DEF RowGood, MarksGood
<1>7. RowChange(g, r)
  BY <1>2, <1>4, <1>5, <1>6 DEF RowChange
<1>8. /\ booking' = [booking EXCEPT ![g] = r] /\ UNCHANGED <<now, ran, pushed>>
      /\ Due!Set(c, [Due!Idle EXCEPT !.step = "remind"])
  BY <1>1, <1>2, <1>3 DEF Due!AcceptWrite, Due!Rows
<1> QED
  BY <1>2, <1>4, <1>7, <1>8, RowMoves

LEMMA MoveWriteKeeps ==
    ASSUME Due!ReminderIdentities, Due!ReminderClock, RemindInv, NEW c \in Due!Cleanups,
           Due!MoveWrite(c)
    PROVE  RemindInv'
<1>1. PICK g : g = cleanup[c].guest
  OBVIOUS
<1>2. /\ g \in Guests /\ booking[g].status # "NONE" /\ c # Timer /\ cleanup[c].step = "move"
      /\ booking[g] \in Due!Rows /\ booking \in [Guests -> Due!Rows] /\ cleanup[c].to \in Due!Terms
      /\ now \in Due!Ticks /\ now \in Nat
  <2>1. cleanup[c].step = "move"
    BY DEF Due!MoveWrite
  <2>2. /\ g \in Guests /\ booking[g].status # "NONE" /\ c # Timer /\ cleanup[c].to \in Due!Terms
    BY <1>1, <2>1 DEF RemindInv, AnswersGood
  <2> QED
    BY <2>1, <2>2 DEF RemindInv, RemTyped, Due!Ticks
<1>3. PICK r : r = Due!Moved(g, cleanup[c].to)
  OBVIOUS
<1>4. PICK o \in BOOLEAN : o = Due!OnAList(g)
  BY DEF Due!OnAList
<1>5. /\ r \in Due!Rows /\ r.status = booking[g].status /\ r.settled = now /\ r.term = cleanup[c].to
      /\ r.first = None /\ r.final = None /\ r.moves = booking[g].moves + 1 /\ r.moves \in Nat
      /\ r.overtaken = Due!OnAList(g)
  <2>1. booking[g].status \in {"NONE", "PENDING_VENUE_CONFIRMATION", "CONFIRMED", "CHECK_IN_PENDING", "ENDED"}
        /\ booking[g].checkedIn \in BOOLEAN /\ booking[g].moves \in Nat
    BY <1>2 DEF Due!Rows
  <2>2. r = [status |-> booking[g].status, term |-> cleanup[c].to, checkedIn |-> booking[g].checkedIn,
             asked |-> None, first |-> None, final |-> None, settled |-> now,
             moves |-> booking[g].moves + 1, overtaken |-> o]
    BY <1>2, <1>3, <1>4 DEF Due!Moved, Due!Rows
  <2> QED
    BY <1>2, <1>4, <2>1, <2>2 DEF Due!Rows
<1>6. r.term \in Due!Terms /\ r.term.closes \in Nat
  BY <1>2, <1>5, TermsGood
<1>7. RowGood(r)
  BY <1>2, <1>5, <1>6 DEF RowGood, MarksGood
<1>8. RowChange(g, r)
  BY <1>2, <1>5, <1>6, <1>7 DEF RowChange
<1>9. /\ booking' = [booking EXCEPT ![g] = r] /\ UNCHANGED <<now, ran, pushed>>
      /\ Due!Set(c, [Due!Idle EXCEPT !.step = "remind"])
  BY <1>1, <1>2, <1>3 DEF Due!MoveWrite
<1> QED
  BY <1>2, <1>5, <1>8, <1>9, RowMoves

-----------------------------------------------------------------------------
\* Steps of a cleanup or an answer that claim nothing, push nothing and write no row.
LEMMA FrameMoves ==
    ASSUME Due!ReminderIdentities, Due!ReminderClock, RemindInv, NEW c \in Due!Cleanups,
           NEW f \in Due!Frames, Due!Set(c, f),
           UNCHANGED <<now, booking, pushed>>, ran' \in BOOLEAN,
           f.step \notin {"pushFinal", "pushFirst"},
           f.step \in {"accept", "move"} =>
               c # Timer /\ f.guest \in Guests /\ booking[f.guest].status # "NONE",
           f.step = "move" => f.to \in Due!Terms,
           \A g \in f.todo :
               /\ booking[g].status # "NONE"
               /\ ~booking[g].overtaken =>
                     /\ booking[g].term.opens <= f.clock /\ f.clock <= booking[g].term.closes
                     /\ f.step = "final" /\ g \notin f.blank => booking[g].first # None,
           c = Timer /\ f.step # "idle" =>
               /\ f.clock = now /\ ~ran' /\ f.step # "remind"
               /\ f.step = "first" => \A g \in Guests : Expected(g) /\ booking[g].term.closes = now
                                          /\ booking[g].first = None => g \in f.todo,
           c # Timer => UNCHANGED ran,
           ran' /\ ~ran => \A g \in Guests : Expected(g) /\ booking[g].term.closes = now
                                                => booking[g].first # None
    PROVE  RemindInv'
<1>1. /\ cleanup' = [cleanup EXCEPT ![c] = f] /\ cleanup \in [Due!Cleanups -> Due!Frames]
  BY DEF Due!Set, RemindInv, RemTyped
<1>2. /\ cleanup'[c] = f /\ \A d \in Due!Cleanups \ {c} : cleanup'[d] = cleanup[d]
      /\ cleanup' \in [Due!Cleanups -> Due!Frames]
  BY <1>1
<1>3. RemTyped' /\ RowsGood'
  BY <1>2 DEF RemindInv, RemTyped, RowsGood, RowGood
<1>4. AnswersGood'
  BY <1>2 DEF RemindInv, AnswersGood
<1>5. ASSUME NEW d \in Due!Cleanups, NEW g \in cleanup'[d].todo
      PROVE  ListGood(d, g)'
  <2>1. CASE d = c
    BY <1>2, <1>5, <2>1 DEF ListGood
  <2>2. CASE d # c
    BY <1>2, <1>5, <2>2 DEF RemindInv, ListsGood, ListGood
  <2> QED
    BY <2>1, <2>2
<1>6. ClaimsGood'
  <2>1. ASSUME NEW g \in Guests, NEW k \in Due!Kinds PROVE CountGood(g, k)'
    <3>1. Pushers(g, k)' \subseteq Pushers(g, k)
      BY <1>2 DEF Pushers, Pushing
    <3>2. /\ Cardinality(Pushers(g, k)') <= Cardinality(Pushers(g, k))
          /\ Cardinality(Pushers(g, k)') \in Nat /\ Cardinality(Pushers(g, k)) \in Nat
      BY <3>1, PushersFinite, FS_Subset, FS_CardinalityType
    <3>3. CountGood(g, k) /\ booking[g].moves \in Nat /\ pushed[g][k] \in Nat
      BY DEF RemindInv, ClaimsGood, RemTyped, Due!Rows
    <3> QED
      BY <3>2, <3>3 DEF CountGood, Claimed
  <2>2. \A d \in Due!Cleanups :
           cleanup'[d].step \in {"pushFinal", "pushFirst"} => cleanup'[d].guest \in Guests
    BY <1>2 DEF RemindInv, ClaimsGood
  <2> QED
    BY <2>1, <2>2 DEF RemindInv, ClaimsGood
<1>7. \A g \in Guests : Expected(g)' = Expected(g)
  BY DEF Expected
<1>8. TimerGood'
  <2>1. CASE c = Timer
    BY <1>2, <1>7, <2>1 DEF TimerGood
  <2>2. CASE c # Timer
    <3>1. cleanup'[Timer] = cleanup[Timer] /\ UNCHANGED ran
      BY <1>2, <2>2 DEF Due!Cleanups
    <3> QED
      BY <1>7, <3>1 DEF RemindInv, TimerGood
  <2> QED
    BY <2>1, <2>2
<1>9. Remembered'
  BY <1>7 DEF RemindInv, Remembered
<1> QED
  BY <1>3, <1>4, <1>5, <1>6, <1>8, <1>9 DEF RemindInv, ListsGood

\* An answer begins, or is given up.
LEMMA AnswerKeeps ==
    ASSUME Due!ReminderIdentities, Due!ReminderClock, RemindInv, NEW c \in Owners, Due!Answer(c)
    PROVE  RemindInv'
<1>1. c \in Due!Cleanups /\ c # Timer /\ ran \in BOOLEAN
  BY DEF Due!Cleanups, Due!ReminderIdentities, RemindInv, RemTyped
<1>2. ASSUME NEW g \in Guests, Due!ReadRequest(c, g) PROVE RemindInv'
  <2>1. booking[g].status # "NONE" /\ booking[g] \in Due!Rows
    BY <1>2 DEF Due!ReadRequest, RemindInv, RemTyped
  <2>2. PICK f \in {[Due!Idle EXCEPT !.step = "accept", !.guest = g],
                    [Due!Idle EXCEPT !.step = "move", !.guest = g, !.to = booking[g].asked]} :
            /\ Due!Set(c, f) /\ UNCHANGED <<now, booking, ran, pushed>>
            /\ f.step = "move" => booking[g].asked # None
    <3>1. CASE Due!Set(c, [Due!Idle EXCEPT !.step = "accept", !.guest = g])
      <4>1. PICK f : f = [Due!Idle EXCEPT !.step = "accept", !.guest = g]
        OBVIOUS
      <4>2. f.step = "accept"
        BY <4>1 DEF Due!Idle
      <4> QED
        BY <1>2, <3>1, <4>1, <4>2 DEF Due!ReadRequest
    <3>2. CASE /\ Due!Set(c, [Due!Idle EXCEPT !.step = "move", !.guest = g, !.to = booking[g].asked])
               /\ booking[g].asked # None
      BY <1>2, <3>2 DEF Due!ReadRequest
    <3> QED
      BY <1>2, <3>1, <3>2 DEF Due!ReadRequest
  <2>3. /\ f \in Due!Frames /\ f.step \in {"accept", "move"} /\ f.guest = g /\ f.todo = {}
        /\ f.step = "move" => f.to \in Due!Terms
    <3>1. 0 \in Due!Ticks /\ booking[g].asked \in Due!Terms \cup {None}
      BY <2>1 DEF Due!Ticks, Due!ReminderClock, Due!Rows
    <3>2. CASE f = [Due!Idle EXCEPT !.step = "accept", !.guest = g]
      BY <3>1, <3>2 DEF Due!Idle, Due!Frames, Due!Steps
    <3>3. CASE f = [Due!Idle EXCEPT !.step = "move", !.guest = g, !.to = booking[g].asked]
      <4>1. f.step = "move" /\ f.to = booking[g].asked /\ f.guest = g /\ f.todo = {}
        BY <3>3 DEF Due!Idle
      <4>2. f \in Due!Frames
        BY <3>1, <3>3 DEF Due!Idle, Due!Frames, Due!Steps
      <4> QED
        BY <2>2, <3>1, <4>1, <4>2
    <3> QED
      BY <2>2, <3>2, <3>3
  <2> QED
    BY <1>1, <2>1, <2>2, <2>3, FrameMoves
<1>3. ASSUME Due!GiveUp(c) PROVE RemindInv'
  <2>1. PICK f : f = Due!Idle
    OBVIOUS
  <2>2. f \in Due!Frames /\ f.step = "idle" /\ f.todo = {}
    BY <2>1 DEF Due!Idle, Due!Frames, Due!Steps, Due!Ticks, Due!ReminderClock
  <2>3. Due!Set(c, f) /\ UNCHANGED <<now, booking, ran, pushed>>
    BY <1>3, <2>1 DEF Due!GiveUp
  <2> QED
    BY <1>1, <2>2, <2>3, FrameMoves
<1> QED
  BY <1>1, <1>2, <1>3, AcceptWriteKeeps, MoveWriteKeeps DEF Due!Answer

\* Cleanup c claims the reminder of kind k of guest g: the row becomes r, its frame f.
ClaimStep(c, g, k, r, f) ==
    /\ booking' = [booking EXCEPT ![g] = r] /\ Due!Set(c, f) /\ UNCHANGED <<now, ran, pushed>>
    /\ RowGood(r) /\ r.status = booking[g].status /\ r.status # "NONE"
    /\ r.checkedIn = booking[g].checkedIn /\ r.term = booking[g].term
    /\ r.settled = booking[g].settled /\ r.moves = booking[g].moves
    /\ r.overtaken = booking[g].overtaken
    /\ r.first \in {booking[g].first, cleanup[c].clock}
    /\ r.final \in {booking[g].final, cleanup[c].clock}
    /\ (IF k = "final" THEN r.final ELSE r.first) = cleanup[c].clock
    /\ f.guest = g /\ f.step = IF k = "final" THEN "pushFinal" ELSE "pushFirst"
    /\ f.clock = cleanup[c].clock /\ f.blank = cleanup[c].blank
    /\ f.todo = cleanup[c].todo \ {g} /\ cleanup[c].step = k

\* A reminder is claimed by the cleanup that will push it.
LEMMA ClaimMoves ==
    ASSUME Due!ReminderIdentities, Due!ReminderClock, RemindInv, NEW c \in Due!Cleanups,
           NEW g \in Guests, NEW k \in Due!Kinds, NEW r \in Due!Rows, NEW f \in Due!Frames,
           ~Claimed(g, k), ClaimStep(c, g, k, r, f)
    PROVE  RemindInv'
<1> USE DEF ClaimStep
<1>1. /\ cleanup' = [cleanup EXCEPT ![c] = f] /\ cleanup \in [Due!Cleanups -> Due!Frames]
      /\ booking \in [Guests -> Due!Rows] /\ k \in {"final", "first"}
  BY DEF Due!Set, RemindInv, RemTyped, Due!Kinds
<1>2. /\ cleanup'[c] = f /\ \A d \in Due!Cleanups \ {c} : cleanup'[d] = cleanup[d]
      /\ cleanup' \in [Due!Cleanups -> Due!Frames]
      /\ booking'[g] = r /\ \A h \in Guests \ {g} : booking'[h] = booking[h]
      /\ booking' \in [Guests -> Due!Rows]
  BY <1>1
<1>3. cleanup[c].clock # None
  BY <1>1 DEF Due!Frames, Due!ReminderIdentities
<1>4. ASSUME NEW h \in Guests
      PROVE  /\ booking'[h].status = booking[h].status /\ booking'[h].term = booking[h].term
             /\ booking'[h].overtaken = booking[h].overtaken /\ booking'[h].moves = booking[h].moves
             /\ booking[h].first # None => booking'[h].first # None
             /\ booking[h].final # None => booking'[h].final # None
  BY <1>2, <1>3
<1>5. RemTyped' /\ RowsGood'
  BY <1>2 DEF RemindInv, RemTyped, RowsGood, RowGood, MarksGood
<1>6. AnswersGood'
  BY <1>1, <1>2, <1>4 DEF RemindInv, AnswersGood
<1>7. ASSUME NEW d \in Due!Cleanups, NEW h \in cleanup'[d].todo PROVE ListGood(d, h)'
  <2>1. /\ h \in Guests /\ h \in cleanup[d].todo /\ cleanup'[d].blank = cleanup[d].blank
        /\ cleanup'[d].clock = cleanup[d].clock
        /\ cleanup'[d].step \in {"final", "pushFinal"} => cleanup[d].step \in {"final", "pushFinal"}
    BY <1>1, <1>2, <1>7 DEF Due!Frames
  <2>2. ListGood(d, h)
    BY <2>1 DEF RemindInv, ListsGood
  <2> QED
    BY <1>4, <2>1, <2>2 DEF ListGood
<1>8. ClaimsGood'
  <2>1. ASSUME NEW h \in Guests, NEW m \in Due!Kinds PROVE CountGood(h, m)'
    <3>1. /\ CountGood(h, m) /\ booking[h].moves \in Nat /\ pushed[h][m] \in Nat
          /\ IsFiniteSet(Pushers(h, m)) /\ Cardinality(Pushers(h, m)) \in Nat
      BY <1>1, PushersFinite DEF RemindInv, ClaimsGood, Due!Rows
    <3>2. Claimed(h, m) => Claimed(h, m)'
      BY <1>4 DEF Claimed
    <3>3. CASE h = g /\ m = k
      <4>1. Pushers(h, m)' = Pushers(h, m) \cup {c} /\ c \notin Pushers(h, m)
        BY <1>1, <1>2, <3>3 DEF Pushers, Pushing
      <4>2. Cardinality(Pushers(h, m)') = Cardinality(Pushers(h, m)) + 1
        BY <3>1, <4>1, FS_AddElement
      <4>3. Claimed(h, m)' /\ ~Claimed(h, m)
        BY <1>1, <1>2, <1>3, <3>3 DEF Claimed
      <4> QED
        BY <1>4, <3>1, <4>2, <4>3 DEF CountGood
    <3>4. CASE ~(h = g /\ m = k)
      <4>1. Pushers(h, m)' = Pushers(h, m)
        BY <1>1, <1>2, <3>4 DEF Pushers, Pushing, Due!Kinds
      <4> QED
        BY <1>4, <3>1, <3>2, <4>1 DEF CountGood
    <3> QED
      BY <3>3, <3>4
  <2>2. \A d \in Due!Cleanups :
           cleanup'[d].step \in {"pushFinal", "pushFirst"} => cleanup'[d].guest \in Guests
    BY <1>2 DEF RemindInv, ClaimsGood
  <2> QED
    BY <2>1, <2>2 DEF RemindInv, ClaimsGood
<1>9. \A h \in Guests : Expected(h)' = Expected(h)
  BY <1>2 DEF Expected
<1>10. TimerGood'
  <2>1. CASE c = Timer
    BY <1>1, <1>2, <1>3, <1>4, <1>9, <2>1 DEF RemindInv, TimerGood
  <2>2. CASE c # Timer
    <3>1. cleanup'[Timer] = cleanup[Timer]
      BY <1>2, <2>2 DEF Due!Cleanups
    <3> QED
      BY <1>4, <1>9, <3>1 DEF RemindInv, TimerGood
  <2> QED
    BY <2>1, <2>2
<1>11. Remembered'
  BY <1>4, <1>9 DEF RemindInv, Remembered
<1> QED
  BY <1>5, <1>6, <1>7, <1>8, <1>10, <1>11 DEF RemindInv, ListsGood

LEMMA FindFinalKeeps ==
    ASSUME Due!ReminderIdentities, Due!ReminderClock, RemindInv, NEW c \in Due!Cleanups,
           Due!FindFinal(c)
    PROVE  RemindInv'
<1> DEFINE due   == {g \in Guests : Due!Awaiting(g) /\ Due!FinalDue(booking[g].term, now)}
           blank == {g \in due : booking[g].first = None}
<1>1. PICK f : f = [Due!Idle EXCEPT !.step = "final", !.clock = now, !.todo = due, !.blank = blank]
  OBVIOUS
<1>2. /\ Due!Set(c, f) /\ UNCHANGED <<now, booking, ran, pushed>> /\ (c = Timer => ~ran)
      /\ now \in Due!Ticks /\ ran \in BOOLEAN
  BY <1>1 DEF Due!FindFinal, RemindInv, RemTyped
<1>3. f \in Due!Frames /\ f.step = "final" /\ f.clock = now /\ f.todo = due /\ f.blank = blank
  BY <1>1, <1>2 DEF Due!Frames, Due!Steps, Due!Idle
<1>4. ASSUME NEW g \in f.todo
      PROVE  /\ booking[g].status # "NONE"
             /\ booking[g].term.opens <= f.clock /\ f.clock <= booking[g].term.closes
             /\ g \notin f.blank => booking[g].first # None
  BY <1>3, <1>4 DEF Due!Awaiting, Due!FinalDue, Due!FirstDue
<1> QED
  BY <1>2, <1>3, <1>4, FrameMoves

\* A candidate that needs no reminder any more is passed over.
LEMMA PassedOver ==
    ASSUME Due!ReminderIdentities, Due!ReminderClock, RemindInv, NEW c \in Due!Cleanups,
           NEW g \in Guests, NEW k \in Due!Kinds,
           cleanup[c].step = k, Due!Set(c, [cleanup[c] EXCEPT !.todo = @ \ {g}]),
           UNCHANGED <<now, booking, ran, pushed>>,
           k = "first" => ~(Expected(g) /\ booking[g].first = None)
    PROVE  RemindInv'
<1>1. PICK f : f = [cleanup[c] EXCEPT !.todo = cleanup[c].todo \ {g}]
  OBVIOUS
<1>2. Due!Set(c, f) /\ cleanup[c] \in Due!Frames /\ ran \in BOOLEAN
  BY <1>1 DEF RemindInv, RemTyped
<1>3. /\ f \in Due!Frames /\ f.step = k /\ f.clock = cleanup[c].clock
      /\ f.blank = cleanup[c].blank
      /\ f.todo = cleanup[c].todo \ {g}
  BY <1>1, <1>2 DEF Due!Frames
<1>4. ASSUME NEW h \in f.todo
      PROVE  /\ booking[h].status # "NONE"
             /\ ~booking[h].overtaken =>
                   /\ booking[h].term.opens <= f.clock /\ f.clock <= booking[h].term.closes
                   /\ f.step = "final" /\ h \notin f.blank => booking[h].first # None
  BY <1>3, <1>4 DEF RemindInv, ListsGood, ListGood
<1>5. c = Timer => /\ f.clock = now /\ ~ran
                   /\ f.step = "first" => \A h \in Guests : Expected(h) /\ booking[h].term.closes = now
                                              /\ booking[h].first = None => h \in f.todo
  BY <1>3 DEF RemindInv, TimerGood, Due!Kinds
<1>6. f.step \in {"first", "final"}
  BY <1>3 DEF Due!Kinds
<1> QED
  BY <1>2, <1>3, <1>4, <1>5, <1>6, FrameMoves

LEMMA ClaimFinalKeeps ==
    ASSUME Due!ReminderIdentities, Due!ReminderClock, RemindInv, NEW c \in Due!Cleanups,
           NEW g \in Guests,
           Due!ClaimFinal(c, g)
    PROVE  RemindInv'
<1>1. /\ cleanup[c].step = "final" /\ g \in cleanup[c].todo /\ UNCHANGED <<now, ran, pushed>>
      /\ booking[g] \in Due!Rows /\ booking \in [Guests -> Due!Rows]
      /\ cleanup[c] \in Due!Frames /\ RowGood(booking[g]) /\ ListGood(c, g)
  BY DEF Due!ClaimFinal, RemindInv, RemTyped, RowsGood, ListsGood
<1>2. ASSUME Due!Set(c, [cleanup[c] EXCEPT !.todo = @ \ {g}]), UNCHANGED booking
      PROVE  RemindInv'
  BY <1>1, <1>2, PassedOver DEF Due!Kinds
<1>3. ASSUME Due!Awaiting(g),
             booking' = [booking EXCEPT ![g].final = cleanup[c].clock,
                            ![g].first = IF g \in cleanup[c].blank THEN cleanup[c].clock ELSE @],
             Due!Set(c, [cleanup[c] EXCEPT !.step = "pushFinal", !.todo = @ \ {g}, !.guest = g])
      PROVE  RemindInv'
  <2>1. PICK t : t = cleanup[c].clock
    OBVIOUS
  <2>2. PICK s : s = IF g \in cleanup[c].blank THEN t ELSE booking[g].first
    OBVIOUS
  <2>3. t \in Due!Ticks /\ t # None /\ s \in Due!Ticks \cup {None}
    BY <1>1, <2>1, <2>2 DEF Due!Frames, Due!ReminderIdentities, Due!Rows
  <2>4. PICK r : r = [booking[g] EXCEPT !.final = t, !.first = s]
    OBVIOUS
  <2>5. PICK f : f = [cleanup[c] EXCEPT !.step = "pushFinal", !.todo = cleanup[c].todo \ {g}, !.guest = g]
    OBVIOUS
  <2>6. booking' = [booking EXCEPT ![g] = r] /\ Due!Set(c, f)
    BY <1>1, <1>3, <2>1, <2>2, <2>4, <2>5
  <2>7. /\ r \in Due!Rows /\ r.status = booking[g].status /\ r.checkedIn = booking[g].checkedIn
        /\ r.term = booking[g].term /\ r.settled = booking[g].settled /\ r.moves = booking[g].moves
        /\ r.overtaken = booking[g].overtaken /\ r.first = s /\ r.final = t
    BY <1>1, <2>3, <2>4 DEF Due!Rows
  <2>8. /\ f \in Due!Frames /\ f.guest = g /\ f.step = "pushFinal" /\ f.clock = t
        /\ f.blank = cleanup[c].blank /\ f.todo = cleanup[c].todo \ {g}
    BY <1>1, <2>1, <2>5 DEF Due!Frames, Due!Steps
  <2>9. ~Claimed(g, "final") /\ r.status = "CONFIRMED" /\ "final" \in Due!Kinds
    BY <1>3, <2>7 DEF Due!Awaiting, Claimed, Due!Kinds
  <2>10. ~r.overtaken => MarksGood(r)
    BY <1>1, <2>1, <2>2, <2>3, <2>7 DEF RowGood, MarksGood, ListGood
  <2>11. RowGood(r)
    BY <1>1, <2>7, <2>9, <2>10 DEF RowGood
  <2>12. ClaimStep(c, g, "final", r, f)
    BY <1>1, <2>1, <2>2, <2>6, <2>7, <2>8, <2>9, <2>11 DEF ClaimStep
  <2> QED
    BY <2>7, <2>8, <2>9, <2>12, ClaimMoves
<1> QED
  BY <1>2, <1>3 DEF Due!ClaimFinal

LEMMA ClaimFirstKeeps ==
    ASSUME Due!ReminderIdentities, Due!ReminderClock, RemindInv, NEW c \in Due!Cleanups,
           NEW g \in Guests,
           Due!ClaimFirst(c, g)
    PROVE  RemindInv'
<1>1. /\ cleanup[c].step = "first" /\ g \in cleanup[c].todo /\ UNCHANGED <<now, ran, pushed>>
      /\ booking[g] \in Due!Rows /\ booking \in [Guests -> Due!Rows]
      /\ cleanup[c] \in Due!Frames /\ RowGood(booking[g]) /\ ListGood(c, g)
  BY DEF Due!ClaimFirst, RemindInv, RemTyped, RowsGood, ListsGood
<1>2. ASSUME ~(Due!Awaiting(g) /\ booking[g].first = None),
             Due!Set(c, [cleanup[c] EXCEPT !.todo = @ \ {g}]), UNCHANGED booking
      PROVE  RemindInv'
  <2>1. ~(Expected(g) /\ booking[g].first = None)
    BY <1>1, <1>2 DEF Expected, Due!Awaiting, RowGood, MarksGood
  <2> QED
    BY <1>1, <1>2, <2>1, PassedOver DEF Due!Kinds
<1>3. ASSUME Due!Awaiting(g), booking[g].first = None,
             booking' = [booking EXCEPT ![g].first = cleanup[c].clock],
             Due!Set(c, [cleanup[c] EXCEPT !.step = "pushFirst", !.todo = @ \ {g}, !.guest = g])
      PROVE  RemindInv'
  <2>1. PICK t : t = cleanup[c].clock
    OBVIOUS
  <2>2. t \in Due!Ticks /\ t # None
    BY <1>1, <2>1 DEF Due!Frames, Due!ReminderIdentities
  <2>3. PICK r : r = [booking[g] EXCEPT !.first = t]
    OBVIOUS
  <2>4. PICK f : f = [cleanup[c] EXCEPT !.step = "pushFirst", !.todo = cleanup[c].todo \ {g}, !.guest = g]
    OBVIOUS
  <2>5. booking' = [booking EXCEPT ![g] = r] /\ Due!Set(c, f)
    BY <1>1, <1>3, <2>1, <2>3, <2>4
  <2>6. /\ r \in Due!Rows /\ r.status = booking[g].status /\ r.checkedIn = booking[g].checkedIn
        /\ r.term = booking[g].term /\ r.settled = booking[g].settled /\ r.moves = booking[g].moves
        /\ r.overtaken = booking[g].overtaken /\ r.first = t /\ r.final = booking[g].final
    BY <1>1, <2>2, <2>3 DEF Due!Rows
  <2>7. /\ f \in Due!Frames /\ f.guest = g /\ f.step = "pushFirst" /\ f.clock = t
        /\ f.blank = cleanup[c].blank /\ f.todo = cleanup[c].todo \ {g}
    BY <1>1, <2>1, <2>4 DEF Due!Frames, Due!Steps
  <2>8. ~Claimed(g, "first") /\ r.status = "CONFIRMED" /\ "first" \in Due!Kinds
    BY <1>3, <2>6 DEF Due!Awaiting, Claimed, Due!Kinds
  <2>9. ~r.overtaken => MarksGood(r)
    BY <1>1, <2>1, <2>2, <2>6 DEF MarksGood, ListGood
  <2>10. RowGood(r)
    BY <1>1, <2>6, <2>8, <2>9 DEF RowGood
  <2>11. ClaimStep(c, g, "first", r, f)
    BY <1>1, <2>1, <2>5, <2>6, <2>7, <2>8, <2>10 DEF ClaimStep
  <2> QED
    BY <2>6, <2>7, <2>8, <2>11, ClaimMoves
<1> QED
  BY <1>2, <1>3 DEF Due!ClaimFirst

LEMMA FinalsDoneKeeps ==
    ASSUME Due!ReminderIdentities, Due!ReminderClock, RemindInv, NEW c \in Due!Cleanups,
           Due!FinalsDone(c)
    PROVE  RemindInv'
<1>1. PICK f : f = [cleanup[c] EXCEPT !.step = "findFirst", !.guest = None]
  OBVIOUS
<1>2. /\ Due!Set(c, f) /\ UNCHANGED <<now, booking, ran, pushed>> /\ cleanup[c].step = "final"
      /\ cleanup[c].todo = {} /\ cleanup[c] \in Due!Frames /\ ran \in BOOLEAN
  BY <1>1 DEF Due!FinalsDone, RemindInv, RemTyped
<1>3. f \in Due!Frames /\ f.step = "findFirst" /\ f.clock = cleanup[c].clock /\ f.todo = {}
  BY <1>1, <1>2 DEF Due!Frames, Due!Steps
<1>4. c = Timer => f.clock = now /\ ~ran
  BY <1>2, <1>3 DEF RemindInv, TimerGood
<1> QED
  BY <1>2, <1>3, <1>4, FrameMoves

LEMMA FindFirstKeeps ==
    ASSUME Due!ReminderIdentities, Due!ReminderClock, RemindInv, NEW c \in Due!Cleanups,
           Due!FindFirst(c)
    PROVE  RemindInv'
<1> DEFINE due == {g \in Guests : /\ Due!Awaiting(g) /\ booking[g].first = None
                                  /\ Due!FirstDue(booking[g].term, cleanup[c].clock)}
<1>1. PICK f : f = [cleanup[c] EXCEPT !.step = "first", !.todo = due]
  OBVIOUS
<1>2. /\ Due!Set(c, f) /\ UNCHANGED <<now, booking, ran, pushed>>
      /\ cleanup[c].step = "findFirst"
      /\ cleanup[c] \in Due!Frames /\ ran \in BOOLEAN
  BY <1>1 DEF Due!FindFirst, RemindInv, RemTyped
<1>3. f \in Due!Frames /\ f.step = "first" /\ f.clock = cleanup[c].clock /\ f.todo = due
  BY <1>1, <1>2 DEF Due!Frames, Due!Steps
<1>4. c = Timer => f.clock = now /\ ~ran /\ cleanup[c].clock = now
  BY <1>2, <1>3 DEF RemindInv, TimerGood
<1>5. ASSUME NEW g \in f.todo
      PROVE  /\ booking[g].status # "NONE"
             /\ booking[g].term.opens <= f.clock /\ f.clock <= booking[g].term.closes
  BY <1>3, <1>5 DEF Due!Awaiting, Due!FirstDue
<1>6. ASSUME c = Timer, NEW g \in Guests, Expected(g), booking[g].term.closes = now,
             booking[g].first = None
      PROVE  g \in f.todo
  <2>1. RowGood(booking[g])
    BY DEF RemindInv, RowsGood
  <2>2. Due!Awaiting(g) /\ booking[g].term \in Due!Terms
    BY <1>6, <2>1 DEF Expected, Due!Awaiting, RowGood, MarksGood
  <2>3. Due!FirstDue(booking[g].term, now)
    BY <1>6, <2>2, TermsGood DEF Due!FirstDue, Due!Near
  <2> QED
    BY <1>3, <1>4, <1>6, <2>2, <2>3
<1> QED
  BY <1>2, <1>3, <1>4, <1>5, <1>6, FrameMoves

LEMMA FirstsDoneKeeps ==
    ASSUME Due!ReminderIdentities, Due!ReminderClock, RemindInv, NEW c \in Due!Cleanups,
           Due!FirstsDone(c)
    PROVE  RemindInv'
<1>1. PICK f : f = Due!Idle
  OBVIOUS
<1>2. /\ Due!Set(c, f) /\ UNCHANGED <<now, booking, pushed>> /\ cleanup[c].step = "first"
      /\ cleanup[c].todo = {} /\ ran' = (ran \/ c = Timer) /\ ran \in BOOLEAN
  BY <1>1 DEF Due!FirstsDone, RemindInv, RemTyped
<1>3. f \in Due!Frames /\ f.step = "idle" /\ f.todo = {}
  BY <1>1 DEF Due!Idle, Due!Frames, Due!Steps, Due!Ticks, Due!ReminderClock
<1>4. c = Timer => \A g \in Guests : Expected(g) /\ booking[g].term.closes = now => booking[g].first # None
  BY <1>2 DEF RemindInv, TimerGood
<1>5. ran' \in BOOLEAN /\ (c # Timer => UNCHANGED ran)
  BY <1>2
<1> QED
  BY <1>2, <1>3, <1>4, <1>5, FrameMoves

LEMMA PushKeeps ==
    ASSUME Due!ReminderIdentities, Due!ReminderClock, RemindInv, NEW c \in Due!Cleanups,
           Due!Push(c)
    PROVE  RemindInv'
<1>1. PICK k \in Due!Kinds, g \in Guests :
          /\ Pushing(c, g, k) /\ pushed' = [pushed EXCEPT ![g][k] = @ + 1]
          /\ Due!Set(c, [cleanup[c] EXCEPT !.step = k, !.guest = None])
          /\ UNCHANGED <<now, booking, ran>>
  <2>1. cleanup[c].guest \in Guests
    BY DEF Due!Push, RemindInv, ClaimsGood
  <2>2. CASE cleanup[c].step = "pushFinal"
    BY <2>1, <2>2 DEF Due!Push, Pushing, Due!Kinds
  <2>3. CASE cleanup[c].step = "pushFirst"
    BY <2>1, <2>3 DEF Due!Push, Pushing, Due!Kinds
  <2> QED
    BY <2>2, <2>3 DEF Due!Push
<1>2. PICK f : f = [cleanup[c] EXCEPT !.step = k, !.guest = None]
  OBVIOUS
<1>3. cleanup \in [Due!Cleanups -> Due!Frames] /\ cleanup' = [cleanup EXCEPT ![c] = f]
  BY <1>1, <1>2 DEF Due!Set, RemindInv, RemTyped
<1>4. /\ f \in Due!Frames /\ f.step = k /\ f.clock = cleanup[c].clock
      /\ f.blank = cleanup[c].blank
      /\ f.todo = cleanup[c].todo /\ k \in {"first", "final"}
  BY <1>2, <1>3 DEF Due!Frames, Due!Steps, Due!Kinds
<1>5. /\ cleanup'[c] = f /\ \A d \in Due!Cleanups \ {c} : cleanup'[d] = cleanup[d]
      /\ cleanup' \in [Due!Cleanups -> Due!Frames]
  BY <1>3, <1>4
<1>6. RemTyped' /\ RowsGood'
  BY <1>1, <1>5 DEF RemindInv, RemTyped, RowsGood, RowGood
<1>7. AnswersGood'
  BY <1>1, <1>4, <1>5 DEF RemindInv, AnswersGood
<1>8. ASSUME NEW d \in Due!Cleanups, NEW h \in cleanup'[d].todo PROVE ListGood(d, h)'
  <2>1. /\ h \in cleanup[d].todo /\ cleanup'[d].blank = cleanup[d].blank
        /\ cleanup'[d].clock = cleanup[d].clock
        /\ cleanup'[d].step \in {"final", "pushFinal"} => cleanup[d].step \in {"final", "pushFinal"}
    BY <1>1, <1>4, <1>5, <1>8 DEF Pushing
  <2> QED
    BY <1>1, <2>1 DEF RemindInv, ListsGood, ListGood
<1>9. /\ pushed' \in [Guests -> [Due!Kinds -> Nat]]
      /\ \A h \in Guests, m \in Due!Kinds :
            pushed'[h][m] = IF h = g /\ m = k THEN pushed[h][m] + 1 ELSE pushed[h][m]
  BY <1>1 DEF RemindInv, ClaimsGood
<1>10. ClaimsGood'
  <2>1. \A d \in Due!Cleanups :
           cleanup'[d].step \in {"pushFinal", "pushFirst"} => cleanup'[d].guest \in Guests
    BY <1>4, <1>5 DEF RemindInv, ClaimsGood
  <2>2. ASSUME NEW h \in Guests, NEW m \in Due!Kinds PROVE CountGood(h, m)'
    <3>1. /\ CountGood(h, m) /\ booking[h].moves \in Nat /\ pushed[h][m] \in Nat
          /\ IsFiniteSet(Pushers(h, m)) /\ Cardinality(Pushers(h, m)) \in Nat
      BY PushersFinite DEF RemindInv, ClaimsGood, RemTyped, Due!Rows
    <3>2. Claimed(h, m)' = Claimed(h, m) /\ booking'[h].moves = booking[h].moves
      BY <1>1 DEF Claimed
    <3>3. CASE h = g /\ m = k
      <4>1. Pushers(h, m)' = Pushers(h, m) \ {c} /\ c \in Pushers(h, m)
        BY <1>1, <1>4, <1>5, <3>3 DEF Pushers, Pushing
      <4>2. Cardinality(Pushers(h, m)') = Cardinality(Pushers(h, m)) - 1
        BY <3>1, <4>1, FS_RemoveElement
      <4> QED
        BY <1>9, <3>1, <3>2, <3>3, <4>2 DEF CountGood
    <3>4. CASE ~(h = g /\ m = k)
      <4>1. Pushers(h, m)' = Pushers(h, m)
        BY <1>1, <1>4, <1>5, <3>4 DEF Pushers, Pushing, Due!Kinds
      <4> QED
        BY <1>9, <3>1, <3>2, <3>4, <4>1 DEF CountGood
    <3> QED
      BY <3>3, <3>4
  <2> QED
    BY <1>9, <2>1, <2>2 DEF ClaimsGood
<1>11. \A h \in Guests : Expected(h)' = Expected(h)
  BY <1>1 DEF Expected
<1>12. TimerGood'
  <2>1. CASE c = Timer
    BY <1>1, <1>4, <1>5, <1>11, <2>1 DEF RemindInv, TimerGood, Pushing
  <2>2. CASE c # Timer
    <3>1. cleanup'[Timer] = cleanup[Timer]
      BY <1>5, <2>2 DEF Due!Cleanups
    <3> QED
      BY <1>1, <1>11, <3>1 DEF RemindInv, TimerGood
  <2> QED
    BY <2>1, <2>2
<1>13. Remembered'
  BY <1>1, <1>11 DEF RemindInv, Remembered
<1> QED
  BY <1>6, <1>7, <1>8, <1>10, <1>12, <1>13 DEF RemindInv, ListsGood

LEMMA CrashKeeps ==
    ASSUME Due!ReminderIdentities, Due!ReminderClock, RemindInv, Due!Crash
    PROVE  RemindInv'
<1>1. UNCHANGED <<now, booking, ran, pushed>> /\ Due!Idle \in Due!Frames
  BY DEF Due!Crash, Due!Idle, Due!Frames, Due!Steps, Due!Ticks, Due!ReminderClock
<1>2. /\ cleanup' \in [Due!Cleanups -> Due!Frames]
      /\ \A c \in Due!Cleanups : cleanup'[c] = Due!Idle /\ cleanup'[c].step = "idle" /\ cleanup'[c].todo = {}
  BY <1>1 DEF Due!Crash, Due!Idle
<1>3. RemTyped' /\ RowsGood' /\ AnswersGood' /\ ListsGood'
  BY <1>1, <1>2 DEF RemindInv, RemTyped, RowsGood, RowGood, AnswersGood, ListsGood
<1>4. ClaimsGood'
  <2>1. ASSUME NEW g \in Guests, NEW k \in Due!Kinds PROVE CountGood(g, k)'
    <3>1. Pushers(g, k)' = {}
      BY <1>2 DEF Pushers, Pushing
    <3>2. /\ CountGood(g, k) /\ booking[g].moves \in Nat /\ pushed[g][k] \in Nat
          /\ Cardinality(Pushers(g, k)) \in Nat
      BY PushersFinite DEF RemindInv, ClaimsGood, RemTyped, Due!Rows
    <3>3. Claimed(g, k)' = Claimed(g, k)
      BY <1>1 DEF Claimed
    <3> QED
      BY <1>1, <3>1, <3>2, <3>3, FS_EmptySet DEF CountGood
  <2> QED
    BY <1>1, <1>2, <2>1 DEF RemindInv, ClaimsGood
<1>5. TimerGood' /\ Remembered'
  BY <1>1, <1>2 DEF RemindInv, TimerGood, Remembered, Expected, Due!Cleanups
<1> QED
  BY <1>3, <1>4, <1>5 DEF RemindInv

LEMMA TickKeeps ==
    ASSUME Due!ReminderIdentities, Due!ReminderClock, RemindInv, Due!Tick
    PROVE  RemindInv'
<1>1. /\ now < LastTick /\ ran /\ cleanup[Timer] = Due!Idle /\ now' = now + 1 /\ ran' = FALSE
      /\ UNCHANGED <<booking, cleanup, pushed>> /\ now \in Due!Ticks
  BY DEF Due!Tick, RemindInv, RemTyped
<1>2. now' \in Due!Ticks /\ now \in Nat /\ \A n \in 0..now : n \in 0..now'
  BY <1>1 DEF Due!Ticks, Due!ReminderClock
<1>3. RemTyped' /\ AnswersGood' /\ ListsGood' /\ ClaimsGood'
  <2>1. RemTyped' /\ AnswersGood' /\ ListsGood'
    BY <1>1, <1>2 DEF RemindInv, RemTyped, AnswersGood, ListsGood, ListGood
  <2>2. ASSUME NEW g \in Guests, NEW k \in Due!Kinds PROVE CountGood(g, k)'
    <3>1. Pushers(g, k)' = Pushers(g, k) /\ Claimed(g, k)' = Claimed(g, k)
      BY <1>1 DEF Pushers, Pushing, Claimed
    <3> QED
      BY <1>1, <3>1 DEF RemindInv, ClaimsGood, CountGood
  <2> QED
    BY <1>1, <2>1, <2>2 DEF RemindInv, ClaimsGood
<1>4. RowsGood'
  BY <1>1, <1>2 DEF RemindInv, RowsGood, RowGood, MarksGood
<1>5. TimerGood'
  BY <1>1 DEF TimerGood, Due!Idle
<1>6. ASSUME NEW g \in Guests, Expected(g)',
             booking'[g].term.closes < now' PROVE booking'[g].first # None
  <2>1. Expected(g) /\ booking[g].term \in Due!Terms
    BY <1>1, <1>6 DEF Expected, RemindInv, RowsGood, RowGood
  <2>2. booking[g].term.closes < now \/ booking[g].term.closes = now
    BY <1>1, <1>2, <1>6, <2>1, TermsGood
  <2> QED
    BY <1>1, <2>1, <2>2 DEF RemindInv, Remembered
<1>7. Remembered'
  BY <1>1, <1>6 DEF Remembered
<1> QED
  BY <1>3, <1>4, <1>5, <1>7 DEF RemindInv

LEMMA NothingReminded ==
    ASSUME RemindInv, UNCHANGED Due!vars
    PROVE  RemindInv'
<1>1. RemTyped' /\ RowsGood' /\ AnswersGood' /\ ListsGood'
  BY DEF Due!vars, RemindInv, RemTyped, RowsGood, RowGood, MarksGood, AnswersGood, ListsGood, ListGood
<1>2. ASSUME NEW g \in Guests, NEW k \in Due!Kinds PROVE CountGood(g, k)'
  <2>1. Pushers(g, k)' = Pushers(g, k) /\ Claimed(g, k)' = Claimed(g, k)
    BY DEF Due!vars, Pushers, Pushing, Claimed
  <2> QED
    BY <2>1 DEF Due!vars, RemindInv, ClaimsGood, CountGood
<1>3. ClaimsGood'
  BY <1>2 DEF Due!vars, RemindInv, ClaimsGood
<1>4. TimerGood' /\ Remembered'
  BY DEF Due!vars, RemindInv, TimerGood, Remembered, Expected
<1> QED
  BY <1>1, <1>3, <1>4 DEF RemindInv

LEMMA RemindInvNext ==
    ASSUME Due!ReminderIdentities, Due!ReminderClock, RemindInv, [Due!Next]_(Due!vars)
    PROVE  RemindInv'
<1>1. ASSUME NEW c \in Due!Cleanups, Due!Clean(c) PROVE RemindInv'
  BY <1>1, FindFinalKeeps, FinalsDoneKeeps, FindFirstKeeps, PushKeeps, FirstsDoneKeeps,
     ClaimFinalKeeps, ClaimFirstKeeps DEF Due!Clean
<1> QED
  BY <1>1, BookKeeps, GuestKeeps, AnswerKeeps, CrashKeeps, TickKeeps, NothingReminded DEF Due!Next

LEMMA RemindInvSays ==
    ASSUME Due!ReminderIdentities, RemindInv
    PROVE  Due!RemindedOnce /\ Due!NobodyForgotten
<1>1. Due!RemindedOnce
  <2> SUFFICES ASSUME NEW g \in Guests, NEW k \in Due!Kinds PROVE pushed[g][k] <= 1 + booking[g].moves
    BY DEF Due!RemindedOnce
  <2>1. /\ CountGood(g, k) /\ booking[g].moves \in Nat /\ pushed[g][k] \in Nat
        /\ Cardinality(Pushers(g, k)) \in Nat
    BY PushersFinite DEF RemindInv, ClaimsGood, RemTyped, Due!Rows
  <2> QED
    BY <2>1 DEF CountGood
<1>2. Due!NobodyForgotten
  BY DEF RemindInv, Remembered, Expected, RowsGood, RowGood, MarksGood, Due!NobodyForgotten
<1> QED
  BY <1>1, <1>2

-----------------------------------------------------------------------------
(* AdminLogin.                                                                 *)

\* What the entry of a key says of the failures since the last success, while so many
\* attempts are under way: a window has no failure beyond its length and fewer after its
\* first than it counts, what is still recent of the window before is what it counted but
\* for its first, and an entry is locked when and only when its count reached the limit.
LoginGood(entry, failures, under, time) ==
    /\ entry.count = 0 => \A f \in failures : f[1] + LoginWindow <= time
    /\ entry.count > 0 =>
          /\ entry.first <= time
          /\ \A f \in failures : f[1] <= entry.first + LoginWindow
          /\ Cardinality({f \in failures : entry.first < f[1]}) <= entry.count - 1
          /\ Cardinality({f \in failures : entry.first <= f[1]}) <= entry.count
          /\ Cardinality({f \in failures : time < f[1] + LoginWindow /\ f[1] < entry.first})
                <= LoginLimit + LoginsAtOnce - 3
    /\ entry.count >= LoginLimit <=> entry.lockedUntil # Admins!NoLock
    /\ entry.lockedUntil # Admins!NoLock =>
          \A f \in failures : f[1] + LoginLock <= entry.lockedUntil
    /\ entry.count + under <= LoginLimit + LoginsAtOnce - 1

LoginsUnderWay == {h \in RacingRequests : trying[h] # {}}
TryingKey(k)   == {h \in RacingRequests : k \in trying[h]}

FailuresGood(k) ==
    /\ IsFiniteSet(tally[k])
    /\ \A f \in tally[k] : f[1] <= now /\ f[2] < Cardinality(tally[k])

LoginInv ==
    /\ Admins!AdminLoginTypes
    /\ Cardinality(LoginsUnderWay) <= LoginsAtOnce
    /\ \A k \in Admins!Keys :
          FailuresGood(k) /\ LoginGood(attempts[k], tally[k], Cardinality(TryingKey(k)), now)

LoginNumbers ==
    /\ LoginsAtOnce \in Nat /\ LoginLimit \in Nat /\ LoginWindow \in Nat /\ LoginLock \in Nat
    /\ LoginTime \in Nat
    /\ LoginLimit >= 2 /\ LoginsAtOnce >= 1 /\ LoginWindow >= 1 /\ LoginWindow <= LoginLock
    /\ IsFiniteSet(RacingRequests)

LEMMA LoginNumbersGiven ==
    ASSUME Admins!AdminLoginBounds
    PROVE  LoginNumbers
BY DEF Admins!AdminLoginBounds, LoginNumbers, Admins!IsFiniteSet, IsFiniteSet

\* The attempts under way are few, and those of a key among them.
LEMMA UnderWay ==
    ASSUME LoginNumbers, NEW k
    PROVE  /\ IsFiniteSet(LoginsUnderWay) /\ IsFiniteSet(TryingKey(k))
           /\ Cardinality(LoginsUnderWay) \in Nat /\ Cardinality(TryingKey(k)) \in Nat
           /\ Cardinality(TryingKey(k)) <= Cardinality(LoginsUnderWay)
<1>1. LoginsUnderWay \subseteq RacingRequests /\ TryingKey(k) \subseteq LoginsUnderWay
  BY DEF LoginsUnderWay, TryingKey
<1> QED
  BY <1>1, FS_Subset, FS_CardinalityType DEF LoginNumbers

LEMMA LoginInvInit ==
    ASSUME Admins!AdminLoginBounds, Admins!Init
    PROVE  LoginInv
<1> USE LoginNumbersGiven
<1>1. Admins!NoEntry \in Admins!Entry /\ 0 \in Admins!Ticks
  BY DEF Admins!NoEntry, Admins!Entry, Admins!Ticks, LoginNumbers
<1>2. Admins!AdminLoginTypes
  BY <1>1 DEF Admins!Init, Admins!AdminLoginTypes
<1>3. LoginsUnderWay = {} /\ \A k \in Admins!Keys : TryingKey(k) = {} /\ tally[k] = {}
  BY DEF Admins!Init, LoginsUnderWay, TryingKey
<1>4. IsFiniteSet({}) /\ Cardinality({}) = 0
  BY FS_EmptySet
<1>5. ASSUME NEW k \in Admins!Keys
      PROVE  FailuresGood(k) /\ LoginGood(attempts[k], tally[k], Cardinality(TryingKey(k)), now)
  <2>1. attempts[k] = Admins!NoEntry
    BY DEF Admins!Init
  <2>2. FailuresGood(k)
    BY <1>3, <1>4 DEF FailuresGood
  <2>3. LoginGood(Admins!NoEntry, {}, 0, now)
    BY DEF LoginGood, Admins!NoEntry, Admins!NoLock, LoginNumbers
  <2> QED
    BY <1>3, <1>4, <2>1, <2>2, <2>3
<1> QED
  BY <1>2, <1>3, <1>4, <1>5 DEF LoginInv, LoginNumbers

\* A failure is written down once.
LEMMA FailureAdded ==
    ASSUME NEW k \in Admins!Keys, tally[k] \subseteq Admins!Failures, FailuresGood(k), now \in Nat,
           now \in Admins!Ticks, NEW f, f = <<now, Cardinality(tally[k])>>
    PROVE  /\ f \notin tally[k] /\ f[1] = now /\ f \in Admins!Failures
           /\ IsFiniteSet(tally[k] \cup {f})
           /\ Cardinality(tally[k] \cup {f}) = Cardinality(tally[k]) + 1
           /\ \A g \in tally[k] \cup {f} : g[1] <= now /\ g[2] < Cardinality(tally[k] \cup {f})
<1>1. Cardinality(tally[k]) \in Nat
  BY FS_CardinalityType DEF FailuresGood
<1>2. f \notin tally[k]
  BY <1>1 DEF FailuresGood
<1>3. IsFiniteSet(tally[k] \cup {f}) /\ Cardinality(tally[k] \cup {f}) = Cardinality(tally[k]) + 1
  BY <1>2, FS_AddElement DEF FailuresGood
<1>4. f[1] = now /\ f[2] = Cardinality(tally[k]) /\ f \in Admins!Failures
  BY <1>1 DEF Admins!Failures
<1>5. PICK n \in Nat : n = Cardinality(tally[k])
  BY <1>1
<1>6. ASSUME NEW g \in tally[k] \cup {f} PROVE g[1] <= now /\ g[2] < n + 1
  <2>1. CASE g \in tally[k]
    BY <1>5, <2>1 DEF FailuresGood, Admins!Failures
  <2>2. CASE g = f
    BY <1>4, <1>5, <2>2
  <2> QED
    BY <2>1, <2>2
<1> QED
  BY <1>2, <1>3, <1>4, <1>5, <1>6

\* A count of some of the failures grows by one at most.
LEMMA OneMore ==
    ASSUME NEW S, NEW T, NEW f, IsFiniteSet(S), T \subseteq S \cup {f}
    PROVE  IsFiniteSet(T) /\ Cardinality(T) \in Nat /\ Cardinality(S) \in Nat
           /\ Cardinality(T) <= Cardinality(S) + 1
<1>1. IsFiniteSet(S \cup {f}) /\ Cardinality(S \cup {f}) <= Cardinality(S) + 1
  <2>1. CASE f \in S
    <3>1. S \cup {f} = S
      BY <2>1
    <3>2. PICK n \in Nat : n = Cardinality(S)
      BY FS_CardinalityType
    <3>3. IsFiniteSet(S \cup {f}) /\ Cardinality(S \cup {f}) = n
      BY <3>1, <3>2
    <3> QED
      BY <3>2, <3>3
  <2>2. CASE f \notin S
    <3>1. PICK n \in Nat : n = Cardinality(S)
      BY FS_CardinalityType
    <3>2. IsFiniteSet(S \cup {f}) /\ Cardinality(S \cup {f}) = n + 1
      BY <2>2, <3>1, FS_AddElement
    <3> QED
      BY <3>1, <3>2
  <2> QED
    BY <2>1, <2>2
<1>2. /\ IsFiniteSet(T) /\ Cardinality(T) <= Cardinality(S \cup {f})
      /\ Cardinality(T) \in Nat /\ Cardinality(S) \in Nat /\ Cardinality(S \cup {f}) \in Nat
  BY <1>1, FS_Subset, FS_CardinalityType
<1> QED
  BY <1>1, <1>2

\* A failure is counted, and the attempt is over: the three ways a window goes on.
LEMMA FailureCounted ==
    ASSUME Admins!AdminLoginBounds, LoginInv, NEW k \in Admins!Keys,
           NEW f, f = <<now, Cardinality(tally[k])>>,
           NEW under \in Nat, under + 1 <= Cardinality(TryingKey(k))
    PROVE  /\ Admins!Counted(k) \in Admins!Entry
           /\ LoginGood(Admins!Counted(k), tally[k] \cup {f}, under, now)
<1> DEFINE F == tally[k]
           G == tally[k] \cup {f}
           next == Admins!Counted(k)
<1>1. LoginNumbers
  BY LoginNumbersGiven
<1>2. /\ attempts[k] \in Admins!Entry /\ F \subseteq Admins!Failures /\ now \in Admins!Ticks
      /\ FailuresGood(k) /\ LoginGood(attempts[k], F, Cardinality(TryingKey(k)), now)
  BY DEF LoginInv, Admins!AdminLoginTypes
<1>3. PICK c \in Nat, s \in Nat, l \in Nat \cup {Admins!NoLock} :
          c = attempts[k].count /\ s = attempts[k].first /\ l = attempts[k].lockedUntil
             /\ s \in Admins!Ticks /\ attempts[k] = [count |-> c, first |-> s, lockedUntil |-> l]
  <2>1. \A t \in Admins!Ticks : t \in Nat
    BY <1>1 DEF Admins!Ticks, LoginNumbers
  <2>2. /\ attempts[k].count \in Nat /\ attempts[k].first \in Admins!Ticks
        /\ attempts[k].lockedUntil \in Nat \cup {Admins!NoLock}
    BY <1>2 DEF Admins!Entry
  <2>3. attempts[k] = [count |-> attempts[k].count, first |-> attempts[k].first,
                       lockedUntil |-> attempts[k].lockedUntil]
    BY <1>2 DEF Admins!Entry
  <2> QED
    BY <2>1, <2>2, <2>3
<1>4. now \in Nat /\ f[1] = now /\ f \in Admins!Failures /\ G \subseteq Admins!Failures
  <2>1. now \in Nat
    BY <1>1, <1>2 DEF Admins!Ticks, LoginNumbers
  <2>2. f[1] = now /\ f \in Admins!Failures
    BY <1>2, <2>1, FailureAdded
  <2> QED
    BY <1>2, <2>1, <2>2
<1>5. PICK m \in Nat : m = Cardinality(TryingKey(k))
  BY <1>1, UnderWay
<1>6. IsFiniteSet(F) /\ \A g \in F : g[1] \in Nat /\ g[1] <= now
  BY <1>1, <1>2 DEF FailuresGood, Admins!Failures, Admins!Ticks, LoginNumbers
<1>7. c + m <= LoginLimit + LoginsAtOnce - 1
  BY <1>2, <1>3, <1>5 DEF LoginGood
<1>8. CASE c = 0 \/ now - s > LoginWindow
  <2>1. next = [count |-> 1, first |-> now, lockedUntil |-> Admins!NoLock]
    BY <1>1, <1>3, <1>8 DEF Admins!Counted, LoginNumbers
  <2>2. next \in Admins!Entry
    BY <1>2, <2>1 DEF Admins!Entry
  <2>3. \A g \in F : g[1] < now
    <3>1. CASE c = 0
      BY <1>1, <1>2, <1>3, <1>4, <1>6, <3>1 DEF LoginGood, LoginNumbers
    <3>2. CASE c # 0
      BY <1>1, <1>2, <1>3, <1>4, <1>6, <1>8, <3>2 DEF LoginGood, LoginNumbers
    <3> QED
      BY <3>1, <3>2
  <2>4. Cardinality({g \in G : now < g[1]}) = 0
    <3>1. {g \in G : now < g[1]} = {}
      BY <1>4, <2>3, <1>6
    <3> QED
      BY <3>1, FS_EmptySet
  <2>5. Cardinality({g \in G : now <= g[1]}) = 1
    <3>1. {g \in G : now <= g[1]} = {f}
      BY <1>4, <2>3, <1>6
    <3> QED
      BY <3>1, FS_Singleton
  <2>6. Cardinality({g \in G : now < g[1] + LoginWindow /\ g[1] < now})
            <= LoginLimit + LoginsAtOnce - 3
    <3> DEFINE Old == {g \in G : now < g[1] + LoginWindow /\ g[1] < now}
    <3>1. CASE c = 0
      <4>1. Old = {}
        BY <1>1, <1>2, <1>3, <1>4, <1>6, <3>1 DEF LoginGood, LoginNumbers
      <4>2. Cardinality(Old) = 0
        BY <4>1, FS_EmptySet
      <4> QED
        BY <1>1, <4>2 DEF LoginNumbers
    <3>2. CASE c # 0
      <4>1. now - s > LoginWindow /\ c > 0
        BY <1>8, <3>2
      <4> DEFINE After == {g \in F : s < g[1]}
      <4>2. Old \subseteq After
        BY <1>1, <1>4, <1>6, <4>1 DEF LoginNumbers
      <4>3. IsFiniteSet(After)
        BY <1>6, FS_Subset
      <4>4. Cardinality(After) <= c - 1
        BY <1>2, <1>3, <4>1 DEF LoginGood
      <4>5. Cardinality(Old) <= Cardinality(After) /\ Cardinality(Old) \in Nat /\ Cardinality(After) \in Nat
        BY <4>2, <4>3, FS_Subset, FS_CardinalityType
      <4>6. c <= LoginLimit + LoginsAtOnce - 2
        BY <1>1, <1>5, <1>7 DEF LoginNumbers
      <4> HIDE DEF Old, After
      <4>7. Cardinality(Old) <= LoginLimit + LoginsAtOnce - 3
        BY <1>1, <4>4, <4>5, <4>6 DEF LoginNumbers
      <4> QED
        BY <4>7 DEF Old
    <3> QED
      BY <3>1, <3>2
  <2>7. \A g \in G : g[1] <= now + LoginWindow
    BY <1>1, <1>4, <1>6 DEF LoginNumbers
  <2>8. 1 + under <= LoginLimit + LoginsAtOnce - 1
    <3>1. m <= LoginsAtOnce
      BY <1>1, <1>5, UnderWay DEF LoginInv, LoginNumbers
    <3> QED
      BY <1>1, <1>5, <3>1 DEF LoginNumbers
  <2>9. LoginGood([count |-> 1, first |-> now, lockedUntil |-> Admins!NoLock], G, under, now)
    <3> HIDE DEF G, F
    <3> QED
      BY <1>1, <1>4, <2>4, <2>5, <2>6, <2>7, <2>8 DEF LoginGood, LoginNumbers, Admins!NoLock
  <2> QED
    BY <2>1, <2>2, <2>9
<1>9. CASE ~(c = 0 \/ now - s > LoginWindow)
  <2>1. PICK u \in Nat \cup {Admins!NoLock} :
            u = IF c + 1 >= LoginLimit THEN now + LoginLock ELSE l
    BY <1>1, <1>3, <1>4 DEF LoginNumbers
  <2>2. next = [count |-> c + 1, first |-> s, lockedUntil |-> u]
    <3>1. attempts[k].count = c /\ attempts[k].first = s
      BY <1>3
    <3>2. [attempts[k] EXCEPT !.count = @ + 1] = [count |-> c + 1, first |-> s, lockedUntil |-> l]
      BY <1>3
    <3> QED
      BY <1>9, <2>1, <3>1, <3>2 DEF Admins!Counted
  <2>3. next \in Admins!Entry
    BY <1>3, <2>1, <2>2 DEF Admins!Entry
  <2>4. c > 0 /\ now <= s + LoginWindow /\ s <= now
    BY <1>1, <1>2, <1>3, <1>4, <1>9 DEF LoginNumbers, LoginGood
  <2>g. /\ c > 0 => Cardinality({g \in F : s < g[1]}) <= c - 1
        /\ c > 0 => Cardinality({g \in F : s <= g[1]}) <= c
        /\ c > 0 => Cardinality({g \in F : now < g[1] + LoginWindow /\ g[1] < s})
                       <= LoginLimit + LoginsAtOnce - 3
    <3> HIDE DEF F
    <3>1. LoginGood([count |-> c, first |-> s, lockedUntil |-> l], F, Cardinality(TryingKey(k)), now)
      BY <1>2, <1>3
    <3> QED
      BY <3>1 DEF LoginGood
  <2>5. Cardinality({g \in G : s < g[1]}) <= c
    <3> DEFINE S == {g \in F : s < g[1]}
               T == {g \in G : s < g[1]}
    <3>1. IsFiniteSet(S) /\ T \subseteq S \cup {f}
      BY <1>6, FS_Subset
    <3>2. Cardinality(S) <= c - 1
      BY <2>4, <2>g
    <3> HIDE DEF S, T
    <3>3. Cardinality(T) \in Nat /\ Cardinality(S) \in Nat /\ Cardinality(T) <= Cardinality(S) + 1
      BY <3>1, OneMore
    <3>4. Cardinality(T) <= c
      BY <3>2, <3>3
    <3> QED
      BY <3>4 DEF T
  <2>6. Cardinality({g \in G : s <= g[1]}) <= c + 1
    <3> DEFINE S == {g \in F : s <= g[1]}
               T == {g \in G : s <= g[1]}
    <3>1. IsFiniteSet(S) /\ T \subseteq S \cup {f}
      BY <1>6, FS_Subset
    <3>2. Cardinality(S) <= c
      BY <2>4, <2>g
    <3> HIDE DEF S, T
    <3>3. Cardinality(T) \in Nat /\ Cardinality(S) \in Nat /\ Cardinality(T) <= Cardinality(S) + 1
      BY <3>1, OneMore
    <3>4. Cardinality(T) <= c + 1
      BY <3>2, <3>3
    <3> QED
      BY <3>4 DEF T
  <2>7. Cardinality({g \in G : now < g[1] + LoginWindow /\ g[1] < s}) <= LoginLimit + LoginsAtOnce - 3
    <3>1. {g \in G : now < g[1] + LoginWindow /\ g[1] < s}
              = {g \in F : now < g[1] + LoginWindow /\ g[1] < s}
      BY <1>4, <2>4
    <3>2. Cardinality({g \in F : now < g[1] + LoginWindow /\ g[1] < s}) <= LoginLimit + LoginsAtOnce - 3
      BY <2>4, <2>g
    <3> QED
      BY <3>1, <3>2
  <2>8. \A g \in G : g[1] <= s + LoginWindow
    BY <1>2, <1>3, <1>4, <2>4 DEF LoginGood
  <2>9. /\ c + 1 >= LoginLimit <=> u # Admins!NoLock
        /\ u # Admins!NoLock => \A g \in G : g[1] + LoginLock <= u
    <3>1. CASE c + 1 >= LoginLimit
      <4>1. u = now + LoginLock
        BY <2>1, <3>1
      <4>2. u # Admins!NoLock
        BY <1>1, <1>4, <4>1 DEF LoginNumbers, Admins!NoLock
      <4>3. \A g \in G : g[1] + LoginLock <= u
        BY <1>1, <1>4, <1>6, <4>1 DEF LoginNumbers
      <4> QED
        BY <3>1, <4>2, <4>3
    <3>2. CASE ~(c + 1 >= LoginLimit)
      <4>1. u = l /\ ~(c >= LoginLimit)
        BY <1>1, <2>1, <3>2 DEF LoginNumbers
      <4>2. u = Admins!NoLock
        BY <1>2, <1>3, <4>1 DEF LoginGood
      <4> QED
        BY <3>2, <4>2
    <3> QED
      BY <3>1, <3>2
  <2>10. c + 1 + under <= LoginLimit + LoginsAtOnce - 1
    BY <1>1, <1>5, <1>7 DEF LoginNumbers
  <2>11. LoginGood([count |-> c + 1, first |-> s, lockedUntil |-> u], G, under, now)
    <3> HIDE DEF G, F
    <3> QED
      BY <2>4, <2>5, <2>6, <2>7, <2>8, <2>9, <2>10 DEF LoginGood
  <2> QED
    BY <2>2, <2>3, <2>11
<1> QED
  BY <1>8, <1>9

\* A failure is a step of the counters alone, of each key that is tried.
LEMMA LoginFails ==
    ASSUME Admins!AdminLoginBounds, LoginInv, NEW h \in RacingRequests, Admins!Failed(h)
    PROVE  LoginInv'
<1>1. LoginNumbers
  BY LoginNumbersGiven
<1>2. /\ trying[h] # {} /\ trying' = [trying EXCEPT ![h] = {}] /\ now' = now
      /\ Admins!AdminLoginTypes
  BY DEF Admins!Failed, Admins!Done, LoginInv
<1>3. ASSUME NEW k \in Admins!Keys
      PROVE  /\ attempts'[k] \in Admins!Entry /\ tally'[k] \subseteq Admins!Failures
             /\ FailuresGood(k)'
             /\ LoginGood(attempts'[k], tally'[k], Cardinality(TryingKey(k)'), now)
  <2>1. CASE k \in trying[h]
    <3>1. PICK f : f = <<now, Cardinality(tally[k])>>
      OBVIOUS
    <3>2. attempts'[k] = Admins!Counted(k) /\ tally'[k] = tally[k] \cup {f}
      BY <2>1, <3>1 DEF Admins!Failed, Admins!Cardinality, Cardinality
    <3>3. /\ TryingKey(k)' = TryingKey(k) \ {h} /\ h \in TryingKey(k)
      BY <1>2, <2>1 DEF TryingKey, Admins!AdminLoginTypes
    <3>4. PICK m \in Nat : m = Cardinality(TryingKey(k)') /\ m + 1 <= Cardinality(TryingKey(k))
      <4>1. IsFiniteSet(TryingKey(k)) /\ Cardinality(TryingKey(k)) \in Nat
        BY <1>1, UnderWay
      <4>2. /\ IsFiniteSet(TryingKey(k)')
            /\ Cardinality(TryingKey(k)') = Cardinality(TryingKey(k)) - 1
        BY <3>3, <4>1, FS_RemoveElement
      <4>3. Cardinality(TryingKey(k)') \in Nat
        BY <4>2, FS_CardinalityType
      <4> QED
        BY <4>1, <4>2, <4>3
    <3>5. LoginGood(attempts'[k], tally'[k], m, now) /\ attempts'[k] \in Admins!Entry
      BY <3>1, <3>2, <3>4, FailureCounted
    <3>6. FailuresGood(k) /\ tally[k] \subseteq Admins!Failures /\ now \in Nat /\ now \in Admins!Ticks
      BY <1>1, <1>2 DEF LoginInv, Admins!AdminLoginTypes, Admins!Ticks, LoginNumbers
    <3>7. FailuresGood(k)' /\ tally'[k] \subseteq Admins!Failures
      <4>1. /\ f \in Admins!Failures /\ IsFiniteSet(tally[k] \cup {f})
            /\ \A g \in tally[k] \cup {f} : g[1] <= now /\ g[2] < Cardinality(tally[k] \cup {f})
        BY <3>1, <3>6, FailureAdded
      <4> QED
        BY <1>2, <3>2, <3>6, <4>1 DEF FailuresGood
    <3> QED
      BY <3>4, <3>5, <3>7
  <2>2. CASE k \notin trying[h]
    <3>1. attempts'[k] = attempts[k] /\ tally'[k] = tally[k]
      BY <2>2 DEF Admins!Failed
    <3>2. TryingKey(k)' = TryingKey(k)
      BY <1>2, <2>2 DEF TryingKey, Admins!AdminLoginTypes
    <3> QED
      BY <1>2, <3>1, <3>2 DEF LoginInv, FailuresGood, Admins!AdminLoginTypes
  <2> QED
    BY <2>1, <2>2
<1>4. /\ attempts' \in [Admins!Keys -> Admins!Entry] /\ tally' \in [Admins!Keys -> SUBSET Admins!Failures]
  <2>1. attempts' = [k \in Admins!Keys |-> attempts'[k]] /\ tally' = [k \in Admins!Keys |-> tally'[k]]
    BY DEF Admins!Failed
  <2> QED
    BY <1>3, <2>1
<1>5. Admins!AdminLoginTypes'
  BY <1>2, <1>4 DEF Admins!AdminLoginTypes
<1>6. Cardinality(LoginsUnderWay') <= LoginsAtOnce
  <2>1. LoginsUnderWay' \subseteq LoginsUnderWay
    BY <1>2 DEF LoginsUnderWay, Admins!AdminLoginTypes
  <2>2. Cardinality(LoginsUnderWay') <= Cardinality(LoginsUnderWay)
    BY <1>1, <2>1, UnderWay, FS_Subset
  <2> QED
    BY <1>1, <2>1, <2>2, UnderWay, FS_Subset, FS_CardinalityType DEF LoginInv, LoginNumbers
<1> QED
  BY <1>2, <1>3, <1>5, <1>6 DEF LoginInv

LEMMA LoginSucceeds ==
    ASSUME Admins!AdminLoginBounds, LoginInv, NEW h \in RacingRequests, Admins!Succeeded(h)
    PROVE  LoginInv'
<1>1. LoginNumbers
  BY LoginNumbersGiven
<1>2. /\ trying' = [trying EXCEPT ![h] = {}] /\ now' = now /\ Admins!AdminLoginTypes
  BY DEF Admins!Succeeded, Admins!Done, LoginInv
<1>3. Admins!NoEntry \in Admins!Entry
  BY <1>1 DEF Admins!NoEntry, Admins!Entry, Admins!Ticks, LoginNumbers
<1>4. Admins!AdminLoginTypes'
  <2>1. /\ attempts' \in [Admins!Keys -> Admins!Entry]
        /\ tally' \in [Admins!Keys -> SUBSET Admins!Failures]
    BY <1>2, <1>3 DEF Admins!Succeeded, Admins!AdminLoginTypes
  <2> QED
    BY <1>2, <2>1 DEF Admins!AdminLoginTypes
<1>5. PICK a \in Nat : a = Cardinality(LoginsUnderWay) /\ a <= LoginsAtOnce
  BY <1>1, UnderWay DEF LoginInv
<1>6. Cardinality(LoginsUnderWay') <= LoginsAtOnce
  <2>1. LoginsUnderWay' \subseteq LoginsUnderWay
    BY <1>2 DEF LoginsUnderWay, Admins!AdminLoginTypes
  <2>2. Cardinality(LoginsUnderWay') <= a /\ Cardinality(LoginsUnderWay') \in Nat
    BY <1>1, <1>5, <2>1, UnderWay, FS_Subset, FS_CardinalityType
  <2> QED
    BY <1>1, <1>5, <2>2 DEF LoginNumbers
<1>7. ASSUME NEW k \in Admins!Keys
      PROVE  /\ FailuresGood(k)'
             /\ LoginGood(attempts'[k], tally'[k], Cardinality(TryingKey(k)'), now)
  <2>1. CASE k \in trying[h]
    <3>1. attempts'[k] = Admins!NoEntry /\ tally'[k] = {}
      BY <2>1 DEF Admins!Succeeded
    <3>2. FailuresGood(k)'
      BY <3>1, FS_EmptySet DEF FailuresGood
    <3>3. PICK m \in Nat : m = Cardinality(TryingKey(k)') /\ m <= LoginsAtOnce
      <4>1. TryingKey(k)' \subseteq LoginsUnderWay
        BY <1>2 DEF TryingKey, LoginsUnderWay, Admins!AdminLoginTypes
      <4>2. Cardinality(TryingKey(k)') <= a /\ Cardinality(TryingKey(k)') \in Nat
        BY <1>1, <1>5, <4>1, UnderWay, FS_Subset, FS_CardinalityType
      <4> QED
        BY <1>1, <1>5, <4>2 DEF LoginNumbers
    <3>4. LoginGood(Admins!NoEntry, {}, m, now)
      BY <1>1, <3>3 DEF LoginGood, Admins!NoEntry, Admins!NoLock, LoginNumbers
    <3> QED
      BY <3>1, <3>2, <3>3, <3>4
  <2>2. CASE k \notin trying[h]
    <3>1. attempts'[k] = attempts[k] /\ tally'[k] = tally[k]
      BY <2>2 DEF Admins!Succeeded
    <3>2. TryingKey(k)' = TryingKey(k)
      BY <1>2, <2>2 DEF TryingKey, Admins!AdminLoginTypes
    <3> QED
      BY <1>2, <3>1, <3>2 DEF LoginInv, FailuresGood
  <2> QED
    BY <2>1, <2>2
<1> QED
  BY <1>2, <1>4, <1>6, <1>7 DEF LoginInv

\* An attempt that is let in finds the keys it tries without a lock, or forgets one that lapsed.
LEMMA LoginBegins ==
    ASSUME Admins!AdminLoginBounds, LoginInv, NEW h \in RacingRequests, NEW e \in RacingEmails,
           NEW a \in Addresses, Admins!Begin(h, e, a)
    PROVE  LoginInv'
<1>1. LoginNumbers
  BY LoginNumbersGiven
<1>2. /\ trying[h] = {} /\ now' = now /\ tally' = tally /\ Admins!AdminLoginTypes
      /\ ~Admins!Locked(e) /\ e \in Admins!Keys /\ a \in Admins!Keys
  BY DEF Admins!Begin, LoginInv, Admins!Keys
<1>3. PICK t : /\ t = {} \/ t = {e, a}
               /\ trying' = [trying EXCEPT ![h] = t]
               /\ t # {} => ~Admins!Locked(a)
  BY DEF Admins!Begin
<1>4. /\ Admins!NoEntry \in Admins!Entry
      /\ t \in {{}} \cup {{g, b} : g \in RacingEmails, b \in Addresses}
  BY <1>1, <1>3 DEF Admins!NoEntry, Admins!Entry, Admins!Ticks, LoginNumbers
<1>5. Admins!AdminLoginTypes'
  <2>1. attempts' \in [Admins!Keys -> Admins!Entry]
    BY <1>2, <1>4 DEF Admins!Begin, Admins!AdminLoginTypes
  <2> DEFINE T == {{}} \cup {{g, b} : g \in RacingEmails, b \in Addresses}
  <2>2. trying' \in [RacingRequests -> T]
    <3>1. trying \in [RacingRequests -> T] /\ t \in T
      BY <1>2, <1>4 DEF Admins!AdminLoginTypes
    <3> HIDE DEF T
    <3> QED
      BY <1>3, <3>1
  <2> QED
    BY <1>2, <2>1, <2>2 DEF Admins!AdminLoginTypes
<1>6. trying'[h] = t /\ \A g \in RacingRequests \ {h} : trying'[g] = trying[g]
  <2>1. DOMAIN trying = RacingRequests
    BY <1>2 DEF Admins!AdminLoginTypes
  <2> QED
    BY <1>3, <2>1
<1>7. \A k \in t : k \in {e, a} /\ ~Admins!Locked(k)
  <2>1. CASE t = {}
    BY <2>1
  <2>2. CASE t = {e, a}
    BY <1>2, <1>3, <2>2
  <2> QED
    BY <1>3, <2>1, <2>2
<1>8. PICK n \in Nat : n = Cardinality(LoginsUnderWay) /\ n < LoginsAtOnce
  <2>1. Cardinality(LoginsUnderWay) < LoginsAtOnce
    BY DEF Admins!Begin, LoginsUnderWay, Admins!Cardinality, Cardinality
  <2> QED
    BY <1>1, <2>1, UnderWay
<1>9. /\ IsFiniteSet(LoginsUnderWay') /\ Cardinality(LoginsUnderWay') \in Nat
      /\ Cardinality(LoginsUnderWay') <= LoginsAtOnce
  <2>1. LoginsUnderWay' \subseteq LoginsUnderWay \cup {h}
    BY <1>6 DEF LoginsUnderWay
  <2>2. IsFiniteSet(LoginsUnderWay)
    BY <1>1, UnderWay
  <2>3. /\ IsFiniteSet(LoginsUnderWay') /\ Cardinality(LoginsUnderWay') \in Nat
        /\ Cardinality(LoginsUnderWay') <= n + 1
    BY <1>8, <2>1, <2>2, OneMore
  <2> QED
    BY <1>1, <1>8, <2>3 DEF LoginNumbers
<1>10. ASSUME NEW k \in Admins!Keys
      PROVE  LoginGood(attempts'[k], tally[k], Cardinality(TryingKey(k)'), now)
  <2> DEFINE under == Cardinality(TryingKey(k)')
  <2>1. under \in Nat /\ under <= LoginsAtOnce
    <3>1. TryingKey(k)' \subseteq LoginsUnderWay'
      BY <1>2, <1>3 DEF TryingKey, LoginsUnderWay, Admins!AdminLoginTypes
    <3>2. under \in Nat /\ under <= Cardinality(LoginsUnderWay')
      BY <1>9, <3>1, FS_Subset, FS_CardinalityType
    <3> QED
      BY <1>1, <1>9, <3>2 DEF LoginNumbers
  <2>2. /\ attempts[k] \in Admins!Entry /\ tally[k] \subseteq Admins!Failures
        /\ LoginGood(attempts[k], tally[k], Cardinality(TryingKey(k)), now) /\ now \in Nat
        /\ \A f \in tally[k] : f[1] \in Nat
    BY <1>1, <1>2 DEF LoginInv, Admins!AdminLoginTypes, Admins!Ticks, LoginNumbers, Admins!Failures
  <2>3. CASE Admins!Unlocked(k) /\ k \in {e, a}
    <3>1. attempts'[k] = Admins!NoEntry
      BY <2>3 DEF Admins!Begin
    <3>2. \A f \in tally[k] : f[1] + LoginLock <= now
      <4>1. attempts[k].lockedUntil \in Nat /\ attempts[k].lockedUntil <= now
        BY <2>2, <2>3 DEF Admins!Unlocked
      <4>2. attempts[k].lockedUntil # Admins!NoLock
        BY <4>1 DEF Admins!NoLock
      <4> QED
        BY <1>1, <2>2, <4>1, <4>2 DEF LoginGood, LoginNumbers
    <3>3. LoginGood(Admins!NoEntry, tally[k], under, now)
      <4> HIDE DEF under
      <4>1. \A f \in tally[k] : f[1] + LoginWindow <= now
        BY <1>1, <2>2, <3>2 DEF LoginNumbers
      <4> QED
        BY <1>1, <2>1, <4>1 DEF LoginGood, Admins!NoEntry, Admins!NoLock, LoginNumbers
    <3> QED
      BY <3>1, <3>3
  <2>4. CASE ~(Admins!Unlocked(k) /\ k \in {e, a})
    <3>1. attempts'[k] = attempts[k]
      BY <2>4 DEF Admins!Begin
    <3>2. CASE k \in t
      <4>1. ~Admins!Locked(k) /\ ~Admins!Unlocked(k)
        BY <1>7, <2>4, <3>2
      <4>2. attempts[k].lockedUntil = Admins!NoLock
        BY <2>2, <4>1 DEF Admins!Locked, Admins!Unlocked, Admins!Entry
      <4>3. attempts[k].count \in Nat /\ ~(attempts[k].count >= LoginLimit)
        BY <2>2, <4>2 DEF LoginGood, Admins!Entry
      <4>4. attempts[k].count + under <= LoginLimit + LoginsAtOnce - 1
        <5> HIDE DEF under
        <5> QED
          BY <1>1, <2>1, <4>3 DEF LoginNumbers
      <4> QED
        BY <2>2, <3>1, <4>4 DEF LoginGood
    <3>3. CASE k \notin t
      <4>1. TryingKey(k)' = TryingKey(k)
        BY <1>2, <1>6, <3>3 DEF TryingKey
      <4> QED
        BY <2>2, <3>1, <4>1
    <3> QED
      BY <3>2, <3>3
  <2> QED
    BY <2>3, <2>4
<1>11. ASSUME NEW k \in Admins!Keys PROVE FailuresGood(k)'
  BY <1>2 DEF LoginInv, FailuresGood
<1> QED
  BY <1>2, <1>5, <1>9, <1>10, <1>11 DEF LoginInv

LEMMA LoginTicks ==
    ASSUME Admins!AdminLoginBounds, LoginInv, Admins!Tick
    PROVE  LoginInv'
<1>1. LoginNumbers
  BY LoginNumbersGiven
<1>2. now < LoginTime /\ now' = now + 1 /\ UNCHANGED <<attempts, tally, trying>> /\ Admins!AdminLoginTypes
  BY DEF Admins!Tick, LoginInv
<1>3. now \in Nat /\ now' \in Admins!Ticks
  BY <1>1, <1>2 DEF Admins!AdminLoginTypes, Admins!Ticks, LoginNumbers
<1>4. Admins!AdminLoginTypes'
  BY <1>2, <1>3 DEF Admins!AdminLoginTypes
<1>5. UNCHANGED LoginsUnderWay /\ \A k : UNCHANGED TryingKey(k)
  BY <1>2 DEF LoginsUnderWay, TryingKey
<1>6. ASSUME NEW k \in Admins!Keys
      PROVE  FailuresGood(k)' /\ LoginGood(attempts[k], tally[k], Cardinality(TryingKey(k)), now')
  <2>1. FailuresGood(k) /\ tally[k] \subseteq Admins!Failures /\ \A f \in tally[k] : f[1] \in Nat
    BY <1>1, <1>2 DEF LoginInv, Admins!AdminLoginTypes, Admins!Failures, Admins!Ticks, LoginNumbers
  <2>2. FailuresGood(k)'
    BY <1>2, <1>3, <2>1 DEF FailuresGood
  <2>3. LoginGood(attempts[k], tally[k], Cardinality(TryingKey(k)), now)
    BY DEF LoginInv
  <2>4. attempts[k].count \in Nat /\ attempts[k].first \in Nat
    BY <1>1, <1>2 DEF Admins!AdminLoginTypes, Admins!Entry, Admins!Ticks, LoginNumbers
  <2>5. attempts[k].count = 0 => \A f \in tally[k] : f[1] + LoginWindow <= now'
    BY <1>1, <1>2, <1>3, <2>1, <2>3 DEF LoginGood, LoginNumbers
  <2> DEFINE Old(n) == {f \in tally[k] : n < f[1] + LoginWindow /\ f[1] < attempts[k].first}
  <2>6. attempts[k].count > 0 => Cardinality(Old(now')) <= LoginLimit + LoginsAtOnce - 3
    <3>1. IsFiniteSet(Old(now)) /\ Old(now') \subseteq Old(now)
      <4>1. Old(now') \subseteq Old(now)
        BY <1>1, <1>2, <1>3, <2>1 DEF LoginNumbers
      <4>2. Old(now) \subseteq tally[k] /\ IsFiniteSet(tally[k])
        BY <2>1 DEF FailuresGood
      <4> QED
        BY <4>1, <4>2, FS_Subset
    <3>2. Cardinality(Old(now')) \in Nat /\ Cardinality(Old(now)) \in Nat
            /\ Cardinality(Old(now')) <= Cardinality(Old(now))
      BY <3>1, FS_Subset, FS_CardinalityType
    <3>3. attempts[k].count > 0 => Cardinality(Old(now)) <= LoginLimit + LoginsAtOnce - 3
      BY <2>3 DEF LoginGood
    <3> HIDE DEF Old
    <3> QED
      BY <1>1, <3>2, <3>3 DEF LoginNumbers
  <2>7. attempts[k].count > 0 => attempts[k].first <= now'
    BY <1>2, <1>3, <2>3, <2>4 DEF LoginGood
  <2>8. LoginGood(attempts[k], tally[k], Cardinality(TryingKey(k)), now')
    BY <2>3, <2>5, <2>6, <2>7 DEF LoginGood
  <2> QED
    BY <2>2, <2>8
<1> QED
  BY <1>1, <1>2, <1>4, <1>5, <1>6 DEF LoginInv

LEMMA LoginInvNext ==
    ASSUME Admins!AdminLoginBounds, LoginInv, [Admins!Next]_(Admins!vars)
    PROVE  LoginInv'
<1>1. CASE UNCHANGED Admins!vars
  <2>1. UNCHANGED <<now, attempts, tally, trying>>
    BY <1>1 DEF Admins!vars
  <2>2. UNCHANGED LoginsUnderWay /\ \A k : UNCHANGED TryingKey(k)
    BY <2>1 DEF LoginsUnderWay, TryingKey
  <2>3. Admins!AdminLoginTypes' /\ \A k \in Admins!Keys : FailuresGood(k)'
    BY <2>1 DEF LoginInv, Admins!AdminLoginTypes, FailuresGood
  <2> QED
    BY <2>1, <2>2, <2>3 DEF LoginInv
<1> QED
  BY <1>1, LoginBegins, LoginFails, LoginSucceeds, LoginTicks DEF Admins!Next

\* What is recent of the window under way and of the one before is all there is.
LEMMA LoginInvSays ==
    ASSUME Admins!AdminLoginBounds, LoginInv
    PROVE  Admins!FailuresBounded
<1> SUFFICES ASSUME NEW k \in Admins!Keys
             PROVE  Cardinality(Admins!Recent(k)) <= 2 * (LoginLimit + LoginsAtOnce - 2)
  BY DEF Admins!FailuresBounded, Admins!Cardinality, Cardinality
<1> DEFINE c == attempts[k].count
           s == attempts[k].first
<1>1. LoginNumbers
  BY LoginNumbersGiven
<1>2. /\ attempts[k] \in Admins!Entry /\ tally[k] \subseteq Admins!Failures /\ now \in Nat
      /\ FailuresGood(k) /\ LoginGood(attempts[k], tally[k], Cardinality(TryingKey(k)), now)
      /\ \A f \in tally[k] : f[1] \in Nat
  BY <1>1 DEF LoginInv, Admins!AdminLoginTypes, Admins!Ticks, LoginNumbers, Admins!Failures
<1>3. c \in Nat /\ s \in Nat
  BY <1>1, <1>2 DEF Admins!Entry, Admins!Ticks, LoginNumbers
<1>4. CASE c = 0
  <2>1. Admins!Recent(k) = {}
    BY <1>1, <1>2, <1>4 DEF LoginGood, Admins!Recent, LoginNumbers
  <2>2. Cardinality(Admins!Recent(k)) = 0
    BY <2>1, FS_EmptySet
  <2> QED
    BY <1>1, <2>2 DEF LoginNumbers
<1>5. CASE c > 0
  <2> DEFINE Old == {f \in tally[k] : now < f[1] + LoginWindow /\ f[1] < s}
             New == {f \in tally[k] : s <= f[1]}
  <2>1. Admins!Recent(k) \subseteq Old \cup New
    BY <1>1, <1>2, <1>3 DEF Admins!Recent, LoginNumbers
  <2>2. Cardinality(Old) <= LoginLimit + LoginsAtOnce - 3 /\ Cardinality(New) <= c
    BY <1>2, <1>5 DEF LoginGood
  <2>3. IsFiniteSet(Old) /\ IsFiniteSet(New)
    BY <1>2, FS_Subset DEF FailuresGood
  <2>4. c <= LoginLimit + LoginsAtOnce - 1
    <3>1. PICK m \in Nat : m = Cardinality(TryingKey(k))
      BY <1>1, UnderWay
    <3>2. c + m <= LoginLimit + LoginsAtOnce - 1
      BY <1>2, <3>1 DEF LoginGood
    <3> HIDE DEF c
    <3> QED
      BY <1>1, <1>3, <3>1, <3>2 DEF LoginNumbers
  <2> HIDE DEF Old, New, c
  <2>5. PICK o \in Nat, n \in Nat : o = Cardinality(Old) /\ n = Cardinality(New)
    BY <2>3, FS_CardinalityType
  <2>6. IsFiniteSet(Old \cup New) /\ Cardinality(Old \cup New) <= o + n
          /\ Cardinality(Old \cup New) \in Nat
    <3>1. PICK i \in Nat : i = Cardinality(Old \cap New)
      BY <2>3, FS_Intersection, FS_CardinalityType
    <3>2. IsFiniteSet(Old \cup New) /\ Cardinality(Old \cup New) = o + n - i
      BY <2>3, <2>5, <3>1, FS_Union
    <3>3. Cardinality(Old \cup New) \in Nat
      BY <3>2, FS_CardinalityType
    <3> QED
      BY <2>5, <3>1, <3>2, <3>3
  <2>7. Cardinality(Admins!Recent(k)) <= Cardinality(Old \cup New)
          /\ Cardinality(Admins!Recent(k)) \in Nat
    BY <2>1, <2>6, FS_Subset, FS_CardinalityType
  <2> QED
    BY <1>1, <1>3, <2>2, <2>4, <2>5, <2>6, <2>7 DEF LoginNumbers
<1> QED
  BY <1>3, <1>4, <1>5

-----------------------------------------------------------------------------
(* LayoutReview: numbers and steps.                                            *)

\* A set of numbers that is not empty has a least one.
LEMMA LeastIs ==
    ASSUME NEW S \in SUBSET Nat, S # {}
    PROVE  Layouts!Least(S) \in S /\ \A m \in S : Layouts!Least(S) <= m
<1>1. PICK n \in S : TRUE
  OBVIOUS
<1> DEFINE T == {0..m : m \in {k \in S : k <= n}}
<1>2. IsFiniteSet(0..n)
  BY FS_Interval
<1>3. T # {} /\ \A A \in T : A \subseteq 0..n
  <2>1. ASSUME NEW m \in S, m <= n PROVE 0..m \subseteq 0..n
    BY <1>1, <2>1
  <2>2. 0..n \in T
    BY <1>1
  <2> QED
    BY <2>1, <2>2
<1>4. PICK A \in T : \A B \in T : B \subseteq A => B = A
  <2> HIDE DEF T
  <2>1. Later!IsFiniteSet(0..n)
    BY <1>2 DEF Later!IsFiniteSet, IsFiniteSet
  <2> QED
    BY <1>3, <2>1, Later!Minimal
<1>5. PICK m \in S : m <= n /\ A = 0..m
  OBVIOUS
<1>6. ASSUME NEW k \in S, k < m PROVE FALSE
  <2>1. 0..k \in T /\ 0..k \subseteq 0..m /\ m \in 0..m /\ m \notin 0..k
    BY <1>5, <1>6
  <2> QED
    BY <1>4, <1>5, <2>1
<1>7. \A k \in S : m <= k
  BY <1>6
<1> QED
  BY <1>7 DEF Layouts!Least

\* Induction up to n, over a set.
LEMMA Climbs ==
    ASSUME NEW n \in Nat, NEW P, 0 \in P, \A i \in 1..n : i - 1 \in P => i \in P
    PROVE  \A i \in 0..n : i \in P
<1> DEFINE S == {i \in 0..n : i \notin P}
<1> SUFFICES ASSUME S # {} PROVE FALSE
  OBVIOUS
<1>1. PICK i \in S : \A m \in S : i <= m
  <2>1. S \in SUBSET Nat
    OBVIOUS
  <2> HIDE DEF S
  <2> QED
    BY <2>1, LeastIs
<1>2. i \in 1..n /\ i - 1 \in 0..n /\ ~(i <= i - 1)
  BY <1>1
<1>3. i - 1 \in P
  BY <1>1, <1>2
<1> QED
  BY <1>2, <1>3

\* g goes from `base` to n by these steps.
Follows(g, n, base, next) == g[0] = base /\ \A i \in 1..n : g[i] = next[i][g[i - 1]]

\* A function that is defined by steps from 0 to n exists.
LEMMA StepsTaken ==
    ASSUME NEW n \in Nat, NEW A, NEW base \in A, NEW next \in [1..n -> [A -> A]]
    PROVE  \E g \in [0..n -> A] : Follows(g, n, base, next)
<1> DEFINE Good(g, k) == g[0] = base /\ \A i \in 1..k : g[i] = next[i][g[i - 1]]
           P == {k \in 0..n : \E g \in [0..k -> A] : Good(g, k)}
<1>1. 0 \in P
  <2>1. [k \in 0..0 |-> base] \in [0..0 -> A] /\ Good([k \in 0..0 |-> base], 0)
    OBVIOUS
  <2>2. 0 \in 0..n
    OBVIOUS
  <2> HIDE DEF Good
  <2> QED
    BY <2>1, <2>2
<1>2. ASSUME NEW k \in 1..n, k - 1 \in P PROVE k \in P
  <2>1. PICK g \in [0..(k - 1) -> A] : Good(g, k - 1)
    BY <1>2
  <2> DEFINE f == [i \in 0..k |-> IF i = k THEN next[k][g[k - 1]] ELSE g[i]]
  <2>2. k \in Nat /\ k > 0 /\ k - 1 \in 0..(k - 1) /\ k \in 0..n
    OBVIOUS
  <2>3. g[k - 1] \in A /\ next[k][g[k - 1]] \in A
    BY <2>2
  <2>4. f \in [0..k -> A]
    <3>1. ASSUME NEW i \in 0..k, i # k PROVE i \in 0..(k - 1)
      BY <3>1
    <3> QED
      BY <2>3, <3>1
  <2>5. f[0] = base
    BY <2>1, <2>2
  <2>6. ASSUME NEW i \in 1..k PROVE f[i] = next[i][f[i - 1]]
    <3>1. i - 1 \in 0..k /\ i - 1 # k /\ i \in 0..k /\ f[i - 1] = g[i - 1]
      OBVIOUS
    <3>2. i # k => i \in 1..(k - 1) /\ f[i] = g[i] /\ g[i] = next[i][g[i - 1]]
      BY <2>1, <2>6, <3>1
    <3>3. i = k => f[i] = next[i][g[i - 1]]
      BY <3>1
    <3> QED
      BY <3>1, <3>2, <3>3
  <2> QED
    BY <2>2, <2>4, <2>5, <2>6
<1>3. n \in P
  <2> HIDE DEF P
  <2>1. \A k \in 1..n : k - 1 \in P => k \in P
    BY <1>2
  <2>2. \A k \in 0..n : k \in P
    BY <1>1, <2>1, Climbs
  <2> QED
    BY <2>2
<1> QED
  BY <1>3 DEF Follows

\* A name made unique is new, and one that was is kept.
LEMMA NextUniqueNew ==
    ASSUME NEW base \in Layouts!TableIds, NEW used, IsFiniteSet(used)
    PROVE  /\ Layouts!NextUnique(base, used) \in Layouts!TableIds
           /\ Layouts!NextUnique(base, used) \notin used
<1> DEFINE c == Cardinality(used)
           Free == {n \in 2..(c + 2) : Append(base, n) \notin used}
<1>1. Layouts!NextUnique(base, used)
          = IF base \notin used THEN base ELSE Append(base, Layouts!Least(Free))
  BY DEF Layouts!NextUnique, Layouts!Cardinality, Cardinality
<1>2. c \in Nat
  BY FS_CardinalityType
<1>3. Free # {}
  <2>1. SUFFICES ASSUME Free = {} PROVE FALSE
    OBVIOUS
  <2> DEFINE f == [n \in 2..(c + 2) |-> Append(base, n)]
  <2>2. f \in [2..(c + 2) -> used]
    BY <2>1
  <2>3. IsFiniteSet(2..(c + 2)) /\ Cardinality(2..(c + 2)) = c + 1
    <3> HIDE DEF c
    <3> QED
      BY <1>2, FS_Interval
  <2>4. PICK m, n \in 2..(c + 2) : m # n /\ f[m] = f[n]
    <3>1. c < c + 1
      BY <1>2
    <3> HIDE DEF f
    <3> QED
      BY <2>2, <2>3, <3>1, FS_PigeonHole
  <2>5. Append(base, m) = Append(base, n)
    BY <2>4
  <2>6. m = n
    <3>1. /\ Append(base, m)[Len(base) + 1] = m /\ Append(base, n)[Len(base) + 1] = n
      BY DEF Layouts!TableIds
    <3> QED
      BY <2>5, <3>1
  <2> QED
    BY <2>4, <2>6
<1>4. Layouts!Least(Free) \in Free
  <2>1. Free \in SUBSET Nat
    BY <1>2
  <2> HIDE DEF Free
  <2> QED
    BY <1>3, <2>1, LeastIs
<1>5. Append(base, Layouts!Least(Free)) \notin used /\ Append(base, Layouts!Least(Free)) \in Layouts!TableIds
  <2>1. Layouts!Least(Free) \in Nat
    BY <1>2, <1>4
  <2>2. Append(base, Layouts!Least(Free)) \notin used
    BY <1>4
  <2> HIDE DEF Free
  <2> QED
    BY <2>1, <2>2 DEF Layouts!TableIds
<1> HIDE DEF Free
<1> QED
  BY <1>1, <1>5

LEMMA UniqueIdNew ==
    ASSUME NEW id \in Layouts!TableIds, NEW label \in RoomNames, NEW used, IsFiniteSet(used)
    PROVE  /\ Layouts!UniqueId(id, label, used) \in Layouts!TableIds
           /\ Layouts!UniqueId(id, label, used) \notin used
           /\ id \notin used => Layouts!UniqueId(id, label, used) = id
<1>1. <<label>> \o id \in Layouts!TableIds
  BY DEF Layouts!TableIds
<1> DEFINE base == IF id \in used THEN <<label>> \o id ELSE id
<1>2. base \in Layouts!TableIds
  BY <1>1
<1>3. Layouts!NextUnique(base, used) \in Layouts!TableIds /\ Layouts!NextUnique(base, used) \notin used
  <2> HIDE DEF base
  <2> QED
    BY <1>2, NextUniqueNew
<1>4. id \notin used => Layouts!NextUnique(base, used) = id
  BY DEF Layouts!NextUnique
<1> QED
  BY <1>3, <1>4 DEF Layouts!UniqueId

-----------------------------------------------------------------------------
(* Names of tables.                                                            *)

FewNames(used) == used \in SUBSET Layouts!TableIds /\ IsFiniteSet(used)

\* The name the j-th table of a room gets.
NewId(room, used, j) == Layouts!UniqueId(room.tables[j].id, room.label, Layouts!TakenInRoom(room, used)[j - 1])

\* usedTableIds, step by step.
LEMMA TakenStepwise ==
    ASSUME NEW room \in Layouts!Rooms, NEW used, FewNames(used)
    PROVE  /\ Layouts!TakenInRoom(room, used)[0] = used
           /\ \A j \in 1..Len(room.tables) :
                 Layouts!TakenInRoom(room, used)[j]
                     = Layouts!TakenInRoom(room, used)[j - 1] \cup {NewId(room, used, j)}
<1> DEFINE n == Len(room.tables)
           A == {S \in SUBSET Layouts!TableIds : IsFiniteSet(S)}
           Id(S, j) == Layouts!UniqueId(room.tables[j].id, room.label, S)
           next == [j \in 1..n |-> [S \in A |-> S \cup {Id(S, j)}]]
           F(g) == [j \in 0..n |-> IF j = 0 THEN used ELSE g[j - 1] \cup {Id(g[j - 1], j)}]
<1>1. n \in Nat /\ used \in A
  BY DEF Layouts!Rooms, FewNames
<1>2. next \in [1..n -> [A -> A]]
  <2>1. ASSUME NEW S \in A, NEW j \in 1..n PROVE S \cup {Id(S, j)} \in A
    <3>1. room.tables \in Seq(Layouts!Tables) /\ room.label \in RoomNames
      BY DEF Layouts!Rooms
    <3>2. room.tables[j] \in Layouts!Tables
      BY <3>1
    <3>3. room.tables[j].id \in Layouts!TableIds
      BY <3>2 DEF Layouts!Tables
    <3>4. Id(S, j) \in Layouts!TableIds /\ IsFiniteSet(S)
      BY <3>1, <3>3, UniqueIdNew
    <3> HIDE DEF Id
    <3>5. IsFiniteSet(S \cup {Id(S, j)})
      BY <3>4, FS_AddElement
    <3> QED
      BY <3>4, <3>5
  <2> HIDE DEF A, n, Id
  <2> QED
    BY <2>1
<1>3. PICK g \in [0..n -> A] : Follows(g, n, used, next)
  <2>1. n \in Nat
    BY <1>1
  <2>2. used \in A
    BY <1>1
  <2> HIDE DEF next, A, n
  <2> QED
    BY <1>2, <2>1, <2>2, StepsTaken
<1>4. g = F(g)
  <2>1. ASSUME NEW j \in 0..n PROVE g[j] = F(g)[j]
    <3>1. CASE j = 0
      BY <1>3, <3>1 DEF Follows
    <3>2. CASE j # 0
      <4>1. j \in 1..n /\ j - 1 \in 0..n
        BY <1>1, <3>2
      <4>2. g[j] = next[j][g[j - 1]] /\ g[j - 1] \in A
        BY <1>3, <4>1 DEF Follows
      <4> HIDE DEF A, n, Id
      <4> QED
        BY <3>2, <4>1, <4>2
    <3> QED
      BY <3>1, <3>2
  <2> HIDE DEF A, n, Id
  <2> QED
    BY <1>3, <2>1
<1> DEFINE t == Layouts!TakenInRoom(room, used)
<1>5. t = CHOOSE f : f = F(f)
  BY DEF Layouts!TakenInRoom
<1>6. t = F(t)
  <2> HIDE DEF F, t
  <2> QED
    BY <1>4, <1>5
<1>7. \A j \in 1..n : NewId(room, used, j) = Id(t[j - 1], j)
  BY DEF NewId
<1> HIDE DEF t, Id, n
<1>8. t[0] = used
  BY <1>1, <1>6
<1>9. ASSUME NEW j \in 1..n PROVE t[j] = t[j - 1] \cup {NewId(room, used, j)}
  <2>1. j \in 0..n /\ j # 0
    BY <1>1
  <2> QED
    BY <1>6, <1>7, <2>1
<1> QED
  BY <1>8, <1>9 DEF t, n

\* A function on 1..n is a sequence.
LEMMA Listed ==
    ASSUME NEW S, NEW n \in Nat, NEW f \in [1..n -> S]
    PROVE  f \in Seq(S) /\ Len(f) = n /\ DOMAIN f = 1..n
OBVIOUS

\* What is taken is what was, and the names of the tables so far.
LEMMA TakenSoFar ==
    ASSUME NEW room \in Layouts!Rooms, NEW used, FewNames(used)
    PROVE  \A j \in 0..Len(room.tables) :
              /\ Layouts!TakenInRoom(room, used)[j] = used \cup {NewId(room, used, k) : k \in 1..j}
              /\ FewNames(Layouts!TakenInRoom(room, used)[j])
<1> DEFINE n == Len(room.tables)
           t == Layouts!TakenInRoom(room, used)
           P == {j \in 0..n : t[j] = used \cup {NewId(room, used, k) : k \in 1..j} /\ FewNames(t[j])}
<1>1. n \in Nat
  BY DEF Layouts!Rooms
<1>2. t[0] = used /\ \A j \in 1..n : t[j] = t[j - 1] \cup {NewId(room, used, j)}
  BY TakenStepwise
<1>3. 0 \in P
  <2>1. {NewId(room, used, k) : k \in 1..0} = {} /\ 0 \in 0..n
    BY <1>1
  <2> HIDE DEF t, n
  <2> QED
    BY <1>2, <2>1
<1>4. ASSUME NEW j \in 1..n, j - 1 \in P PROVE j \in P
  <2>1. room.tables[j].id \in Layouts!TableIds /\ room.label \in RoomNames
    <3>1. room.tables \in Seq(Layouts!Tables) /\ room.label \in RoomNames
      BY DEF Layouts!Rooms
    <3>2. room.tables[j] \in Layouts!Tables
      BY <3>1
    <3> QED
      BY <3>1, <3>2 DEF Layouts!Tables
  <2>2. FewNames(t[j - 1]) /\ t[j - 1] = used \cup {NewId(room, used, k) : k \in 1..(j - 1)}
    BY <1>4
  <2>3. NewId(room, used, j) \in Layouts!TableIds
    BY <2>1, <2>2, UniqueIdNew DEF NewId, FewNames
  <2>4. t[j] = t[j - 1] \cup {NewId(room, used, j)}
    BY <1>2
  <2> HIDE DEF t, n
  <2>5. FewNames(t[j])
    <3>1. IsFiniteSet(t[j - 1]) /\ t[j - 1] \subseteq Layouts!TableIds
      BY <2>2 DEF FewNames
    <3>2. IsFiniteSet(t[j])
      BY <2>4, <3>1, FS_AddElement
    <3>3. t[j] \subseteq Layouts!TableIds
      BY <2>3, <2>4, <3>1
    <3> QED
      BY <3>2, <3>3 DEF FewNames
  <2>6. 1..j = (1..(j - 1)) \cup {j}
    BY <1>1
  <2>7. t[j] = used \cup {NewId(room, used, k) : k \in 1..j}
    BY <2>2, <2>4, <2>6
  <2>8. j \in 0..n
    BY <1>1
  <2> QED
    BY <2>5, <2>7, <2>8
<1> HIDE DEF P
<1>5. \A j \in 0..n : j \in P
  BY <1>1, <1>3, <1>4, Climbs
<1> QED
  BY <1>5 DEF P

\* Every table of a room gets a name nothing else has.
LEMMA NewIdsNew ==
    ASSUME NEW room \in Layouts!Rooms, NEW used, FewNames(used), NEW j \in 1..Len(room.tables)
    PROVE  /\ NewId(room, used, j) \in Layouts!TableIds \ used
           /\ \A k \in 1..(j - 1) : NewId(room, used, k) # NewId(room, used, j)
           /\ room.tables[j].id \notin used \cup {NewId(room, used, k) : k \in 1..(j - 1)}
                 => NewId(room, used, j) = room.tables[j].id
<1>1. room.tables[j].id \in Layouts!TableIds /\ room.label \in RoomNames /\ j - 1 \in 0..Len(room.tables)
  <2>1. room.tables \in Seq(Layouts!Tables) /\ room.label \in RoomNames
    BY DEF Layouts!Rooms
  <2>2. room.tables[j] \in Layouts!Tables
    BY <2>1
  <2> QED
    BY <2>1, <2>2 DEF Layouts!Tables
<1> DEFINE T == Layouts!TakenInRoom(room, used)[j - 1]
<1>2. T = used \cup {NewId(room, used, k) : k \in 1..(j - 1)} /\ FewNames(T)
  BY <1>1, TakenSoFar
<1>3. /\ NewId(room, used, j) \in Layouts!TableIds /\ NewId(room, used, j) \notin T
      /\ room.tables[j].id \notin T => NewId(room, used, j) = room.tables[j].id
  BY <1>1, <1>2, UniqueIdNew DEF NewId, FewNames
<1> HIDE DEF T
<1> QED
  BY <1>2, <1>3

\* A room with its tables renamed is the same but for the names.
LEMMA RenamedRoom ==
    ASSUME NEW room \in Layouts!Rooms, NEW used, FewNames(used),
           NEW new, new = Layouts!Renamed(room, used)
    PROVE  /\ new \in Layouts!Rooms /\ new.label = room.label /\ new.hidden = room.hidden
           /\ Len(new.tables) = Len(room.tables)
           /\ \A j \in 1..Len(room.tables) :
                 /\ new.tables[j].id = NewId(room, used, j)
                 /\ new.tables[j].photo = room.tables[j].photo
                 /\ new.tables[j].chinChin = room.tables[j].chinChin
<1> DEFINE n == Len(room.tables)
           named == [j \in DOMAIN room.tables |->
                       [room.tables[j] EXCEPT !.id = NewId(room, used, j)]]
<1>1. /\ room.tables \in Seq(Layouts!Tables) /\ n \in Nat /\ DOMAIN room.tables = 1..n
      /\ \A j \in 1..n : room.tables[j] \in Layouts!Tables
  BY DEF Layouts!Rooms
<1>2. new = [room EXCEPT !.tables = named]
  <2>1. \A j \in 1..n : Layouts!UniqueId(room.tables[j].id, room.label, Layouts!TakenInRoom(room, used)[j - 1])
                            = NewId(room, used, j)
    BY DEF NewId
  <2> QED
    BY <1>1, <2>1 DEF Layouts!Renamed
<1>3. ASSUME NEW j \in 1..n
      PROVE  /\ [room.tables[j] EXCEPT !.id = NewId(room, used, j)] \in Layouts!Tables
             /\ [room.tables[j] EXCEPT !.id = NewId(room, used, j)].id = NewId(room, used, j)
             /\ [room.tables[j] EXCEPT !.id = NewId(room, used, j)].photo = room.tables[j].photo
             /\ [room.tables[j] EXCEPT !.id = NewId(room, used, j)].chinChin = room.tables[j].chinChin
  <2>1. NewId(room, used, j) \in Layouts!TableIds /\ room.tables[j] \in Layouts!Tables
    BY <1>1, NewIdsNew
  <2> QED
    BY <2>1 DEF Layouts!Tables
<1>4. named \in [1..n -> Layouts!Tables]
  BY <1>1, <1>3
<1>5. \A j \in 1..n : named[j] = [room.tables[j] EXCEPT !.id = NewId(room, used, j)]
  BY <1>1
<1> HIDE DEF named, n
<1>6. named \in Seq(Layouts!Tables) /\ Len(named) = n
  BY <1>1, <1>4, Listed
<1>7. new \in Layouts!Rooms /\ new.label = room.label /\ new.hidden = room.hidden /\ new.tables = named
  BY <1>2, <1>6 DEF Layouts!Rooms
<1> QED
  BY <1>3, <1>5, <1>6, <1>7 DEF n

IdsOf(room) == {room.tables[j].id : j \in DOMAIN room.tables}

\* The tables of a room have names of their own, and names that are not taken.
NamesDiffer(room) ==
    \A j, k \in 1..Len(room.tables) : room.tables[j].id = room.tables[k].id => j = k
NamesFree(room, used) == \A j \in 1..Len(room.tables) : room.tables[j].id \notin used

\* The names of a renamed room differ from one another and from all that was taken.
LEMMA RenamedIds ==
    ASSUME NEW room \in Layouts!Rooms, NEW used, FewNames(used),
           NEW new, new = Layouts!Renamed(room, used)
    PROVE  /\ NamesDiffer(new) /\ NamesFree(new, used)
           /\ Layouts!TakenInRoom(room, used)[Len(room.tables)] = used \cup IdsOf(new)
           /\ FewNames(used \cup IdsOf(new))
<1>1. /\ new \in Layouts!Rooms /\ Len(new.tables) = Len(room.tables)
      /\ \A j \in 1..Len(room.tables) : new.tables[j].id = NewId(room, used, j)
  BY RenamedRoom
<1>2. Len(room.tables) \in Nat /\ DOMAIN new.tables = 1..Len(room.tables)
  BY <1>1 DEF Layouts!Rooms
<1>3. ASSUME NEW j \in 1..Len(room.tables), NEW k \in 1..Len(room.tables),
             NewId(room, used, j) = NewId(room, used, k)
      PROVE  j = k
  <2>1. j < k => j \in 1..(k - 1)
    BY <1>2
  <2>2. k < j => k \in 1..(j - 1)
    BY <1>2
  <2>3. ~(j < k) /\ ~(k < j)
    BY <1>3, <2>1, <2>2, NewIdsNew
  <2> QED
    BY <1>2, <2>3
<1>4. \A j \in 1..Len(room.tables) : NewId(room, used, j) \notin used
  BY NewIdsNew
<1>5. IdsOf(new) = {NewId(room, used, k) : k \in 1..Len(room.tables)}
  BY <1>1, <1>2 DEF IdsOf
<1>6. /\ Layouts!TakenInRoom(room, used)[Len(room.tables)] = used \cup IdsOf(new)
      /\ FewNames(used \cup IdsOf(new))
  <2>1. Len(room.tables) \in 0..Len(room.tables)
    BY <1>2
  <2> DEFINE T == Layouts!TakenInRoom(room, used)[Len(room.tables)]
  <2>2. T = used \cup {NewId(room, used, k) : k \in 1..Len(room.tables)} /\ FewNames(T)
    BY <2>1, TakenSoFar
  <2> HIDE DEF T
  <2>3. T = used \cup IdsOf(new)
    BY <1>5, <2>2
  <2> QED
    BY <2>2, <2>3 DEF T
<1>7. NamesDiffer(new) /\ NamesFree(new, used)
  BY <1>1, <1>3, <1>4 DEF NamesDiffer, NamesFree
<1> QED
  BY <1>6, <1>7

\* A room whose names differ already keeps them.
LEMMA RoomKept ==
    ASSUME NEW room \in Layouts!Rooms, NEW used, FewNames(used),
           NamesDiffer(room), NamesFree(room, used)
    PROVE  Layouts!Renamed(room, used) = room
<1> DEFINE n == Len(room.tables)
           P == {j \in 0..n : \A k \in 1..j : NewId(room, used, k) = room.tables[k].id}
<1>1. /\ room.tables \in Seq(Layouts!Tables) /\ n \in Nat /\ DOMAIN room.tables = 1..n
      /\ \A j \in 1..n : room.tables[j] \in Layouts!Tables
  BY DEF Layouts!Rooms
<1>2. 0 \in P
  BY <1>1
<1>3. ASSUME NEW j \in 1..n, j - 1 \in P PROVE j \in P
  <2>1. \A k \in 1..(j - 1) : NewId(room, used, k) = room.tables[k].id /\ k \in 1..n /\ k # j
    BY <1>1, <1>3
  <2>2. room.tables[j].id \notin used \cup {NewId(room, used, k) : k \in 1..(j - 1)}
    BY <2>1 DEF NamesDiffer, NamesFree
  <2>3. NewId(room, used, j) = room.tables[j].id
    BY <2>2, NewIdsNew
  <2> QED
    BY <1>1, <2>1, <2>3
<1>4. \A j \in 0..n : j \in P
  <2> HIDE DEF P, n
  <2> QED
    BY <1>1, <1>2, <1>3, Climbs
<1>5. \A j \in 1..n : NewId(room, used, j) = room.tables[j].id
  BY <1>1, <1>4
<1>6. \A j \in 1..n : [room.tables[j] EXCEPT !.id = NewId(room, used, j)] = room.tables[j]
  BY <1>1, <1>5 DEF Layouts!Tables
<1>7. [j \in DOMAIN room.tables |-> [room.tables[j] EXCEPT !.id = NewId(room, used, j)]] = room.tables
  <2>1. room.tables = [j \in 1..n |-> room.tables[j]]
    BY <1>1
  <2> QED
    BY <1>1, <1>6, <2>1
<1>8. Layouts!Renamed(room, used)
        = [room EXCEPT !.tables = [j \in DOMAIN room.tables |->
              [room.tables[j] EXCEPT !.id = NewId(room, used, j)]]]
  <2>1. \A j \in 1..n : Layouts!UniqueId(room.tables[j].id, room.label, Layouts!TakenInRoom(room, used)[j - 1])
                            = NewId(room, used, j)
    BY DEF NewId
  <2> QED
    BY <1>1, <2>1 DEF Layouts!Renamed
<1> QED
  BY <1>7, <1>8 DEF Layouts!Rooms

\* The i-th room with its new names.
NewRoom(rooms, used, i) == Layouts!Renamed(rooms[i], Layouts!TakenInRooms(rooms, used)[i - 1])

LEMMA TakenByRooms ==
    ASSUME NEW rooms \in Layouts!Plans, NEW used, FewNames(used)
    PROVE  /\ Layouts!TakenInRooms(rooms, used)[0] = used
           /\ \A i \in 1..Len(rooms) :
                 Layouts!TakenInRooms(rooms, used)[i]
                     = Layouts!TakenInRoom(rooms[i], Layouts!TakenInRooms(rooms, used)[i - 1])[Len(rooms[i].tables)]
<1> DEFINE n == Len(rooms)
           A == {S \in SUBSET Layouts!TableIds : IsFiniteSet(S)}
           After(S, i) == Layouts!TakenInRoom(rooms[i], S)[Len(rooms[i].tables)]
           next == [i \in 1..n |-> [S \in A |-> After(S, i)]]
           F(g) == [i \in 0..n |-> IF i = 0 THEN used ELSE After(g[i - 1], i)]
<1>1. n \in Nat /\ used \in A
  BY DEF Layouts!Plans, FewNames
<1>2. next \in [1..n -> [A -> A]]
  <2>1. ASSUME NEW S \in A, NEW i \in 1..n PROVE After(S, i) \in A
    <3>1. rooms[i] \in Layouts!Rooms /\ FewNames(S)
      BY DEF Layouts!Plans, FewNames
    <3>2. Len(rooms[i].tables) \in 0..Len(rooms[i].tables)
      BY <3>1 DEF Layouts!Rooms
    <3>3. FewNames(After(S, i))
      BY <3>1, <3>2, TakenSoFar
    <3> QED
      BY <3>3 DEF FewNames
  <2> HIDE DEF A, n, After
  <2> QED
    BY <2>1
<1>3. PICK g \in [0..n -> A] : Follows(g, n, used, next)
  <2>1. n \in Nat
    BY <1>1
  <2>2. used \in A
    BY <1>1
  <2> HIDE DEF next, A, n
  <2> QED
    BY <1>2, <2>1, <2>2, StepsTaken
<1>4. g = F(g)
  <2>1. ASSUME NEW i \in 0..n PROVE g[i] = F(g)[i]
    <3>1. CASE i = 0
      BY <1>3, <3>1 DEF Follows
    <3>2. CASE i # 0
      <4>1. i \in 1..n /\ i - 1 \in 0..n
        BY <1>1, <3>2
      <4>2. g[i] = next[i][g[i - 1]] /\ g[i - 1] \in A
        BY <1>3, <4>1 DEF Follows
      <4> HIDE DEF A, n, After
      <4> QED
        BY <3>2, <4>1, <4>2
    <3> QED
      BY <3>1, <3>2
  <2> HIDE DEF A, n, After
  <2> QED
    BY <1>3, <2>1
<1> DEFINE t == Layouts!TakenInRooms(rooms, used)
<1>5. t = CHOOSE f : f = F(f)
  BY DEF Layouts!TakenInRooms
<1>6. t = F(t)
  <2> HIDE DEF F, t
  <2> QED
    BY <1>4, <1>5
<1> HIDE DEF t, n, After
<1>7. t[0] = used
  BY <1>1, <1>6
<1>8. ASSUME NEW i \in 1..n PROVE t[i] = After(t[i - 1], i)
  <2>1. i \in 0..n /\ i # 0
    BY <1>1
  <2> QED
    BY <1>6, <2>1
<1> QED
  BY <1>7, <1>8 DEF t, n, After

\* What is taken is what was, and the names in the rooms so far.
LEMMA TakenByRoomsSoFar ==
    ASSUME NEW rooms \in Layouts!Plans, NEW used, FewNames(used)
    PROVE  \A i \in 0..Len(rooms) :
              /\ Layouts!TakenInRooms(rooms, used)[i]
                     = used \cup UNION {IdsOf(NewRoom(rooms, used, k)) : k \in 1..i}
              /\ FewNames(Layouts!TakenInRooms(rooms, used)[i])
<1> DEFINE n == Len(rooms)
           t == Layouts!TakenInRooms(rooms, used)
           So(i) == used \cup UNION {IdsOf(NewRoom(rooms, used, k)) : k \in 1..i}
           P == {i \in 0..n : t[i] = So(i) /\ FewNames(t[i])}
<1>1. n \in Nat
  BY DEF Layouts!Plans
<1>2. 0 \in P
  <2>1. So(0) = used /\ 0 \in 0..n
    BY <1>1
  <2>2. t[0] = used
    BY TakenByRooms
  <2> HIDE DEF t, n, So
  <2> QED
    BY <2>1, <2>2
<1>3. ASSUME NEW i \in 1..n, i - 1 \in P PROVE i \in P
  <2>1. rooms[i] \in Layouts!Rooms /\ FewNames(t[i - 1]) /\ t[i - 1] = So(i - 1)
    BY <1>3 DEF Layouts!Plans
  <2>2. t[i] = Layouts!TakenInRoom(rooms[i], t[i - 1])[Len(rooms[i].tables)]
    BY TakenByRooms
  <2>3. NewRoom(rooms, used, i) = Layouts!Renamed(rooms[i], t[i - 1])
    BY DEF NewRoom
  <2> HIDE DEF t
  <2>4. t[i] = t[i - 1] \cup IdsOf(NewRoom(rooms, used, i)) /\ FewNames(t[i - 1] \cup IdsOf(NewRoom(rooms, used, i)))
    BY <2>1, <2>2, <2>3, RenamedIds
  <2>5. 1..i = (1..(i - 1)) \cup {i} /\ i \in 0..n
    BY <1>1
  <2>6. So(i) = So(i - 1) \cup IdsOf(NewRoom(rooms, used, i))
    BY <2>5
  <2> HIDE DEF So, n
  <2> QED
    BY <2>1, <2>4, <2>5, <2>6
<1>4. \A i \in 0..n : i \in P
  <2> HIDE DEF P, n
  <2> QED
    BY <1>1, <1>2, <1>3, Climbs
<1> QED
  BY <1>4

\* The i-th room is the same but for the names of its tables; a table keeps the name nobody
\* took before.
OnlyNamed(new, rooms, used, i) ==
    /\ new[i].label = rooms[i].label /\ new[i].hidden = rooms[i].hidden
    /\ Len(new[i].tables) = Len(rooms[i].tables)
    /\ \A j \in 1..Len(rooms[i].tables) :
          /\ new[i].tables[j].photo = rooms[i].tables[j].photo
          /\ new[i].tables[j].chinChin = rooms[i].tables[j].chinChin
          /\ \/ new[i].tables[j].id = rooms[i].tables[j].id
             \/ rooms[i].tables[j].id \in used
             \/ Layouts!TakenBefore(new, i, j, rooms[i].tables[j].id)

LEMMA TakenBeforeIs ==
    ASSUME NEW rooms, NEW i, NEW j, NEW id, NEW k \in DOMAIN rooms, NEW l \in DOMAIN rooms[k].tables,
           k < i \/ (k = i /\ l < j), rooms[k].tables[l].id = id
    PROVE  Layouts!TakenBefore(rooms, i, j, id)
BY DEF Layouts!TakenBefore

\* Rooms with their tables renamed are the same but for the names, which differ from one
\* another and from what was taken.
LEMMA RoomsNamed ==
    ASSUME NEW rooms \in Layouts!Plans, NEW used, FewNames(used),
           NEW new, new = Layouts!RoomsRenamed(rooms, used)
    PROVE  /\ new \in Layouts!Plans /\ Len(new) = Len(rooms)
           /\ \A i \in 1..Len(rooms) : OnlyNamed(new, rooms, used, i)
           /\ Layouts!UniqueIds(new)
           /\ \A i \in 1..Len(new) : NamesFree(new[i], used)
<1> DEFINE n == Len(rooms)
           R(i) == NewRoom(rooms, used, i)
           T(i) == Layouts!TakenInRooms(rooms, used)[i - 1]
<1>1. /\ rooms \in Seq(Layouts!Rooms) /\ n \in Nat /\ DOMAIN rooms = 1..n
      /\ \A i \in 1..n : rooms[i] \in Layouts!Rooms
  BY DEF Layouts!Plans
<1>2. new = [i \in 1..n |-> R(i)]
  BY <1>1 DEF Layouts!RoomsRenamed, NewRoom
<1>3. ASSUME NEW i \in 1..n
      PROVE  /\ R(i) = Layouts!Renamed(rooms[i], T(i)) /\ FewNames(T(i))
             /\ T(i) = used \cup UNION {IdsOf(R(k)) : k \in 1..(i - 1)}
  <2>1. i - 1 \in 0..n
    BY <1>1
  <2> QED
    BY <2>1, TakenByRoomsSoFar DEF NewRoom
<1> HIDE DEF T
<1>4. ASSUME NEW i \in 1..n
      PROVE  /\ R(i) \in Layouts!Rooms /\ R(i).label = rooms[i].label /\ R(i).hidden = rooms[i].hidden
             /\ Len(R(i).tables) = Len(rooms[i].tables)
             /\ \A j \in 1..Len(rooms[i].tables) :
                   /\ R(i).tables[j].photo = rooms[i].tables[j].photo
                   /\ R(i).tables[j].chinChin = rooms[i].tables[j].chinChin
                   /\ R(i).tables[j].id = NewId(rooms[i], T(i), j)
  <2>1. rooms[i] \in Layouts!Rooms /\ FewNames(T(i)) /\ R(i) = Layouts!Renamed(rooms[i], T(i))
    BY <1>1, <1>3
  <2> HIDE DEF R
  <2> QED
    BY <2>1, RenamedRoom
<1>5. ASSUME NEW i \in 1..n
      PROVE  NamesDiffer(R(i)) /\ NamesFree(R(i), T(i))
  <2>1. rooms[i] \in Layouts!Rooms /\ FewNames(T(i)) /\ R(i) = Layouts!Renamed(rooms[i], T(i))
    BY <1>1, <1>3
  <2> HIDE DEF R
  <2> QED
    BY <2>1, RenamedIds
<1>6. ASSUME NEW i \in 1..n
      PROVE  DOMAIN R(i).tables = 1..Len(R(i).tables)
  BY <1>4 DEF Layouts!Rooms
<1>11. ASSUME NEW i \in 1..n, NEW j \in 1..Len(rooms[i].tables),
              R(i).tables[j].id # rooms[i].tables[j].id
       PROVE  rooms[i].tables[j].id \in T(i) \cup {NewId(rooms[i], T(i), k) : k \in 1..(j - 1)}
  <2>1. rooms[i] \in Layouts!Rooms /\ FewNames(T(i)) /\ R(i).tables[j].id = NewId(rooms[i], T(i), j)
    BY <1>1, <1>3, <1>4
  <2> HIDE DEF R
  <2> QED
    BY <1>11, <2>1, NewIdsNew
<1> HIDE DEF n, R
<1>7. /\ new \in Layouts!Plans /\ Len(new) = n /\ DOMAIN new = 1..n
      /\ \A i \in 1..n : new[i] = R(i)
  <2>1. new \in [1..n -> Layouts!Rooms]
    BY <1>2, <1>4
  <2> QED
    BY <1>1, <1>2, <2>1, Listed DEF Layouts!Plans
<1>8. ASSUME NEW i \in 1..n, NEW k \in 1..n, i < k,
             NEW j \in 1..Len(R(i).tables), NEW l \in 1..Len(R(k).tables)
      PROVE  R(i).tables[j].id # R(k).tables[l].id
  <2>1. i \in 1..(k - 1)
    BY <1>1, <1>8
  <2>2. R(i).tables[j].id \in IdsOf(R(i))
    BY <1>6 DEF IdsOf
  <2>3. R(i).tables[j].id \in T(k)
    BY <1>3, <2>1, <2>2
  <2> QED
    BY <1>5, <2>3 DEF NamesFree
<1>9. Layouts!UniqueIds(new)
  <2> SUFFICES ASSUME NEW i \in DOMAIN new, NEW k \in DOMAIN new, NEW j \in DOMAIN new[i].tables,
                      NEW l \in DOMAIN new[k].tables, new[i].tables[j].id = new[k].tables[l].id
               PROVE  i = k /\ j = l
    BY DEF Layouts!UniqueIds
  <2>1. /\ i \in 1..n /\ k \in 1..n /\ new[i] = R(i) /\ new[k] = R(k)
        /\ j \in 1..Len(R(i).tables) /\ l \in 1..Len(R(k).tables)
    BY <1>6, <1>7
  <2>2. i = k
    BY <1>1, <1>8, <2>1
  <2> QED
    BY <1>5, <2>1, <2>2 DEF NamesDiffer
<1>10. \A i \in 1..n : NamesFree(R(i), used)
  BY <1>3, <1>5 DEF NamesFree
<1>12. ASSUME NEW i \in 1..n, NEW j \in 1..Len(rooms[i].tables),
              new[i].tables[j].id # rooms[i].tables[j].id, rooms[i].tables[j].id \notin used
       PROVE  Layouts!TakenBefore(new, i, j, rooms[i].tables[j].id)
  <2> DEFINE id == rooms[i].tables[j].id
  <2>1. id \in T(i) \cup {NewId(rooms[i], T(i), k) : k \in 1..(j - 1)}
    BY <1>7, <1>11, <1>12
  <2>2. Len(R(i).tables) = Len(rooms[i].tables) /\ Len(rooms[i].tables) \in Nat
    <3>1. rooms[i] \in Layouts!Rooms
      BY <1>1
    <3>2. Len(rooms[i].tables) \in Nat
      BY <3>1 DEF Layouts!Rooms
    <3> QED
      BY <1>4, <3>2
  <2>3. id \notin used
    BY <1>12
  <2>4. ASSUME NEW k \in 1..(j - 1), id = NewId(rooms[i], T(i), k)
        PROVE  Layouts!TakenBefore(new, i, j, id)
    <3>1. k \in 1..Len(rooms[i].tables) /\ k < j
      BY <2>2
    <3>2. R(i).tables[k].id = id /\ k \in DOMAIN R(i).tables
      BY <1>4, <1>6, <2>2, <2>4, <3>1
    <3>3. i \in DOMAIN new /\ k \in DOMAIN new[i].tables /\ new[i].tables[k].id = id
      BY <1>7, <3>2
    <3> HIDE DEF id
    <3> QED
      BY <3>1, <3>3, TakenBeforeIs
  <2> HIDE DEF id
  <2>5. ASSUME id \in T(i) PROVE Layouts!TakenBefore(new, i, j, id)
    <3>1. PICK k \in 1..(i - 1) : id \in IdsOf(R(k))
      <4>1. T(i) = used \cup UNION {IdsOf(R(k)) : k \in 1..(i - 1)}
        BY <1>3
      <4> QED
        BY <2>3, <2>5, <4>1
    <3>2. k \in 1..n /\ k < i
      BY <1>1, <3>1
    <3>3. PICK l \in DOMAIN R(k).tables : R(k).tables[l].id = id
      BY <3>1 DEF IdsOf
    <3>4. k \in DOMAIN new /\ l \in DOMAIN new[k].tables /\ new[k].tables[l].id = id
      BY <1>7, <3>2, <3>3
    <3> QED
      BY <3>2, <3>4 DEF Layouts!TakenBefore
  <2>6. Layouts!TakenBefore(new, i, j, id)
    BY <2>1, <2>4, <2>5
  <2> QED
    BY <2>6 DEF id
<1>13. ASSUME NEW i \in 1..n PROVE OnlyNamed(new, rooms, used, i)
  BY <1>4, <1>7, <1>12 DEF OnlyNamed
<1> QED
  BY <1>7, <1>9, <1>10, <1>13 DEF n

\* Rooms whose names differ already keep them.
LEMMA RoomsKeepNames ==
    ASSUME NEW rooms \in Layouts!Plans, Layouts!UniqueIds(rooms)
    PROVE  Layouts!WithUniqueIds(rooms) = rooms
<1> DEFINE n == Len(rooms)
           T(i) == Layouts!TakenInRooms(rooms, {})[i - 1]
           P == {i \in 0..n : \A k \in 1..i : NewRoom(rooms, {}, k) = rooms[k]}
<1>1. /\ rooms \in Seq(Layouts!Rooms) /\ n \in Nat /\ DOMAIN rooms = 1..n
      /\ \A i \in 1..n : /\ rooms[i] \in Layouts!Rooms
                         /\ DOMAIN rooms[i].tables = 1..Len(rooms[i].tables)
  <2>1. /\ rooms \in Seq(Layouts!Rooms) /\ n \in Nat /\ DOMAIN rooms = 1..n
        /\ \A i \in 1..n : rooms[i] \in Layouts!Rooms
    BY DEF Layouts!Plans
  <2>2. \A i \in 1..n : rooms[i].tables \in Seq(Layouts!Tables)
    BY <2>1 DEF Layouts!Rooms
  <2> QED
    BY <2>1, <2>2
<1>2. FewNames({})
  BY FS_EmptySet DEF FewNames
<1>3. ASSUME NEW i \in 1..n, i - 1 \in P PROVE i \in P
  <2>1. \A k \in 1..(i - 1) : NewRoom(rooms, {}, k) = rooms[k] /\ k \in 1..n /\ k # i
    BY <1>1, <1>3
  <2>2. T(i) = {} \cup UNION {IdsOf(NewRoom(rooms, {}, k)) : k \in 1..(i - 1)} /\ FewNames(T(i))
    <3>1. i - 1 \in 0..n
      BY <1>1
    <3> QED
      BY <1>2, <3>1, TakenByRoomsSoFar
  <2>3. NewRoom(rooms, {}, i) = Layouts!Renamed(rooms[i], T(i))
    BY DEF NewRoom
  <2> HIDE DEF T
  <2>4. NamesFree(rooms[i], T(i))
    <3> SUFFICES ASSUME NEW j \in 1..Len(rooms[i].tables), rooms[i].tables[j].id \in T(i) PROVE FALSE
      BY DEF NamesFree
    <3>1. PICK k \in 1..(i - 1) : rooms[i].tables[j].id \in IdsOf(NewRoom(rooms, {}, k))
      BY <2>2
    <3>2. k \in 1..n /\ k # i /\ rooms[i].tables[j].id \in IdsOf(rooms[k])
      BY <2>1, <3>1
    <3>3. PICK l \in DOMAIN rooms[k].tables : rooms[i].tables[j].id = rooms[k].tables[l].id
      BY <3>2 DEF IdsOf
    <3> QED
      BY <1>1, <3>2, <3>3 DEF Layouts!UniqueIds
  <2>5. NamesDiffer(rooms[i])
    BY <1>1 DEF Layouts!UniqueIds, NamesDiffer
  <2>6. NewRoom(rooms, {}, i) = rooms[i]
    BY <1>1, <2>2, <2>3, <2>4, <2>5, RoomKept
  <2> QED
    BY <1>1, <2>1, <2>6
<1>4. 0 \in P
  BY <1>1
<1>5. \A i \in 0..n : i \in P
  <2> HIDE DEF P, n
  <2> QED
    BY <1>1, <1>3, <1>4, Climbs
<1>6. \A i \in 1..n : NewRoom(rooms, {}, i) = rooms[i]
  BY <1>1, <1>5
<1>7. rooms = [i \in 1..n |-> rooms[i]]
  BY <1>1
<1> QED
  BY <1>1, <1>6, <1>7 DEF Layouts!WithUniqueIds, Layouts!RoomsRenamed, NewRoom

-----------------------------------------------------------------------------
(* Photos of tables.                                                           *)

\* Some of a sequence's elements, in their order.
LEMMA WithLabelsTyped ==
    ASSUME NEW S, NEW rooms \in Seq(S), NEW labels
    PROVE  Layouts!WithLabels(rooms, labels) \in Seq(S)
<1> DEFINE n == Len(rooms)
           A == Seq(S)
           With(s, i) == IF rooms[i].label \in labels THEN Append(s, rooms[i]) ELSE s
           next == [i \in 1..n |-> [s \in A |-> With(s, i)]]
           F(g) == [i \in 0..n |-> IF i = 0 THEN <<>>
                                   ELSE IF rooms[i].label \in labels THEN Append(g[i - 1], rooms[i])
                                   ELSE g[i - 1]]
<1>1. n \in Nat /\ <<>> \in A
  OBVIOUS
<1>a. ASSUME NEW s \in A, NEW i \in 1..n PROVE With(s, i) \in A
  OBVIOUS
<1>2. next \in [1..n -> [A -> A]]
  <2> HIDE DEF A, n, With
  <2> QED
    BY <1>a
<1>3. PICK g \in [0..n -> A] : Follows(g, n, <<>>, next)
  <2>1. n \in Nat
    BY <1>1
  <2>2. <<>> \in A
    BY <1>1
  <2> HIDE DEF next, A, n
  <2> QED
    BY <1>2, <2>1, <2>2, StepsTaken
<1>4. g = F(g)
  <2>1. ASSUME NEW i \in 0..n PROVE g[i] = F(g)[i]
    <3>1. CASE i = 0
      BY <1>3, <3>1 DEF Follows
    <3>2. CASE i # 0
      <4>1. i \in 1..n /\ i - 1 \in 0..n
        BY <1>1, <3>2
      <4>2. g[i] = next[i][g[i - 1]] /\ g[i - 1] \in A
        BY <1>3, <4>1 DEF Follows
      <4>3. g[i] = With(g[i - 1], i)
        <5> HIDE DEF A, n, With
        <5> QED
          BY <4>1, <4>2
      <4>4. F(g)[i] = With(g[i - 1], i)
        BY <3>2
      <4> QED
        BY <4>3, <4>4
    <3> QED
      BY <3>1, <3>2
  <2> HIDE DEF A, n
  <2> QED
    BY <1>3, <2>1
<1> DEFINE f == CHOOSE f : f = F(f)
<1>5. Layouts!WithLabels(rooms, labels) = f[n]
  BY DEF Layouts!WithLabels
<1>6. f = F(f)
  <2> HIDE DEF F
  <2> QED
    BY <1>4
<1> HIDE DEF f
<1> DEFINE P == {i \in 0..n : f[i] \in A}
<1>7. 0 \in P
  BY <1>1, <1>6
<1>8. ASSUME NEW i \in 1..n, i - 1 \in P PROVE i \in P
  <2>1. i \in 0..n /\ i # 0
    BY <1>1
  <2>2. f[i] = With(f[i - 1], i)
    BY <1>6, <2>1
  <2> HIDE DEF A, n, With
  <2> QED
    BY <1>8, <1>a, <2>1, <2>2
<1>9. n \in P
  <2> HIDE DEF P, n
  <2>1. \A i \in 0..n : i \in P
    BY <1>1, <1>7, <1>8, Climbs
  <2> QED
    BY <1>1, <2>1
<1> QED
  BY <1>5, <1>9

\* The photo a table gets is not shown by another, if there is one.
LEMMA PhotoForNew ==
    ASSUME NEW table \in Layouts!Tables, NEW photos \in Seq(Shots), NEW used
    PROVE  /\ Layouts!PhotoFor(table, photos, used) \in Shots \cup {NoPhoto}
           /\ \/ Layouts!PhotoFor(table, photos, used) = NoPhoto
              \/ Layouts!PhotoFor(table, photos, used) \notin used
<1> DEFINE free == {i \in DOMAIN photos : photos[i] \notin used}
<1>1. free \in SUBSET Nat /\ \A i \in free : photos[i] \in Shots /\ photos[i] \notin used
  OBVIOUS
<1>2. free # {} => Layouts!Least(free) \in free
  <2> HIDE DEF free
  <2> QED
    BY <1>1, LeastIs
<1>3. Layouts!PhotoFor(table, photos, used)
        = IF ~table.chinChin \/ free = {} THEN NoPhoto
          ELSE IF \E i \in free : photos[i] = table.photo THEN table.photo
          ELSE photos[Layouts!Least(free)]
  BY DEF Layouts!PhotoFor
<1> HIDE DEF free
<1> QED
  BY <1>1, <1>2, <1>3

\* The photo the j-th table of a room gets.
NewPhoto(room, photos, j) ==
    Layouts!PhotoFor(room.tables[j], photos, Layouts!PhotosUsed(room, photos)[j - 1])

LEMMA PhotosStepwise ==
    ASSUME NEW room \in Layouts!Rooms, NEW photos \in Seq(Shots)
    PROVE  /\ Layouts!PhotosUsed(room, photos)[0] = {NoPhoto}
           /\ \A j \in 1..Len(room.tables) :
                 Layouts!PhotosUsed(room, photos)[j]
                     = Layouts!PhotosUsed(room, photos)[j - 1] \cup {NewPhoto(room, photos, j)}
<1> DEFINE n == Len(room.tables)
           A == SUBSET (Shots \cup {NoPhoto})
           Photo(S, j) == Layouts!PhotoFor(room.tables[j], photos, S)
           next == [j \in 1..n |-> [S \in A |-> S \cup {Photo(S, j)}]]
           F(g) == [j \in 0..n |-> IF j = 0 THEN {NoPhoto} ELSE g[j - 1] \cup {Photo(g[j - 1], j)}]
<1>1. n \in Nat /\ {NoPhoto} \in A
  BY DEF Layouts!Rooms
<1>2. next \in [1..n -> [A -> A]]
  <2>1. ASSUME NEW S \in A, NEW j \in 1..n PROVE S \cup {Photo(S, j)} \in A
    <3>1. room.tables \in Seq(Layouts!Tables)
      BY DEF Layouts!Rooms
    <3>2. room.tables[j] \in Layouts!Tables
      BY <3>1
    <3>3. Photo(S, j) \in Shots \cup {NoPhoto}
      BY <3>2, PhotoForNew
    <3> HIDE DEF Photo
    <3> QED
      BY <3>3
  <2> HIDE DEF A, n, Photo
  <2> QED
    BY <2>1
<1>3. PICK g \in [0..n -> A] : Follows(g, n, {NoPhoto}, next)
  <2>1. n \in Nat
    BY <1>1
  <2>2. {NoPhoto} \in A
    BY <1>1
  <2> HIDE DEF next, A, n
  <2> QED
    BY <1>2, <2>1, <2>2, StepsTaken
<1>4. g = F(g)
  <2>1. ASSUME NEW j \in 0..n PROVE g[j] = F(g)[j]
    <3>1. CASE j = 0
      BY <1>3, <3>1 DEF Follows
    <3>2. CASE j # 0
      <4>1. j \in 1..n /\ j - 1 \in 0..n
        BY <1>1, <3>2
      <4>2. g[j] = next[j][g[j - 1]] /\ g[j - 1] \in A
        BY <1>3, <4>1 DEF Follows
      <4> HIDE DEF A, n, Photo
      <4> QED
        BY <3>2, <4>1, <4>2
    <3> QED
      BY <3>1, <3>2
  <2> HIDE DEF A, n, Photo
  <2> QED
    BY <1>3, <2>1
<1> DEFINE t == Layouts!PhotosUsed(room, photos)
<1>5. t = CHOOSE f : f = F(f)
  BY DEF Layouts!PhotosUsed
<1>6. t = F(t)
  <2> HIDE DEF F, t
  <2> QED
    BY <1>4, <1>5
<1>7. \A j \in 1..n : NewPhoto(room, photos, j) = Photo(t[j - 1], j)
  BY DEF NewPhoto
<1> HIDE DEF t, Photo, n
<1>8. t[0] = {NoPhoto}
  BY <1>1, <1>6
<1>9. ASSUME NEW j \in 1..n PROVE t[j] = t[j - 1] \cup {NewPhoto(room, photos, j)}
  <2>1. j \in 0..n /\ j # 0
    BY <1>1
  <2> QED
    BY <1>6, <1>7, <2>1
<1> QED
  BY <1>8, <1>9 DEF t, n

\* What is shown holds the photos of the tables so far.
LEMMA PhotosSoFar ==
    ASSUME NEW room \in Layouts!Rooms, NEW photos \in Seq(Shots)
    PROVE  \A j \in 0..Len(room.tables) : \A k \in 1..j :
              NewPhoto(room, photos, k) \in Layouts!PhotosUsed(room, photos)[j]
<1> DEFINE n == Len(room.tables)
           t == Layouts!PhotosUsed(room, photos)
           P == {j \in 0..n : \A k \in 1..j : NewPhoto(room, photos, k) \in t[j]}
<1>1. n \in Nat
  BY DEF Layouts!Rooms
<1>2. \A j \in 1..n : t[j] = t[j - 1] \cup {NewPhoto(room, photos, j)}
  BY PhotosStepwise
<1> HIDE DEF t, n
<1>3. 0 \in P
  BY <1>1
<1>4. ASSUME NEW j \in 1..n, j - 1 \in P PROVE j \in P
  <2>1. \A k \in 1..j : k = j \/ k \in 1..(j - 1)
    BY <1>1
  <2> QED
    BY <1>1, <1>2, <1>4, <2>1
<1>5. \A j \in 0..n : j \in P
  <2> HIDE DEF P
  <2> QED
    BY <1>1, <1>3, <1>4, Climbs
<1> QED
  BY <1>5 DEF t, n

\* Each photo shows one of the room's tables.
PhotosApart(room) ==
    \A j, k \in 1..Len(room.tables) :
        room.tables[j].photo = room.tables[k].photo => j = k \/ room.tables[j].photo = NoPhoto

\* A room with its photos given out is the same but for the photos, each of which shows one table.
LEMMA RoomPhotographed ==
    ASSUME NEW room \in Layouts!Rooms, NEW photos \in Seq(Shots),
           NEW new, new = Layouts!WithPhotos(room, photos)
    PROVE  new \in Layouts!Rooms /\ PhotosApart(new)
<1> DEFINE n == Len(room.tables)
           given == [j \in DOMAIN room.tables |->
                       [room.tables[j] EXCEPT !.photo = NewPhoto(room, photos, j)]]
<1>1. /\ room.tables \in Seq(Layouts!Tables) /\ n \in Nat /\ DOMAIN room.tables = 1..n
      /\ \A j \in 1..n : room.tables[j] \in Layouts!Tables
  BY DEF Layouts!Rooms
<1>2. new = [room EXCEPT !.tables = given]
  <2>1. \A j \in 1..n : Layouts!PhotoFor(room.tables[j], photos, Layouts!PhotosUsed(room, photos)[j - 1])
                            = NewPhoto(room, photos, j)
    BY DEF NewPhoto
  <2> QED
    BY <1>1, <2>1 DEF Layouts!WithPhotos
<1>3. ASSUME NEW j \in 1..n
      PROVE  /\ [room.tables[j] EXCEPT !.photo = NewPhoto(room, photos, j)] \in Layouts!Tables
             /\ [room.tables[j] EXCEPT !.photo = NewPhoto(room, photos, j)].photo = NewPhoto(room, photos, j)
             /\ \/ NewPhoto(room, photos, j) = NoPhoto
                \/ NewPhoto(room, photos, j) \notin Layouts!PhotosUsed(room, photos)[j - 1]
  <2>1. /\ NewPhoto(room, photos, j) \in Shots \cup {NoPhoto}
        /\ \/ NewPhoto(room, photos, j) = NoPhoto
           \/ NewPhoto(room, photos, j) \notin Layouts!PhotosUsed(room, photos)[j - 1]
    BY <1>1, PhotoForNew DEF NewPhoto
  <2> QED
    BY <1>1, <2>1 DEF Layouts!Tables
<1>4. given \in [1..n -> Layouts!Tables]
  BY <1>1, <1>3
<1>5. \A j \in 1..n : given[j] = [room.tables[j] EXCEPT !.photo = NewPhoto(room, photos, j)]
  BY <1>1
<1> HIDE DEF given
<1>6. given \in Seq(Layouts!Tables) /\ Len(given) = n
  <2> HIDE DEF n
  <2> QED
    BY <1>1, <1>4, Listed
<1>7. new \in Layouts!Rooms /\ new.tables = given
  <2> HIDE DEF n
  <2> QED
    BY <1>2, <1>6 DEF Layouts!Rooms
<1>8. ASSUME NEW j \in 1..n, NEW k \in 1..n, j < k, NewPhoto(room, photos, j) = NewPhoto(room, photos, k)
      PROVE  NewPhoto(room, photos, j) = NoPhoto
  <2>1. j \in 1..(k - 1) /\ k - 1 \in 0..n
    BY <1>1, <1>8
  <2>2. NewPhoto(room, photos, j) \in Layouts!PhotosUsed(room, photos)[k - 1]
    BY <2>1, PhotosSoFar
  <2> QED
    BY <1>3, <1>8, <2>2
<1>9. PhotosApart(new)
  <2> SUFFICES ASSUME NEW j \in 1..n, NEW k \in 1..n, new.tables[j].photo = new.tables[k].photo, j # k
               PROVE  new.tables[j].photo = NoPhoto
    BY <1>6, <1>7 DEF PhotosApart
  <2>1. new.tables[j].photo = NewPhoto(room, photos, j) /\ new.tables[k].photo = NewPhoto(room, photos, k)
    BY <1>3, <1>5, <1>7
  <2>2. j < k \/ k < j
    BY <1>1
  <2> HIDE DEF n
  <2> QED
    BY <1>8, <2>1, <2>2
<1> QED
  BY <1>7, <1>9

\* The photos of a room are photos.
LEMMA PhotosOfTyped ==
    ASSUME NEW space \in Layouts!Spaces, NEW label, NEW i \in Nat
    PROVE  Layouts!PhotosOf(space, label, i) \in Seq(Shots)
<1> DEFINE same == {k \in DOMAIN space : space[k].label = label}
<1>1. same \in SUBSET Nat /\ \A k \in DOMAIN space : space[k].photos \in Seq(Shots)
  <2>1. ASSUME NEW k \in DOMAIN space PROVE k \in Nat /\ space[k].photos \in Seq(Shots)
    <3> DEFINE Space == [label: RoomNames, photos: Seq(Shots)]
    <3>1. space \in Seq(Space)
      BY DEF Layouts!Spaces
    <3>2. space[k] \in Space /\ k \in Nat
      <4> HIDE DEF Space
      <4> QED
        BY <3>1
    <3> QED
      BY <3>2
  <2> QED
    BY <2>1
<1>2. same # {} => Layouts!Least(same) \in DOMAIN space
  <2>1. same \subseteq DOMAIN space
    OBVIOUS
  <2> HIDE DEF same
  <2> QED
    BY <1>1, <2>1, LeastIs
<1>3. space # <<>> => 1 \in DOMAIN space
  BY DEF Layouts!Spaces
<1>4. Layouts!PhotosOf(space, label, i)
        = IF same # {} THEN space[Layouts!Least(same)].photos
          ELSE IF i \in DOMAIN space THEN space[i].photos
          ELSE IF space # <<>> THEN space[1].photos
          ELSE <<>>
  BY DEF Layouts!PhotosOf
<1>5. <<>> \in Seq(Shots)
  OBVIOUS
<1> HIDE DEF same
<1> QED
  BY <1>1, <1>2, <1>3, <1>4, <1>5

\* Rooms with their photos given out.
LEMMA RoomsPhotographed ==
    ASSUME NEW rooms \in Layouts!Plans, NEW space \in Layouts!Spaces,
           NEW new, new = Layouts!Photographed(rooms, space)
    PROVE  /\ new \in Layouts!Plans /\ Len(new) = Len(rooms)
           /\ \A i \in 1..Len(rooms) : PhotosApart(new[i])
<1> DEFINE n == Len(rooms)
           R(i) == Layouts!WithPhotos(rooms[i], Layouts!PhotosOf(space, rooms[i].label, i))
<1>1. rooms \in Seq(Layouts!Rooms) /\ n \in Nat /\ DOMAIN rooms = 1..n /\ \A i \in 1..n : rooms[i] \in Layouts!Rooms
  BY DEF Layouts!Plans
<1>2. ASSUME NEW i \in 1..n PROVE R(i) \in Layouts!Rooms /\ PhotosApart(R(i))
  <2>1. Layouts!PhotosOf(space, rooms[i].label, i) \in Seq(Shots)
    BY <1>1, PhotosOfTyped
  <2> QED
    BY <1>1, <2>1, RoomPhotographed
<1>3. new = [i \in 1..n |-> R(i)]
  BY <1>1 DEF Layouts!Photographed
<1> HIDE DEF n, R
<1>4. new \in [1..n -> Layouts!Rooms]
  BY <1>2, <1>3
<1>5. new \in Seq(Layouts!Rooms) /\ Len(new) = n
  BY <1>1, <1>4, Listed
<1>6. \A i \in 1..n : PhotosApart(new[i])
  BY <1>2, <1>3
<1> QED
  BY <1>5, <1>6 DEF Layouts!Plans, n

-----------------------------------------------------------------------------
(* What an approval makes of a layout.                                         *)

\* The rooms of `old` come first, and there are new ones, each of whose photos shows one table.
RoomsAdded(layout, old) ==
    /\ Len(layout) > Len(old) /\ SubSeq(layout, 1, Len(old)) = old
    /\ \A i \in (Len(old) + 1)..Len(layout) : PhotosApart(layout[i])

\* What a room of a layout is made of.
LEMMA RoomsOf ==
    ASSUME NEW rooms \in Layouts!Plans
    PROVE  /\ rooms \in Seq(Layouts!Rooms) /\ Len(rooms) \in Nat /\ DOMAIN rooms = 1..Len(rooms)
           /\ \A i \in 1..Len(rooms) :
                 /\ rooms[i] \in Layouts!Rooms /\ rooms[i].label \in RoomNames
                 /\ rooms[i].tables \in Seq(Layouts!Tables)
                 /\ Len(rooms[i].tables) \in Nat
                 /\ DOMAIN rooms[i].tables = 1..Len(rooms[i].tables)
                 /\ \A j \in 1..Len(rooms[i].tables) :
                       rooms[i].tables[j] \in Layouts!Tables /\ rooms[i].tables[j].id \in Layouts!TableIds
<1>1. /\ rooms \in Seq(Layouts!Rooms) /\ Len(rooms) \in Nat /\ DOMAIN rooms = 1..Len(rooms)
      /\ \A i \in 1..Len(rooms) : rooms[i] \in Layouts!Rooms
  BY DEF Layouts!Plans
<1>2. ASSUME NEW i \in 1..Len(rooms)
      PROVE  rooms[i].label \in RoomNames /\ rooms[i].tables \in Seq(Layouts!Tables)
  BY <1>1 DEF Layouts!Rooms
<1>3. ASSUME NEW i \in 1..Len(rooms)
      PROVE  /\ Len(rooms[i].tables) \in Nat
             /\ DOMAIN rooms[i].tables = 1..Len(rooms[i].tables)
             /\ \A j \in 1..Len(rooms[i].tables) : rooms[i].tables[j] \in Layouts!Tables
  BY <1>2
<1>4. ASSUME NEW i \in 1..Len(rooms), NEW j \in 1..Len(rooms[i].tables)
      PROVE  rooms[i].tables[j].id \in Layouts!TableIds
  BY <1>3 DEF Layouts!Tables
<1> QED
  BY <1>1, <1>2, <1>3, <1>4

\* The values a function takes on a finite set.
LEMMA FinitelyMany ==
    ASSUME NEW S, IsFiniteSet(S), NEW f
    PROVE  IsFiniteSet({f[v] : v \in S})
<1> DEFINE T == {f[v] : v \in S}
           g == [v \in S |-> f[v]]
<1>1. g \in Surjection(S, T)
  BY DEF Surjection
<1> HIDE DEF g, T
<1>2. IsFiniteSet(T)
  BY <1>1, FS_Surjection
<1> QED
  BY <1>2 DEF T

\* A layout has finitely many names.
LEMMA FewIds ==
    ASSUME NEW rooms \in Layouts!Plans
    PROVE  FewNames(Layouts!Ids(rooms))
<1> DEFINE n == Len(rooms)
           Names(i) == {rooms[i].tables[j].id : j \in DOMAIN rooms[i].tables}
           f == [i \in 1..n |-> Names(i)]
<1>1. ASSUME NEW i \in 1..n PROVE FewNames(Names(i))
  <2>1. /\ Len(rooms[i].tables) \in Nat /\ DOMAIN rooms[i].tables = 1..Len(rooms[i].tables)
        /\ \A j \in 1..Len(rooms[i].tables) : rooms[i].tables[j].id \in Layouts!TableIds
    BY RoomsOf
  <2> DEFINE m == Len(rooms[i].tables)
             g == [j \in 1..m |-> rooms[i].tables[j].id]
  <2>2. IsFiniteSet(1..m)
    <3>1. m \in Int /\ 1 \in Int
      BY <2>1
    <3> HIDE DEF m
    <3> QED
      BY <3>1, FS_Interval
  <2>3. IsFiniteSet({g[j] : j \in 1..m})
    <3> HIDE DEF g, m
    <3> QED
      BY <2>2, FinitelyMany
  <2>4. {g[j] : j \in 1..m} = Names(i)
    BY <2>1
  <2> QED
    BY <2>1, <2>3, <2>4 DEF FewNames
<1>2. IsFiniteSet(1..n) /\ DOMAIN rooms = 1..n
  BY RoomsOf, FS_Interval
<1>3. IsFiniteSet({f[i] : i \in 1..n})
  <2> HIDE DEF f
  <2> QED
    BY <1>2, FinitelyMany
<1>4. \A T \in {f[i] : i \in 1..n} : FewNames(T)
  <2> HIDE DEF Names
  <2> QED
    BY <1>1
<1>5. Layouts!Ids(rooms) = UNION {f[i] : i \in 1..n}
  <2>1. {f[i] : i \in 1..n} = {Names(i) : i \in 1..n}
    <3> HIDE DEF Names
    <3> QED
      OBVIOUS
  <2>2. Layouts!Ids(rooms) = UNION {Names(i) : i \in 1..n}
    BY <1>2 DEF Layouts!Ids
  <2> QED
    BY <2>1, <2>2
<1> DEFINE N == {f[i] : i \in 1..n}
<1> HIDE DEF N
<1>6. IsFiniteSet(N) /\ \A T \in N : IsFiniteSet(T) /\ T \in SUBSET Layouts!TableIds
  BY <1>3, <1>4 DEF N, FewNames
<1>7. IsFiniteSet(UNION N) /\ UNION N \in SUBSET Layouts!TableIds
  BY <1>6, FS_UNION
<1>8. Layouts!Ids(rooms) = UNION N
  BY <1>5 DEF N
<1> QED
  BY <1>7, <1>8 DEF FewNames

\* Two layouts with names of their own, the second without a name of the first.
LEMMA UniqueTogether ==
    ASSUME NEW a \in Layouts!Plans, NEW b \in Layouts!Plans,
           Layouts!UniqueIds(a), Layouts!UniqueIds(b),
           \A i \in 1..Len(b) : NamesFree(b[i], Layouts!Ids(a))
    PROVE  Layouts!UniqueIds(a \o b)
<1> DEFINE m == Len(a)  n == Len(b)  new == a \o b
<1>1. /\ m \in Nat /\ n \in Nat /\ DOMAIN a = 1..m /\ DOMAIN b = 1..n
      /\ a \in Seq(Layouts!Rooms) /\ b \in Seq(Layouts!Rooms)
      /\ \A i \in 1..n : DOMAIN b[i].tables = 1..Len(b[i].tables)
  BY RoomsOf
<1>2. /\ DOMAIN new = 1..(m + n) /\ \A i \in 1..m : new[i] = a[i]
      /\ \A i \in (m + 1)..(m + n) : new[i] = b[i - m] /\ i - m \in 1..n
  BY <1>1
<1>3. ASSUME NEW i \in DOMAIN a, NEW j \in DOMAIN a[i].tables, NEW k \in DOMAIN b, NEW l \in DOMAIN b[k].tables
      PROVE  a[i].tables[j].id # b[k].tables[l].id
  <2>1. a[i].tables[j].id \in Layouts!Ids(a)
    BY DEF Layouts!Ids
  <2> QED
    BY <1>1, <2>1 DEF NamesFree
<1> HIDE DEF m, n, new
<1>4. SUFFICES ASSUME NEW i \in DOMAIN new, NEW k \in DOMAIN new, NEW j \in DOMAIN new[i].tables,
                      NEW l \in DOMAIN new[k].tables, new[i].tables[j].id = new[k].tables[l].id
               PROVE  i = k /\ j = l
  BY DEF Layouts!UniqueIds, new
<1>5. (i \in 1..m \/ i \in (m + 1)..(m + n)) /\ (k \in 1..m \/ k \in (m + 1)..(m + n))
  BY <1>1, <1>2
<1>6. CASE i \in 1..m /\ k \in 1..m
  BY <1>1, <1>2, <1>4, <1>6 DEF Layouts!UniqueIds
<1>7. CASE i \in 1..m /\ k \in (m + 1)..(m + n)
  <2>1. k - m \in DOMAIN b /\ new[k] = b[k - m] /\ i \in DOMAIN a /\ new[i] = a[i]
    BY <1>1, <1>2, <1>7
  <2>2. l \in DOMAIN b[k - m].tables /\ j \in DOMAIN a[i].tables
    BY <2>1
  <2> QED
    BY <1>3, <1>4, <2>1, <2>2
<1>8. CASE i \in (m + 1)..(m + n) /\ k \in 1..m
  <2>1. i - m \in DOMAIN b /\ new[i] = b[i - m] /\ k \in DOMAIN a /\ new[k] = a[k]
    BY <1>1, <1>2, <1>8
  <2>2. j \in DOMAIN b[i - m].tables /\ l \in DOMAIN a[k].tables
    BY <2>1
  <2> QED
    BY <1>3, <1>4, <2>1, <2>2
<1>9. CASE i \in (m + 1)..(m + n) /\ k \in (m + 1)..(m + n)
  <2>1. /\ i - m \in DOMAIN b /\ k - m \in DOMAIN b /\ new[i] = b[i - m] /\ new[k] = b[k - m]
    BY <1>1, <1>2, <1>9
  <2>2. i - m = k - m /\ j = l
    BY <1>4, <2>1 DEF Layouts!UniqueIds
  <2> QED
    BY <1>1, <1>2, <2>2
<1> QED
  BY <1>5, <1>6, <1>7, <1>8, <1>9

\* Rooms with another label are where and as they were.
OthersThere(layout, old, label) ==
    /\ Len(layout) = Len(old)
    /\ \A i \in 1..Len(old) : old[i].label # label => layout[i] = old[i]

\* They are but for their tables' names, each of which an earlier table has taken.
OthersNamed(layout, old, label) ==
    /\ Len(layout) = Len(old)
    /\ \A i \in 1..Len(old) : old[i].label # label =>
          /\ Layouts!SameButIds(layout[i], old[i])
          /\ \A j \in 1..Len(old[i].tables) :
                \/ layout[i].tables[j].id = old[i].tables[j].id
                \/ Layouts!TakenBefore(layout, i, j, old[i].tables[j].id)

\* A sequence with more at its end starts with what it was.
LEMMA Extended ==
    ASSUME NEW S, NEW a \in Seq(S), NEW b \in Seq(S)
    PROVE  /\ a \o b \in Seq(S) /\ Len(a \o b) = Len(a) + Len(b)
           /\ SubSeq(a \o b, 1, Len(a)) = a
           /\ \A i \in (Len(a) + 1)..(Len(a) + Len(b)) : (a \o b)[i] = b[i - Len(a)] /\ i - Len(a) \in 1..Len(b)
<1>1. a \o b \in Seq(S) /\ Len(a \o b) = Len(a) + Len(b) /\ Len(a) \in Nat /\ Len(b) \in Nat
  OBVIOUS
<1>2. \A i \in 1..Len(a) : (a \o b)[i] = a[i]
  OBVIOUS
<1>3. \A i \in (Len(a) + 1)..(Len(a) + Len(b)) : (a \o b)[i] = b[i - Len(a)] /\ i - Len(a) \in 1..Len(b)
  OBVIOUS
<1>4. SubSeq(a \o b, 1, Len(a)) = a
  <2> DEFINE c == a \o b  s == SubSeq(c, 1, Len(a))
  <2>1. c \in Seq(S) /\ Len(a) \in 0..Len(c)
    BY <1>1
  <2> HIDE DEF c
  <2>2. s \in Seq(S) /\ Len(s) = Len(a) /\ \A i \in 1..Len(a) : s[i] = c[i]
    BY <1>1, <2>1
  <2>3. \A i \in 1..Len(a) : s[i] = a[i]
    BY <1>2, <2>2 DEF c
  <2> HIDE DEF s
  <2>4. s = a
    BY <2>2, <2>3
  <2> QED
    BY <2>4 DEF s, c
<1> QED
  BY <1>1, <1>3, <1>4

\* A room added to a layout comes whole: what was there is untouched.
LEMMA AddedWhole ==
    ASSUME NEW approved \in Layouts!Plans, NEW incoming \in Layouts!Plans, NEW space \in Layouts!Spaces,
           NEW new, new = Layouts!MergedAdditional(approved, incoming, space)
    PROVE  /\ new \in Layouts!Plans
           /\ Layouts!NewRooms(approved, incoming, space) # <<>> =>
                 /\ RoomsAdded(new, approved)
                 /\ Layouts!UniqueIds(approved) => Layouts!UniqueIds(new)
<1> DEFINE fresh == Layouts!NewRooms(approved, incoming, space)
           given == Layouts!Photographed(fresh, space)
           named == Layouts!RoomsRenamed(given, Layouts!Ids(approved))
<1>1. fresh \in Layouts!Plans
  <2> DEFINE requested == Layouts!WithLabels(incoming, Layouts!Labels(space))
             from == IF requested # <<>> THEN requested ELSE incoming
  <2>1. requested \in Layouts!Plans
    BY WithLabelsTyped DEF Layouts!Plans
  <2>2. from \in Layouts!Plans
    BY <2>1
  <2>3. fresh = Layouts!Without(from, Layouts!Labels(approved))
    BY DEF Layouts!NewRooms
  <2> HIDE DEF from, fresh
  <2> QED
    BY <2>2, <2>3, WithLabelsTyped DEF Layouts!Plans, Layouts!Without
<1>2. new = approved \o named
  BY DEF Layouts!MergedAdditional
<1> HIDE DEF fresh
<1>3. given \in Layouts!Plans /\ Len(given) = Len(fresh) /\ \A i \in 1..Len(fresh) : PhotosApart(given[i])
  BY <1>1, RoomsPhotographed
<1> HIDE DEF given
<1>4. FewNames(Layouts!Ids(approved))
  BY FewIds
<1>5. /\ named \in Layouts!Plans /\ Len(named) = Len(given)
      /\ \A i \in 1..Len(given) : OnlyNamed(named, given, Layouts!Ids(approved), i)
      /\ Layouts!UniqueIds(named)
      /\ \A i \in 1..Len(named) : NamesFree(named[i], Layouts!Ids(approved))
  <2> DEFINE used == Layouts!Ids(approved)
  <2>1. FewNames(used) /\ named = Layouts!RoomsRenamed(given, used)
    BY <1>4
  <2> HIDE DEF used, named
  <2>2. /\ named \in Layouts!Plans /\ Len(named) = Len(given)
        /\ \A i \in 1..Len(given) : OnlyNamed(named, given, used, i)
        /\ Layouts!UniqueIds(named)
        /\ \A i \in 1..Len(named) : NamesFree(named[i], used)
    BY <1>3, <2>1, RoomsNamed
  <2> QED
    BY <2>2 DEF used
<1> HIDE DEF named
<1>6. ASSUME NEW i \in 1..Len(named) PROVE PhotosApart(named[i])
  <2>1. PhotosApart(given[i]) /\ OnlyNamed(named, given, Layouts!Ids(approved), i)
    BY <1>3, <1>5
  <2>2. /\ Len(named[i].tables) = Len(given[i].tables)
        /\ \A j \in 1..Len(given[i].tables) : named[i].tables[j].photo = given[i].tables[j].photo
    BY <2>1 DEF OnlyNamed
  <2> QED
    BY <2>1, <2>2 DEF PhotosApart
<1>7. Layouts!UniqueIds(approved) => Layouts!UniqueIds(new)
  BY <1>2, <1>5, UniqueTogether
<1>8. /\ new \in Layouts!Plans /\ Len(new) = Len(approved) + Len(named)
      /\ SubSeq(new, 1, Len(approved)) = approved
      /\ \A i \in (Len(approved) + 1)..Len(new) : new[i] = named[i - Len(approved)] /\ i - Len(approved) \in 1..Len(named)
  <2>1. approved \in Seq(Layouts!Rooms) /\ named \in Seq(Layouts!Rooms)
    BY <1>5 DEF Layouts!Plans
  <2> QED
    BY <1>2, <2>1, Extended DEF Layouts!Plans
<1>9. fresh # <<>> => Len(new) > Len(approved)
  <2>1. fresh # <<>> => Len(fresh) > 0
    BY <1>1 DEF Layouts!Plans
  <2>2. Len(approved) \in Nat /\ Len(named) = Len(fresh) /\ Len(fresh) \in Nat
    BY <1>1, <1>3, <1>5 DEF Layouts!Plans
  <2> QED
    BY <1>8, <2>1, <2>2
<1>10. fresh # <<>> => RoomsAdded(new, approved)
  BY <1>6, <1>8, <1>9 DEF RoomsAdded
<1> QED
  BY <1>7, <1>8, <1>10 DEF fresh

LEMMA SpaceMerged ==
    ASSUME NEW a \in Layouts!Spaces, NEW b \in Layouts!Spaces
    PROVE  Layouts!MergedSpace(a, b) \in Layouts!Spaces
<1> DEFINE w == Layouts!WithLabels(b, Layouts!Labels(b) \ Layouts!Labels(a))
<1>1. w \in Layouts!Spaces
  BY WithLabelsTyped DEF Layouts!Spaces
<1> HIDE DEF w
<1>2. a \o w \in Layouts!Spaces
  BY <1>1, Extended DEF Layouts!Spaces
<1> QED
  BY <1>2 DEF w, Layouts!MergedSpace, Layouts!Without

\* An edited room replaces its namesake.
LEMMA EditedMerged ==
    ASSUME NEW approved \in Layouts!Plans, NEW edited \in Layouts!Plans, NEW label \in Layouts!Labels(edited),
           NEW new, new = Layouts!MergedEdited(approved, edited, label)
    PROVE  new \in Layouts!Plans /\ OthersThere(new, approved, label)
<1> DEFINE same == {i \in DOMAIN edited : edited[i].label = label}
<1>1. same \in SUBSET Nat /\ same # {} /\ same \subseteq 1..Len(edited)
  <2>1. DOMAIN edited = 1..Len(edited) /\ Len(edited) \in Nat
    BY RoomsOf
  <2> QED
    BY <2>1 DEF Layouts!Labels
<1>2. Layouts!Room(edited, label) = edited[Layouts!Least(same)]
  BY DEF Layouts!Room
<1> HIDE DEF same
<1>3. Layouts!Room(edited, label) \in Layouts!Rooms
  BY <1>1, <1>2, LeastIs, RoomsOf
<1> DEFINE n == Len(approved)
           R(i) == IF approved[i].label = label THEN Layouts!Room(edited, label) ELSE approved[i]
<1>4. n \in Nat /\ DOMAIN approved = 1..n /\ \A i \in 1..n : approved[i] \in Layouts!Rooms
  BY RoomsOf
<1>5. new = [i \in 1..n |-> R(i)]
  BY <1>4 DEF Layouts!MergedEdited
<1>6. new \in [1..n -> Layouts!Rooms]
  BY <1>3, <1>4, <1>5
<1>7. new \in Layouts!Plans /\ Len(new) = n
  <2> HIDE DEF n
  <2> QED
    BY <1>4, <1>6, Listed DEF Layouts!Plans
<1>8. \A i \in 1..n : approved[i].label # label => new[i] = approved[i]
  BY <1>5
<1> QED
  BY <1>7, <1>8 DEF OthersThere

\* Giving tables their names leaves the rooms where they are.
LEMMA OthersStay ==
    ASSUME NEW layout \in Layouts!Plans, NEW old \in Layouts!Plans, NEW label, OthersThere(layout, old, label)
    PROVE  OthersNamed(Layouts!WithUniqueIds(layout), old, label)
<1>1. FewNames({})
  BY FS_EmptySet DEF FewNames
<1> DEFINE new == Layouts!WithUniqueIds(layout)
<1>2. new = Layouts!RoomsRenamed(layout, {})
  BY DEF Layouts!WithUniqueIds
<1> HIDE DEF new
<1>3. Len(new) = Len(layout) /\ \A i \in 1..Len(layout) : OnlyNamed(new, layout, {}, i)
  BY <1>1, <1>2, RoomsNamed
<1>4. ASSUME NEW i \in 1..Len(old), old[i].label # label
      PROVE  /\ Layouts!SameButIds(new[i], old[i])
             /\ \A j \in 1..Len(old[i].tables) :
                   \/ new[i].tables[j].id = old[i].tables[j].id
                   \/ Layouts!TakenBefore(new, i, j, old[i].tables[j].id)
  <2>1. layout[i] = old[i] /\ i \in 1..Len(layout)
    BY <1>4 DEF OthersThere
  <2>2. DOMAIN old[i].tables = 1..Len(old[i].tables)
    BY RoomsOf
  <2>3. OnlyNamed(new, layout, {}, i)
    BY <1>3, <2>1
  <2> QED
    BY <2>1, <2>2, <2>3 DEF OnlyNamed, Layouts!SameButIds
<1>5. OthersNamed(new, old, label)
  BY <1>3, <1>4 DEF OthersNamed, OthersThere
<1> QED
  BY <1>5 DEF new

LEMMA NamesMadeUnique ==
    ASSUME NEW layout \in Layouts!Plans
    PROVE  Layouts!WithUniqueIds(layout) \in Layouts!Plans /\ Layouts!UniqueIds(Layouts!WithUniqueIds(layout))
<1>1. FewNames({})
  BY FS_EmptySet DEF FewNames
<1> DEFINE new == Layouts!WithUniqueIds(layout)
<1>2. new = Layouts!RoomsRenamed(layout, {})
  BY DEF Layouts!WithUniqueIds
<1> HIDE DEF new
<1>3. new \in Layouts!Plans /\ Layouts!UniqueIds(new)
  BY <1>1, <1>2, RoomsNamed
<1> QED
  BY <1>3 DEF new

LEMMA HiddenTyped ==
    ASSUME NEW rooms \in Layouts!Plans, NEW label
    PROVE  Layouts!Hidden(rooms, label) \in Layouts!Plans
<1> DEFINE n == Len(rooms)
           R(i) == IF rooms[i].label = label THEN [rooms[i] EXCEPT !.hidden = TRUE] ELSE rooms[i]
           new == [i \in 1..n |-> R(i)]
<1>1. n \in Nat /\ DOMAIN rooms = 1..n /\ \A i \in 1..n : rooms[i] \in Layouts!Rooms
  BY RoomsOf
<1>2. ASSUME NEW i \in 1..n PROVE R(i) \in Layouts!Rooms
  BY <1>1 DEF Layouts!Rooms
<1>3. Layouts!Hidden(rooms, label) = new
  BY <1>1 DEF Layouts!Hidden
<1> HIDE DEF R, n
<1>4. new \in [1..n -> Layouts!Rooms]
  BY <1>2
<1> HIDE DEF new
<1>5. new \in Seq(Layouts!Rooms)
  BY <1>1, <1>4, Listed
<1> QED
  BY <1>3, <1>5 DEF Layouts!Plans

LEMMA MarkedTyped ==
    ASSUME NEW rooms \in Layouts!Plans, NEW id, NEW photo \in Shots \cup {NoPhoto}
    PROVE  Layouts!Marked(rooms, id, photo) \in Layouts!Plans
<1> DEFINE n == Len(rooms)
           T(t) == IF t.id = id THEN Layouts!Candidate(t, photo) ELSE t
           Ts(i) == [j \in DOMAIN rooms[i].tables |-> T(rooms[i].tables[j])]
           R(i) == [rooms[i] EXCEPT !.tables = Ts(i)]
           new == [i \in 1..n |-> R(i)]
<1>1. /\ n \in Nat /\ DOMAIN rooms = 1..n
      /\ \A i \in 1..n : /\ rooms[i] \in Layouts!Rooms /\ Len(rooms[i].tables) \in Nat
                         /\ DOMAIN rooms[i].tables = 1..Len(rooms[i].tables)
                         /\ \A j \in 1..Len(rooms[i].tables) : rooms[i].tables[j] \in Layouts!Tables
  BY RoomsOf
<1>2. ASSUME NEW t \in Layouts!Tables PROVE T(t) \in Layouts!Tables
  <2>1. [t EXCEPT !.chinChin = TRUE] \in Layouts!Tables
    BY DEF Layouts!Tables
  <2>2. ASSUME NEW p \in Shots \cup {NoPhoto}
        PROVE  [t EXCEPT !.chinChin = TRUE, !.photo = p] \in Layouts!Tables
    BY <2>1 DEF Layouts!Tables
  <2>3. t.photo \in Shots \cup {NoPhoto}
    BY DEF Layouts!Tables
  <2>4. CASE photo = NoPhoto
    <3>1. Layouts!Candidate(t, photo) = [t EXCEPT !.chinChin = TRUE, !.photo = t.photo]
      BY <2>4 DEF Layouts!Candidate, Layouts!Tables
    <3> QED
      BY <2>2, <2>3, <3>1
  <2>5. CASE photo # NoPhoto
    <3>1. Layouts!Candidate(t, photo) = [t EXCEPT !.chinChin = TRUE, !.photo = photo]
      BY <2>5 DEF Layouts!Candidate
    <3> QED
      BY <2>2, <3>1
  <2> QED
    BY <2>4, <2>5
<1>3. Layouts!Marked(rooms, id, photo) = new
  BY <1>1 DEF Layouts!Marked
<1> HIDE DEF T
<1>4. ASSUME NEW i \in 1..n PROVE Ts(i) \in Seq(Layouts!Tables)
  <2> DEFINE m == Len(rooms[i].tables)
  <2>1. Ts(i) \in [1..m -> Layouts!Tables] /\ m \in Nat
    BY <1>1, <1>2
  <2> HIDE DEF m, Ts
  <2> QED
    BY <2>1, Listed
<1> HIDE DEF Ts
<1>5. ASSUME NEW i \in 1..n PROVE R(i) \in Layouts!Rooms
  BY <1>1, <1>4 DEF Layouts!Rooms
<1> HIDE DEF R, n
<1>6. new \in [1..n -> Layouts!Rooms]
  BY <1>5
<1> HIDE DEF new
<1>7. new \in Seq(Layouts!Rooms)
  BY <1>1, <1>6, Listed
<1> QED
  BY <1>3, <1>7 DEF Layouts!Plans

LEMMA AdjustedTyped ==
    ASSUME NEW layout \in Layouts!Plans, NEW dto \in Layouts!Adjusted(layout)
    PROVE  dto \in Layouts!Plans
  BY LayoutConstants DEF Layouts!Adjusted, Layouts!LayoutReviewBounds

-----------------------------------------------------------------------------
(* The invariant of the layouts.                                               *)

Adds(h)  == Layouts!IsKind(frame[h].row, "ADD_ROOM")
Edits(h) == Layouts!IsKind(frame[h].row, "EDIT_SPACE") /\ ~Adds(h) /\ ~frame[h].forced

\* What a handler carries from its reads to its write.
CarriesGood(h) ==
    /\ pc[h] = "create" =>
          /\ ~frame[h].row.panel /\ frame[h].row.status # "APPROVED"
          /\ frame[h].row.approvedAt = 0
    /\ pc[h] \in {"merge", "space", "approve"} => frame[h].project \in Layouts!Projects
    /\ pc[h] = "space" => Adds(h)
    /\ pc[h] \in {"space", "approve"} /\ Adds(h) =>
          \A s \in Layouts!LatestApproved(frame[h].project) : project[s].panel =>
             /\ Layouts!UniqueIds(frame[h].row.layout)
             /\ RoomsAdded(frame[h].row.layout, project[s].layout)
    /\ pc[h] = "approve" /\ Edits(h) =>
          \A s \in Layouts!LatestApproved(frame[h].project) :
             OthersThere(frame[h].row.layout, project[s].layout, frame[h].row.label)

\* Layouts the panel approved have names of their own, approvals have an order.
LayoutsGood ==
    /\ project \in [Layouts!Projects -> Layouts!Rows]
    /\ approvals \in Nat
    /\ \A p \in Layouts!Projects : project[p].approvedAt <= approvals
    /\ \A p \in Layouts!Projects : project[p].panel => Layouts!UniqueIds(project[p].layout)
    /\ \A p, q \in Layouts!Approved : project[p].approvedAt = project[q].approvedAt => p = q

HandlersTyped == pc \in [Requests -> Layouts!Steps] /\ frame \in [Requests -> Layouts!Frames]

OneAtWork == \A g, h \in Requests : pc[g] # "idle" /\ pc[h] # "idle" => g = h

LayoutInv ==
    /\ LayoutsGood /\ saves \in 0..MaxLayouts
    /\ HandlersTyped /\ OneAtWork
    /\ \A h \in Requests : CarriesGood(h)

\* A row that is written keeps the layouts good.
LEMMA RowWritten ==
    ASSUME LayoutInv, NEW p \in Layouts!Projects, NEW entry \in Layouts!Rows,
           project' = [project EXCEPT ![p] = entry],
           approvals' \in Nat, approvals <= approvals', entry.approvedAt <= approvals',
           entry.panel => Layouts!UniqueIds(entry.layout),
           entry.status = "APPROVED" => approvals < entry.approvedAt
    PROVE  LayoutsGood'
<1> USE DEF LayoutInv, LayoutsGood
<1>1. project' \in [Layouts!Projects -> Layouts!Rows]
  OBVIOUS
<1>2. project'[p] = entry /\ \A q \in Layouts!Projects : q # p => project'[q] = project[q]
  OBVIOUS
<1>3. \A q \in Layouts!Projects : project[q].approvedAt \in Nat
  BY DEF Layouts!Rows
<1>4. entry.approvedAt \in Nat
  BY DEF Layouts!Rows
<1>5. \A q \in Layouts!Projects : project'[q].approvedAt <= approvals'
  <2> TAKE q \in Layouts!Projects
  <2>1. project[q].approvedAt \in Nat /\ project[q].approvedAt <= approvals /\ approvals \in Nat
    BY <1>3
  <2> QED
    BY <1>2, <2>1
<1>6. \A q \in Layouts!Projects : project'[q].panel => Layouts!UniqueIds(project'[q].layout)
  BY <1>2
<1>7. ASSUME NEW q \in Layouts!Projects, NEW r \in Layouts!Projects, project'[q].status = "APPROVED",
             project'[r].status = "APPROVED", project'[q].approvedAt = project'[r].approvedAt
      PROVE  q = r
  <2>1. ASSUME NEW s \in Layouts!Projects, entry.status = "APPROVED" PROVE project[s].approvedAt # entry.approvedAt
    <3>1. project[s].approvedAt <= approvals /\ approvals < entry.approvedAt /\ approvals \in Nat
      BY <2>1
    <3> QED
      BY <1>3, <1>4, <3>1
  <2>2. CASE q # p /\ r # p
    BY <1>2, <1>7, <2>2 DEF Layouts!Approved
  <2>3. CASE q = p /\ r # p
    BY <1>2, <1>7, <2>1, <2>3
  <2>4. CASE q # p /\ r = p
    BY <1>2, <1>7, <2>1, <2>4
  <2> QED
    BY <2>2, <2>3, <2>4
<1>8. Layouts!Approved' = {q \in Layouts!Projects : project'[q].status = "APPROVED"}
  BY DEF Layouts!Approved, Layouts!Projects
<1>9. Layouts!Projects' = Layouts!Projects /\ Layouts!Rows' = Layouts!Rows
  BY DEF Layouts!Projects
<1> QED
  BY <1>1, <1>5, <1>6, <1>7, <1>8

RoomsStay == Layouts!RoomAddedWhole /\ Layouts!OtherRoomsKept

\* A step that is no approval.
NoApproval == \A h \in Requests : pc[h] = "approve" => pc'[h] # "idle"

LEMMA NothingApproved ==
    ASSUME NoApproval
    PROVE  RoomsStay
BY DEF NoApproval, RoomsStay, Layouts!RoomAddedWhole, Layouts!OtherRoomsKept, Layouts!Approves

LEMMA NoProjectTyped == Layouts!NoProject \in Layouts!Rows /\ Layouts!Idle \in Layouts!Frames
<1>1. MaxProjects \in Nat
  BY LayoutConstants DEF Layouts!LayoutReviewBounds
<1>2. <<>> \in Layouts!Plans /\ <<>> \in Layouts!Spaces
  BY DEF Layouts!Plans, Layouts!Spaces
<1>3. Layouts!NoProject \in Layouts!Rows
  BY <1>2 DEF Layouts!NoProject, Layouts!Rows, Layouts!Statuses, Layouts!Changes
<1> HIDE DEF Layouts!NoProject
<1>4. Layouts!Idle \in Layouts!Frames
  BY <1>1, <1>2, <1>3 DEF Layouts!Idle, Layouts!Frames
<1> QED
  BY <1>3, <1>4

LEMMA LayoutInvInit == Layouts!Init => LayoutInv
<1> SUFFICES ASSUME Layouts!Init PROVE LayoutInv
  OBVIOUS
<1> USE DEF Layouts!Init
<1>1. /\ Layouts!NoProject.status = "NONE" /\ Layouts!NoProject.panel = FALSE
      /\ Layouts!NoProject.approvedAt = 0
  BY DEF Layouts!NoProject
<1>2. MaxLayouts \in Nat
  BY LayoutConstants DEF Layouts!LayoutReviewBounds
<1>3. LayoutsGood
  BY <1>1, NoProjectTyped DEF LayoutsGood, Layouts!Approved
<1>4. HandlersTyped /\ OneAtWork
  BY NoProjectTyped DEF HandlersTyped, OneAtWork, Layouts!Steps
<1>5. \A h \in Requests : CarriesGood(h)
  BY DEF CarriesGood
<1> QED
  BY <1>2, <1>3, <1>4, <1>5 DEF LayoutInv

\* What a step leaves alone.
LEMMA LayoutsTheSame ==
    ASSUME LayoutInv, UNCHANGED <<project, approvals>>
    PROVE  LayoutsGood'
BY DEF LayoutInv, LayoutsGood, Layouts!Approved, Layouts!Projects, Layouts!Rows

\* A step between two handlers.
LEMMA QuietStep ==
    ASSUME LayoutInv, Layouts!Quiet, UNCHANGED <<pc, frame>>, LayoutsGood', saves' \in 0..MaxLayouts
    PROVE  LayoutInv' /\ RoomsStay
<1>1. \A h \in Requests : pc'[h] = "idle" /\ pc[h] = "idle"
  BY DEF Layouts!Quiet
<1>2. NoApproval
  BY <1>1 DEF NoApproval
<1>3. HandlersTyped' /\ OneAtWork'
  BY <1>1 DEF LayoutInv, HandlersTyped, OneAtWork
<1>4. \A h \in Requests : CarriesGood(h)'
  BY <1>1 DEF CarriesGood
<1> QED
  BY <1>2, <1>3, <1>4, NothingApproved DEF LayoutInv

\* A handler that starts or goes on, while the others are idle and no row is written.
LEMMA HandlerStep ==
    ASSUME LayoutInv, NEW h \in Requests, \A g \in Requests : g # h => pc[g] = "idle",
           UNCHANGED <<project, approvals, saves>>,
           NEW label \in Layouts!Steps, NEW f \in Layouts!Frames,
           pc' = [pc EXCEPT ![h] = label], frame' = [frame EXCEPT ![h] = f],
           pc[h] = "approve" => label # "idle", CarriesGood(h)'
    PROVE  LayoutInv' /\ RoomsStay
<1>1. /\ pc'[h] = label /\ \A g \in Requests : g # h => pc'[g] = "idle"
      /\ frame'[h] = f
  BY DEF LayoutInv, HandlersTyped
<1>2. NoApproval
  BY <1>1 DEF NoApproval
<1>3. HandlersTyped' /\ OneAtWork'
  BY <1>1 DEF LayoutInv, HandlersTyped, OneAtWork
<1>4. ASSUME NEW g \in Requests PROVE CarriesGood(g)'
  <2>1. g # h => CarriesGood(g)'
    BY <1>1 DEF CarriesGood
  <2> QED
    BY <2>1
<1>5. LayoutsGood'
  BY LayoutsTheSame
<1> QED
  BY <1>2, <1>3, <1>4, <1>5, NothingApproved DEF LayoutInv

\* The last step of a handler that writes a row.
LEMMA LastStep ==
    ASSUME LayoutInv, NEW h \in Requests, \A g \in Requests : g # h => pc[g] = "idle",
           Layouts!Finish(h), LayoutsGood', saves' = saves
    PROVE  LayoutInv'
<1>1. \A g \in Requests : pc'[g] = "idle"
  BY DEF LayoutInv, HandlersTyped, Layouts!Finish, Layouts!Goto
<1>2. HandlersTyped' /\ OneAtWork'
  BY <1>1, NoProjectTyped DEF LayoutInv, HandlersTyped, OneAtWork, Layouts!Finish, Layouts!Goto, Layouts!Steps
<1>3. \A g \in Requests : CarriesGood(g)'
  BY <1>1 DEF CarriesGood
<1> QED
  BY <1>2, <1>3 DEF LayoutInv

LEMMA OthersIdle ==
    ASSUME LayoutInv, NEW h \in Requests, pc[h] # "idle"
    PROVE  \A g \in Requests : g # h => pc[g] = "idle"
BY DEF LayoutInv, OneAtWork

\* A row with some of its columns written.
LEMMA RowEdited ==
    ASSUME NEW entry \in Layouts!Rows
    PROVE  /\ \A v \in Layouts!Statuses : [entry EXCEPT !.status = v] \in Layouts!Rows
           /\ \A v \in Layouts!Changes : /\ [entry EXCEPT !.asked = v] \in Layouts!Rows
                                         /\ [entry EXCEPT !.saved = v] \in Layouts!Rows
           /\ \A v \in RoomNames \cup {None} : [entry EXCEPT !.label = v] \in Layouts!Rows
           /\ \A v \in Layouts!Plans : [entry EXCEPT !.layout = v] \in Layouts!Rows
           /\ \A v \in Layouts!Spaces : [entry EXCEPT !.space = v] \in Layouts!Rows
           /\ \A v \in BOOLEAN : /\ [entry EXCEPT !.submitted = v] \in Layouts!Rows
                                 /\ [entry EXCEPT !.panel = v] \in Layouts!Rows
           /\ \A v \in Nat : [entry EXCEPT !.approvedAt = v] \in Layouts!Rows
<1> USE DEF Layouts!Rows
<1>1. \A v \in Layouts!Statuses : [entry EXCEPT !.status = v] \in Layouts!Rows
  OBVIOUS
<1>2. \A v \in Layouts!Changes : [entry EXCEPT !.asked = v] \in Layouts!Rows
  OBVIOUS
<1>3. \A v \in Layouts!Changes : [entry EXCEPT !.saved = v] \in Layouts!Rows
  OBVIOUS
<1>4. \A v \in RoomNames \cup {None} : [entry EXCEPT !.label = v] \in Layouts!Rows
  OBVIOUS
<1>5. \A v \in Layouts!Plans : [entry EXCEPT !.layout = v] \in Layouts!Rows
  OBVIOUS
<1>6. \A v \in Layouts!Spaces : [entry EXCEPT !.space = v] \in Layouts!Rows
  OBVIOUS
<1>7. \A v \in BOOLEAN : [entry EXCEPT !.submitted = v] \in Layouts!Rows
  OBVIOUS
<1>8. \A v \in BOOLEAN : [entry EXCEPT !.panel = v] \in Layouts!Rows
  OBVIOUS
<1>9. \A v \in Nat : [entry EXCEPT !.approvedAt = v] \in Layouts!Rows
  OBVIOUS
<1> QED
  BY <1>1, <1>2, <1>3, <1>4, <1>5, <1>6, <1>7, <1>8, <1>9

\* A row that is added keeps the layouts good.
LEMMA RowAdded ==
    ASSUME LayoutInv, NEW entry \in Layouts!Rows, entry.status # "APPROVED", ~entry.panel, entry.approvedAt = 0,
           Layouts!Insert(entry), approvals' = approvals
    PROVE  LayoutsGood'
<1> DEFINE p == Layouts!Cardinality(Layouts!Stored) + 1
<1>1. p \in Layouts!Projects /\ project' = [project EXCEPT ![p] = entry]
  BY DEF Layouts!Insert
<1>2. approvals' \in Nat /\ approvals <= approvals' /\ entry.approvedAt <= approvals'
  BY DEF LayoutInv, LayoutsGood
<1> HIDE DEF p
<1> QED
  BY <1>1, <1>2, RowWritten

LEMMA InputsTyped ==
    /\ \A k \in Packages : k.layout \in Layouts!Plans /\ k.space \in Layouts!Spaces
    /\ \A label \in AskedRooms : label \in RoomNames \cup {None}
    /\ \A photo \in Photos : photo \in Shots \cup {NoPhoto}
BY LayoutConstants DEF Layouts!LayoutReviewBounds

LEMMA CreateGood ==
    ASSUME LayoutInv, NEW k \in Packages, Layouts!Create(k)
    PROVE  LayoutInv' /\ RoomsStay
<1> DEFINE entry == [Layouts!NoProject EXCEPT !.status = "DRAFT", !.space = k.space]
<1>1. entry \in Layouts!Rows /\ entry.status = "DRAFT" /\ ~entry.panel /\ entry.approvedAt = 0
  <2>1. k.space \in Layouts!Spaces
    BY InputsTyped
  <2>2. /\ Layouts!NoProject.panel = FALSE /\ Layouts!NoProject.approvedAt = 0
    BY DEF Layouts!NoProject
  <2> QED
    BY <2>1, <2>2, NoProjectTyped DEF Layouts!Rows, Layouts!Statuses
<1>2. Layouts!Insert(entry) /\ approvals' = approvals /\ saves' = saves /\ UNCHANGED <<pc, frame>> /\ Layouts!Quiet
  BY DEF Layouts!Create
<1> HIDE DEF entry
<1>3. LayoutsGood'
  BY <1>1, <1>2, RowAdded
<1> QED
  BY <1>2, <1>3, QuietStep DEF LayoutInv

\* A kind of review asks for nothing else.
LEMMA SubmittedTyped ==
    ASSUME NEW kind \in Layouts!Changes, NEW layout \in Layouts!Plans, NEW space \in Layouts!Spaces,
           NEW entry, entry = Layouts!Submitted(kind, layout, space)
    PROVE  entry \in Layouts!Rows /\ entry.status # "APPROVED" /\ ~entry.panel /\ entry.approvedAt = 0
BY NoProjectTyped DEF Layouts!Submitted, Layouts!NoProject, Layouts!Rows, Layouts!Statuses

LEMMA SubmitCompleteGood ==
    ASSUME LayoutInv, NEW k \in Packages, NEW kind \in {"COMPLETE", "ADD_ROOM"}, Layouts!SubmitComplete(k, kind)
    PROVE  LayoutInv' /\ RoomsStay
<1> DEFINE entry == Layouts!Submitted(kind, k.layout, k.space)
<1>1. kind \in Layouts!Changes
  BY DEF Layouts!Changes
<1>2. entry \in Layouts!Rows /\ entry.status # "APPROVED" /\ ~entry.panel /\ entry.approvedAt = 0
  BY <1>1, InputsTyped, SubmittedTyped
<1>3. Layouts!Insert(entry) /\ approvals' = approvals /\ saves' = saves /\ UNCHANGED <<pc, frame>> /\ Layouts!Quiet
  BY DEF Layouts!SubmitComplete
<1> HIDE DEF entry
<1>4. LayoutsGood'
  BY <1>2, <1>3, RowAdded
<1> QED
  BY <1>3, <1>4, QuietStep DEF LayoutInv

\* A row written between two handlers.
LEMMA QuietWrite ==
    ASSUME LayoutInv, Layouts!Quiet, UNCHANGED <<pc, frame>>, saves' \in 0..MaxLayouts,
           NEW p \in Layouts!Projects, NEW entry \in Layouts!Rows,
           project' = [project EXCEPT ![p] = entry],
           entry.panel => Layouts!UniqueIds(entry.layout),
           \/ approvals' = approvals /\ entry.status # "APPROVED" /\ entry.approvedAt <= approvals
           \/ approvals' = approvals + 1 /\ entry.approvedAt = approvals + 1
    PROVE  LayoutInv' /\ RoomsStay
<1>1. approvals \in Nat
  BY DEF LayoutInv, LayoutsGood
<1>2. approvals' \in Nat /\ approvals <= approvals' /\ entry.approvedAt <= approvals'
      /\ (entry.status = "APPROVED" => approvals < entry.approvedAt)
  BY <1>1
<1>3. LayoutsGood'
  BY <1>2, RowWritten
<1> QED
  BY <1>3, QuietStep

LEMMA StoredTyped ==
    ASSUME LayoutInv, NEW p \in Layouts!Projects
    PROVE  /\ project[p] \in Layouts!Rows /\ project[p].layout \in Layouts!Plans
           /\ project[p].space \in Layouts!Spaces /\ project[p].approvedAt <= approvals
           /\ project[p].panel \in BOOLEAN /\ approvals \in Nat
BY DEF LayoutInv, LayoutsGood, Layouts!Rows

LEMMA SaveLayoutGood ==
    ASSUME LayoutInv, NEW p \in Layouts!Projects, NEW k \in Packages, Layouts!SaveLayout(p, k)
    PROVE  LayoutInv' /\ RoomsStay
<1> DEFINE old == project[p]
           entry == [old EXCEPT !.status = "SAVED", !.saved = "COMPLETE", !.layout = k.layout, !.panel = FALSE]
<1>1. old \in Layouts!Rows /\ old.approvedAt <= approvals /\ k.layout \in Layouts!Plans
  BY StoredTyped, InputsTyped
<1>2. project' = [project EXCEPT ![p] = entry] /\ Layouts!Quiet /\ UNCHANGED <<approvals, pc, frame>>
  BY DEF Layouts!SaveLayout
<1>3. saves' \in 0..MaxLayouts
  BY LayoutConstants DEF Layouts!SaveLayout, Layouts!MayDecide, LayoutInv, LayoutsGood, Layouts!LayoutReviewBounds
<1> HIDE DEF old
<1>4. entry \in Layouts!Rows /\ entry.status = "SAVED" /\ entry.panel = FALSE /\ entry.approvedAt = old.approvedAt
  BY <1>1 DEF Layouts!Rows, Layouts!Statuses, Layouts!Changes
<1> HIDE DEF entry
<1> QED
  BY <1>1, <1>2, <1>3, <1>4, QuietWrite

LEMMA GenerateSuggestionGood ==
    ASSUME LayoutInv, NEW p \in Layouts!Projects, Layouts!GenerateSuggestion(p)
    PROVE  LayoutInv' /\ RoomsStay
<1> DEFINE old == project[p]
           entry == [old EXCEPT !.status = "AI_SUGGESTED"]
<1>1. old \in Layouts!Rows /\ old.approvedAt <= approvals /\ (old.panel => Layouts!UniqueIds(old.layout))
  BY StoredTyped DEF LayoutInv, LayoutsGood
<1>2. project' = [project EXCEPT ![p] = entry] /\ Layouts!Quiet /\ UNCHANGED <<approvals, pc, frame, saves>>
  BY DEF Layouts!GenerateSuggestion
<1> HIDE DEF old
<1>3. /\ entry \in Layouts!Rows /\ entry.status = "AI_SUGGESTED" /\ entry.panel = old.panel
      /\ entry.approvedAt = old.approvedAt /\ entry.layout = old.layout
  BY <1>1 DEF Layouts!Rows, Layouts!Statuses
<1> HIDE DEF entry
<1> QED
  BY <1>1, <1>2, <1>3, QuietWrite DEF LayoutInv

LEMMA SubmitForReviewGood ==
    ASSUME LayoutInv, NEW p \in Layouts!Projects, Layouts!SubmitForReview(p)
    PROVE  LayoutInv' /\ RoomsStay
<1> DEFINE old == project[p]
           entry == [old EXCEPT !.status = "PENDING_CHIN_CHIN_REVIEW", !.asked = "COMPLETE", !.submitted = TRUE]
<1>1. old \in Layouts!Rows /\ old.approvedAt <= approvals /\ (old.panel => Layouts!UniqueIds(old.layout))
  BY StoredTyped DEF LayoutInv, LayoutsGood
<1>2. project' = [project EXCEPT ![p] = entry] /\ Layouts!Quiet /\ UNCHANGED <<approvals, pc, frame, saves>>
  BY DEF Layouts!SubmitForReview
<1> HIDE DEF old
<1>3. /\ entry \in Layouts!Rows /\ entry.status = "PENDING_CHIN_CHIN_REVIEW" /\ entry.panel = old.panel
      /\ entry.approvedAt = old.approvedAt /\ entry.layout = old.layout
  BY <1>1 DEF Layouts!Rows, Layouts!Statuses, Layouts!Changes
<1> HIDE DEF entry
<1> QED
  BY <1>1, <1>2, <1>3, QuietWrite DEF LayoutInv

LEMMA ReviewRejectGood ==
    ASSUME LayoutInv, NEW p \in Layouts!Projects, Layouts!ReviewReject(p)
    PROVE  LayoutInv' /\ RoomsStay
<1> DEFINE old == project[p]
           entry == [old EXCEPT !.status = "CHIN_CHIN_CHANGES_REQUESTED", !.approvedAt = 0]
<1>1. old \in Layouts!Rows /\ approvals \in Nat /\ (old.panel => Layouts!UniqueIds(old.layout))
  BY StoredTyped DEF LayoutInv, LayoutsGood
<1>2. project' = [project EXCEPT ![p] = entry] /\ Layouts!Quiet /\ UNCHANGED <<approvals, pc, frame, saves>>
  BY DEF Layouts!ReviewReject
<1> HIDE DEF old
<1>3. /\ entry \in Layouts!Rows /\ entry.status = "CHIN_CHIN_CHANGES_REQUESTED" /\ entry.panel = old.panel
      /\ entry.approvedAt = 0 /\ entry.layout = old.layout
  BY <1>1 DEF Layouts!Rows, Layouts!Statuses, Layouts!Changes
<1>4. entry.status # "APPROVED" /\ entry.approvedAt <= approvals /\ (entry.panel => Layouts!UniqueIds(entry.layout))
  BY <1>1, <1>3
<1> HIDE DEF entry
<1> QED
  BY <1>2, <1>3, <1>4, QuietWrite DEF LayoutInv

LEMMA ReviewApproveGood ==
    ASSUME LayoutInv, NEW p \in Layouts!Projects, Layouts!ReviewApprove(p)
    PROVE  LayoutInv' /\ RoomsStay
<1> DEFINE old == project[p]
           unique == Layouts!WithUniqueIds(old.layout)
           entry == [old EXCEPT !.status = "APPROVED", !.approvedAt = approvals + 1]
           adjusted == [old EXCEPT !.status = "APPROVED", !.approvedAt = approvals + 1,
                                   !.saved = "COMPLETE", !.layout = unique, !.panel = TRUE]
<1>1. old \in Layouts!Rows /\ approvals \in Nat /\ (old.panel => Layouts!UniqueIds(old.layout))
  BY StoredTyped DEF LayoutInv, LayoutsGood
<1>2. unique \in Layouts!Plans /\ Layouts!UniqueIds(unique)
  BY StoredTyped, NamesMadeUnique
<1>3. /\ project' = [project EXCEPT ![p] = entry] \/ project' = [project EXCEPT ![p] = adjusted]
      /\ Layouts!Quiet /\ approvals' = approvals + 1 /\ UNCHANGED <<pc, frame, saves>>
  <2>1. project' = [project EXCEPT ![p] = entry] \/ project' = [project EXCEPT ![p] = adjusted]
    BY DEF Layouts!ReviewApprove, Layouts!Dated
  <2> QED
    BY <2>1 DEF Layouts!ReviewApprove, Layouts!Dated
<1> HIDE DEF old, unique
<1>4. /\ entry \in Layouts!Rows /\ entry.panel = old.panel
      /\ entry.approvedAt = approvals + 1 /\ entry.layout = old.layout
  <2>1. "APPROVED" \in Layouts!Statuses /\ approvals + 1 \in Nat
    BY <1>1 DEF Layouts!Statuses
  <2> QED
    BY <1>1, <2>1 DEF Layouts!Rows
<1>5. /\ adjusted \in Layouts!Rows /\ adjusted.approvedAt = approvals + 1 /\ adjusted.layout = unique
  <2>1. "APPROVED" \in Layouts!Statuses /\ "COMPLETE" \in Layouts!Changes /\ approvals + 1 \in Nat
    BY <1>1 DEF Layouts!Statuses, Layouts!Changes
  <2> QED
    BY <1>1, <1>2, <2>1 DEF Layouts!Rows
<1> HIDE DEF entry, adjusted
<1>6. CASE project' = [project EXCEPT ![p] = entry]
  BY <1>1, <1>3, <1>4, <1>6, QuietWrite DEF LayoutInv
<1>7. CASE project' = [project EXCEPT ![p] = adjusted]
  BY <1>2, <1>3, <1>5, <1>7, QuietWrite DEF LayoutInv
<1> QED
  BY <1>3, <1>6, <1>7

LEMMA FrameTyped ==
    ASSUME LayoutInv, NEW h \in Requests
    PROVE  /\ frame[h] \in Layouts!Frames /\ frame[h].row \in Layouts!Rows /\ frame[h].dto \in Layouts!Plans
           /\ frame[h].row.layout \in Layouts!Plans /\ frame[h].row.space \in Layouts!Spaces
           /\ frame[h].row.asked \in Layouts!Changes /\ frame[h].row.saved \in Layouts!Changes
           /\ pc[h] \in Layouts!Steps
<1>1. frame[h] \in Layouts!Frames /\ pc[h] \in Layouts!Steps
  BY DEF LayoutInv, HandlersTyped
<1>2. frame[h].row \in Layouts!Rows /\ frame[h].dto \in Layouts!Plans
  BY <1>1 DEF Layouts!Frames
<1>3. /\ frame[h].row.layout \in Layouts!Plans /\ frame[h].row.space \in Layouts!Spaces
      /\ frame[h].row.asked \in Layouts!Changes /\ frame[h].row.saved \in Layouts!Changes
  BY <1>2 DEF Layouts!Rows
<1> QED
  BY <1>1, <1>2, <1>3

\* A change that is asked for waits to be written.
LEMMA BeginGood ==
    ASSUME LayoutInv, NEW h \in Requests, NEW kind \in Layouts!Changes, NEW label \in RoomNames \cup {None},
           NEW s \in Layouts!Projects, NEW layout \in Layouts!Plans, Layouts!Begin(h, kind, label, s, layout)
    PROVE  LayoutInv' /\ RoomsStay
<1> DEFINE wanted == Layouts!Submitted(kind, layout, project[s].space)
           entry == [wanted EXCEPT !.label = label]
           f == [Layouts!Idle EXCEPT !.row = entry]
<1>1. /\ pc' = [pc EXCEPT ![h] = "create"] /\ frame' = [frame EXCEPT ![h] = f]
      /\ UNCHANGED <<project, approvals, saves>> /\ pc[h] = "idle"
      /\ \A g \in Requests : pc[g] = "idle"
  BY DEF Layouts!Begin, Layouts!Quiet, Layouts!Goto
<1>2. wanted \in Layouts!Rows /\ wanted.status # "APPROVED" /\ ~wanted.panel /\ wanted.approvedAt = 0
  BY StoredTyped, SubmittedTyped
<1> HIDE DEF wanted
<1>3. entry \in Layouts!Rows /\ entry.status # "APPROVED" /\ ~entry.panel /\ entry.approvedAt = 0
  BY <1>2 DEF Layouts!Rows
<1> HIDE DEF entry
<1>4. f \in Layouts!Frames /\ f.row = entry
  <2>1. Layouts!Idle \in Layouts!Frames
    BY NoProjectTyped
  <2> QED
    BY <1>3, <2>1 DEF Layouts!Frames
<1> HIDE DEF f
<1>5. pc'[h] = "create" /\ frame'[h] = f
  BY <1>1 DEF LayoutInv, HandlersTyped
<1>6. CarriesGood(h)'
  BY <1>3, <1>4, <1>5 DEF CarriesGood
<1>7. "create" \in Layouts!Steps
  BY DEF Layouts!Steps
<1> QED
  BY <1>1, <1>4, <1>6, <1>7, HandlerStep

LEMMA SourceStored ==
    ASSUME NEW s \in Layouts!Source
    PROVE  s \in Layouts!Projects
BY DEF Layouts!Source, Layouts!LastOf, Layouts!Approved, Layouts!Stored

LEMMA RequestTableGood ==
    ASSUME LayoutInv, NEW h \in Requests, NEW s \in Layouts!Projects, NEW id, NEW photo \in Photos,
           Layouts!RequestTable(h, s, id, photo)
    PROVE  LayoutInv' /\ RoomsStay
<1> DEFINE layout == Layouts!Marked(project[s].layout, id, photo)
<1>1. layout \in Layouts!Plans
  BY StoredTyped, InputsTyped, MarkedTyped
<1>2. Layouts!Begin(h, "TABLES", None, s, layout)
  BY DEF Layouts!RequestTable
<1>3. "TABLES" \in Layouts!Changes
  BY DEF Layouts!Changes
<1> HIDE DEF layout
<1> QED
  BY <1>1, <1>2, <1>3, BeginGood

LEMMA RequestTableDeletionGood ==
    ASSUME LayoutInv, NEW h \in Requests, NEW s \in Layouts!Projects, NEW id,
           Layouts!RequestTableDeletion(h, s, id)
    PROVE  LayoutInv' /\ RoomsStay
<1>1. Layouts!Begin(h, "TABLES", None, s, project[s].layout)
  BY DEF Layouts!RequestTableDeletion
<1>2. "TABLES" \in Layouts!Changes
  BY DEF Layouts!Changes
<1> QED
  BY <1>1, <1>2, StoredTyped, BeginGood

LEMMA RequestSpaceChangeGood ==
    ASSUME LayoutInv, NEW h \in Requests, NEW s \in Layouts!Projects,
           NEW kind \in {"EDIT_SPACE", "DELETE_ROOM", "HIDE_ROOM"}, NEW label \in AskedRooms,
           Layouts!RequestSpaceChange(h, s, kind, label)
    PROVE  LayoutInv' /\ RoomsStay
<1>1. Layouts!Begin(h, kind, label, s, project[s].layout)
  BY DEF Layouts!RequestSpaceChange
<1>2. kind \in Layouts!Changes
  BY DEF Layouts!Changes
<1>3. label \in RoomNames \cup {None}
  BY InputsTyped
<1> QED
  BY <1>1, <1>2, <1>3, StoredTyped, BeginGood

LEMMA RequestCreateGood ==
    ASSUME LayoutInv, NEW h \in Requests, Layouts!RequestCreate(h)
    PROVE  LayoutInv' /\ RoomsStay
<1>1. /\ pc[h] = "create" /\ Layouts!Insert(frame[h].row) /\ Layouts!Finish(h)
      /\ approvals' = approvals /\ saves' = saves
  BY DEF Layouts!RequestCreate
<1>2. CarriesGood(h)
  BY DEF LayoutInv
<1>3. frame[h].row \in Layouts!Rows
  BY FrameTyped
<1>4. LayoutsGood'
  BY <1>1, <1>2, <1>3, RowAdded DEF CarriesGood
<1>5. \A g \in Requests : g # h => pc[g] = "idle"
  BY <1>1, OthersIdle
<1>6. LayoutInv'
  BY <1>1, <1>4, <1>5, LastStep
<1>7. NoApproval
  BY <1>1, <1>5 DEF NoApproval
<1> QED
  BY <1>6, <1>7, NothingApproved

LEMMA ApproveBeginGood ==
    ASSUME LayoutInv, NEW h \in Requests, NEW p \in Layouts!Projects, NEW forced \in BOOLEAN,
           NEW dto \in Layouts!Adjusted(project[p].layout), Layouts!ApproveBegin(h, p, dto, forced)
    PROVE  LayoutInv' /\ RoomsStay
<1> DEFINE entry == project[p]
           f == [Layouts!Idle EXCEPT !.project = p, !.row = entry, !.dto = dto, !.forced = forced]
<1>1. /\ pc' = [pc EXCEPT ![h] = "merge"] /\ frame' = [frame EXCEPT ![h] = f]
      /\ UNCHANGED <<project, approvals, saves>> /\ pc[h] = "idle"
      /\ \A g \in Requests : pc[g] = "idle"
  BY DEF Layouts!ApproveBegin, Layouts!Quiet, Layouts!Goto
<1>2. dto \in Layouts!Plans /\ entry \in Layouts!Rows
  BY StoredTyped, AdjustedTyped
<1> HIDE DEF entry
<1>3. f \in Layouts!Frames /\ f.project = p
  <2>1. Layouts!Idle \in Layouts!Frames /\ p \in 0..MaxProjects
    BY NoProjectTyped DEF Layouts!Projects
  <2> QED
    BY <1>2, <2>1 DEF Layouts!Frames
<1> HIDE DEF f
<1>4. pc'[h] = "merge" /\ frame'[h] = f
  BY <1>1 DEF LayoutInv, HandlersTyped
<1>5. CarriesGood(h)'
  <2>1. Layouts!Projects' = Layouts!Projects
    BY DEF Layouts!Projects
  <2> QED
    BY <1>3, <1>4, <2>1 DEF CarriesGood
<1>6. "merge" \in Layouts!Steps
  BY DEF Layouts!Steps
<1> QED
  BY <1>1, <1>3, <1>5, <1>6, HandlerStep

LEMMA RefusedGood ==
    ASSUME LayoutInv, NEW h \in Requests, pc[h] = "merge", Layouts!Refused(h)
    PROVE  LayoutInv' /\ RoomsStay
<1>1. Layouts!Finish(h) /\ UNCHANGED <<project, approvals, saves>>
  BY DEF Layouts!Refused
<1>2. \A g \in Requests : g # h => pc[g] = "idle"
  BY OthersIdle
<1>3. LayoutInv'
  BY <1>1, <1>2, LayoutsTheSame, LastStep
<1>4. NoApproval
  BY <1>2 DEF NoApproval
<1> QED
  BY <1>3, <1>4, NothingApproved

\* Of the projects approved, one was approved last.
LEMMA OneLatest ==
    ASSUME LayoutInv, NEW p, NEW s \in Layouts!LatestApproved(p), NEW r \in Layouts!LatestApproved(p)
    PROVE  s = r /\ s \in Layouts!Projects
<1>1. /\ s \in Layouts!Approved /\ r \in Layouts!Approved
      /\ project[s].approvedAt <= project[r].approvedAt /\ project[r].approvedAt <= project[s].approvedAt
  BY DEF Layouts!LatestApproved, Layouts!LastOf
<1>2. s \in Layouts!Projects /\ r \in Layouts!Projects
  BY <1>1 DEF Layouts!Approved
<1>3. project[s].approvedAt \in Nat /\ project[r].approvedAt \in Nat
  BY <1>2, StoredTyped DEF Layouts!Rows
<1>4. project[s].approvedAt = project[r].approvedAt
  BY <1>1, <1>3
<1> QED
  BY <1>1, <1>2, <1>4 DEF LayoutInv, LayoutsGood

\* What a merge promises to the write: rooms added to the layout in force, or one edited.
LayoutAdds(h, layout) ==
    Adds(h) => \A s \in Layouts!LatestApproved(frame[h].project) : project[s].panel =>
                  Layouts!UniqueIds(layout) /\ RoomsAdded(layout, project[s].layout)
LayoutEdits(h, layout) ==
    Edits(h) => \A s \in Layouts!LatestApproved(frame[h].project) :
                   OthersThere(layout, project[s].layout, frame[h].row.label)

LEMMA MergedGood ==
    ASSUME LayoutInv, NEW h \in Requests, pc[h] = "merge", NEW layout \in Layouts!Plans,
           NEW label \in {"space", "approve"}, Layouts!Merged(h, layout, label),
           label = "space" => Adds(h), LayoutAdds(h, layout), LayoutEdits(h, layout)
    PROVE  LayoutInv' /\ RoomsStay
<1> DEFINE old == frame[h]
           entry == [old.row EXCEPT !.layout = layout]
           f == [old EXCEPT !.row = entry]
<1>1. /\ pc' = [pc EXCEPT ![h] = label] /\ frame' = [frame EXCEPT ![h] = f]
      /\ UNCHANGED <<project, approvals, saves>>
  BY DEF Layouts!Merged, Layouts!Goto
<1>2. /\ entry \in Layouts!Rows /\ entry.layout = layout /\ entry.label = old.row.label
      /\ entry.asked = old.row.asked /\ entry.saved = old.row.saved
  BY FrameTyped DEF Layouts!Rows
<1>3. f \in Layouts!Frames /\ f.row = entry /\ f.project = old.project /\ f.forced = old.forced
  <2>1. old \in Layouts!Frames
    BY FrameTyped
  <2> HIDE DEF old, entry
  <2> QED
    BY <1>2, <2>1 DEF Layouts!Frames
<1>4. pc'[h] = label /\ frame'[h] = f
  BY <1>1 DEF LayoutInv, HandlersTyped
<1>5. old.project \in Layouts!Projects /\ Layouts!Projects' = Layouts!Projects
  BY DEF LayoutInv, CarriesGood, Layouts!Projects
<1>6. (Adds(h)' <=> Adds(h)) /\ (Edits(h)' <=> Edits(h))
  <2> HIDE DEF entry, f
  <2> QED
    BY <1>2, <1>3, <1>4 DEF Adds, Edits, Layouts!IsKind
<1>7. \A p : Layouts!LatestApproved(p)' = Layouts!LatestApproved(p)
  BY <1>1 DEF Layouts!LatestApproved, Layouts!LastOf, Layouts!Approved, Layouts!Projects
<1>8. CarriesGood(h)'
  <2>1. frame'[h].row.layout = layout /\ frame'[h].project = old.project /\ frame'[h].row.label = old.row.label
    <3> HIDE DEF entry, f, old
    <3> QED
      BY <1>2, <1>3, <1>4
  <2>2. Layouts!LatestApproved(frame[h].project)' = Layouts!LatestApproved(frame[h].project)
    BY <1>7, <2>1
  <2>3. \A s : project'[s] = project[s]
    BY <1>1
  <2> HIDE DEF entry, f
  <2> QED
    BY <1>4, <1>5, <1>6, <2>1, <2>2, <2>3 DEF CarriesGood, LayoutAdds, LayoutEdits
<1>9. \A g \in Requests : g # h => pc[g] = "idle"
  BY OthersIdle
<1>10. label \in Layouts!Steps /\ label # "idle"
  BY DEF Layouts!Steps
<1> HIDE DEF f
<1> QED
  BY <1>1, <1>3, <1>8, <1>9, <1>10, HandlerStep

LEMMA MergeAdditionalGood ==
    ASSUME LayoutInv, NEW h \in Requests, Layouts!MergeAdditional(h)
    PROVE  LayoutInv' /\ RoomsStay
<1>1. pc[h] = "merge" /\ Adds(h)
  BY DEF Layouts!MergeAdditional, Adds
<1>2. frame[h].dto \in Layouts!Plans /\ frame[h].row.space \in Layouts!Spaces
  BY FrameTyped
<1>3. CASE Layouts!LatestApproved(frame[h].project) = {} /\ Layouts!Merged(h, frame[h].dto, "space")
  <2>1. LayoutAdds(h, frame[h].dto) /\ LayoutEdits(h, frame[h].dto)
    BY <1>3 DEF LayoutAdds, LayoutEdits
  <2> QED
    BY <1>1, <1>2, <1>3, <2>1, MergedGood
<1>4. ASSUME NEW s \in Layouts!LatestApproved(frame[h].project),
             Layouts!NewRooms(project[s].layout, frame[h].dto, frame[h].row.space) # <<>>,
             Layouts!Merged(h, Layouts!MergedAdditional(project[s].layout, frame[h].dto, frame[h].row.space), "space")
      PROVE  LayoutInv' /\ RoomsStay
  <2> DEFINE layout == Layouts!MergedAdditional(project[s].layout, frame[h].dto, frame[h].row.space)
  <2>1. s \in Layouts!Projects
    BY OneLatest
  <2>2. project[s].layout \in Layouts!Plans
    BY <2>1, StoredTyped
  <2>3. /\ layout \in Layouts!Plans /\ RoomsAdded(layout, project[s].layout)
        /\ Layouts!UniqueIds(project[s].layout) => Layouts!UniqueIds(layout)
    BY <1>2, <1>4, <2>2, AddedWhole
  <2>4. project[s].panel => Layouts!UniqueIds(project[s].layout)
    BY <2>1 DEF LayoutInv, LayoutsGood
  <2>5. Layouts!Merged(h, layout, "space")
    BY <1>4
  <2> HIDE DEF layout
  <2>6. LayoutAdds(h, layout)
    BY <2>3, <2>4, OneLatest DEF LayoutAdds
  <2>7. LayoutEdits(h, layout)
    BY <1>1 DEF LayoutEdits, Edits
  <2> QED
    BY <1>1, <2>3, <2>5, <2>6, <2>7, MergedGood
<1>5. CASE Layouts!Refused(h)
  BY <1>1, <1>5, RefusedGood
<1> QED
  BY <1>3, <1>4, <1>5 DEF Layouts!MergeAdditional

LEMMA MergeEditedGood ==
    ASSUME LayoutInv, NEW h \in Requests, Layouts!MergeEdited(h)
    PROVE  LayoutInv' /\ RoomsStay
<1>1. pc[h] = "merge" /\ ~Adds(h)
  BY DEF Layouts!MergeEdited, Adds
<1>2. frame[h].dto \in Layouts!Plans
  BY FrameTyped
<1>3. CASE Layouts!LatestApproved(frame[h].project) = {} /\ Layouts!Merged(h, frame[h].dto, "approve")
  <2>1. LayoutAdds(h, frame[h].dto) /\ LayoutEdits(h, frame[h].dto)
    BY <1>3 DEF LayoutAdds, LayoutEdits
  <2> QED
    BY <1>1, <1>2, <1>3, <2>1, MergedGood
<1>4. ASSUME NEW s \in Layouts!LatestApproved(frame[h].project),
             frame[h].row.label \in Layouts!Labels(frame[h].dto) \cap Layouts!Labels(project[s].layout),
             Layouts!Merged(h, Layouts!MergedEdited(project[s].layout, frame[h].dto, frame[h].row.label), "approve")
      PROVE  LayoutInv' /\ RoomsStay
  <2> DEFINE layout == Layouts!MergedEdited(project[s].layout, frame[h].dto, frame[h].row.label)
  <2>1. s \in Layouts!Projects
    BY OneLatest
  <2>2. project[s].layout \in Layouts!Plans
    BY <2>1, StoredTyped
  <2>3. layout \in Layouts!Plans /\ OthersThere(layout, project[s].layout, frame[h].row.label)
    BY <1>2, <1>4, <2>2, EditedMerged
  <2>4. Layouts!Merged(h, layout, "approve")
    BY <1>4
  <2> HIDE DEF layout
  <2>5. LayoutAdds(h, layout)
    BY <1>1 DEF LayoutAdds
  <2>6. LayoutEdits(h, layout)
    BY <2>3, OneLatest DEF LayoutEdits
  <2> QED
    BY <1>1, <2>3, <2>4, <2>5, <2>6, MergedGood
<1>5. CASE Layouts!Refused(h)
  BY <1>1, <1>5, RefusedGood
<1> QED
  BY <1>3, <1>4, <1>5 DEF Layouts!MergeEdited

LEMMA TakeLayoutGood ==
    ASSUME LayoutInv, NEW h \in Requests, Layouts!TakeLayout(h)
    PROVE  LayoutInv' /\ RoomsStay
<1>1. pc[h] = "merge" /\ ~Adds(h) /\ ~Edits(h)
  BY DEF Layouts!TakeLayout, Adds, Edits
<1>2. frame[h].dto \in Layouts!Plans
  BY FrameTyped
<1>3. ASSUME NEW layout \in Layouts!Plans, Layouts!Merged(h, layout, "approve")
      PROVE  LayoutInv' /\ RoomsStay
  <2>1. LayoutAdds(h, layout) /\ LayoutEdits(h, layout)
    BY <1>1 DEF LayoutAdds, LayoutEdits
  <2> QED
    BY <1>1, <1>3, <2>1, MergedGood
<1>4. Layouts!Without(frame[h].dto, {frame[h].row.label}) \in Layouts!Plans
  BY <1>2, WithLabelsTyped DEF Layouts!Without, Layouts!Plans
<1>5. Layouts!Hidden(frame[h].dto, frame[h].row.label) \in Layouts!Plans
  BY <1>2, HiddenTyped
<1>6. \/ Layouts!Merged(h, frame[h].dto, "approve")
      \/ Layouts!Merged(h, Layouts!Without(frame[h].dto, {frame[h].row.label}), "approve")
      \/ Layouts!Merged(h, Layouts!Hidden(frame[h].dto, frame[h].row.label), "approve")
      \/ Layouts!Refused(h)
  BY DEF Layouts!TakeLayout
<1> QED
  BY <1>1, <1>2, <1>3, <1>4, <1>5, <1>6, RefusedGood

LEMMA MergeSpaceGood ==
    ASSUME LayoutInv, NEW h \in Requests, Layouts!MergeSpace(h)
    PROVE  LayoutInv' /\ RoomsStay
<1>1. PICK space : /\ frame' = [frame EXCEPT ![h].row.space = space]
                   /\ space \in IF Layouts!LatestApproved(frame[h].project) = {} THEN {frame[h].row.space}
                                ELSE {Layouts!MergedSpace(project[s].space, frame[h].row.space) :
                                        s \in Layouts!LatestApproved(frame[h].project)}
  BY DEF Layouts!MergeSpace
<1>2. space \in Layouts!Spaces
  <2>1. frame[h].row.space \in Layouts!Spaces
    BY FrameTyped
  <2>2. CASE space = frame[h].row.space
    BY <2>1, <2>2
  <2>3. CASE \E s \in Layouts!LatestApproved(frame[h].project) :
                space = Layouts!MergedSpace(project[s].space, frame[h].row.space)
    <3>1. PICK s \in Layouts!LatestApproved(frame[h].project) :
                 space = Layouts!MergedSpace(project[s].space, frame[h].row.space)
      BY <2>3
    <3>2. s \in Layouts!Projects
      BY OneLatest
    <3> QED
      BY <2>1, <3>1, <3>2, StoredTyped, SpaceMerged
  <2> QED
    BY <1>1, <2>2, <2>3
<1> DEFINE old == frame[h]
           entry == [old.row EXCEPT !.space = space]
           f == [old EXCEPT !.row = entry]
<1>3. /\ pc' = [pc EXCEPT ![h] = "approve"] /\ frame' = [frame EXCEPT ![h] = f]
      /\ UNCHANGED <<project, approvals, saves>> /\ pc[h] = "space"
  BY <1>1 DEF Layouts!MergeSpace, Layouts!Goto
<1>4. /\ entry \in Layouts!Rows /\ entry.layout = old.row.layout
      /\ entry.asked = old.row.asked /\ entry.saved = old.row.saved
  BY <1>2, FrameTyped DEF Layouts!Rows
<1>5. f \in Layouts!Frames /\ f.row = entry /\ f.project = old.project /\ f.forced = old.forced
  <2>1. old \in Layouts!Frames
    BY FrameTyped
  <2> HIDE DEF old, entry
  <2> QED
    BY <1>4, <2>1 DEF Layouts!Frames
<1>6. pc'[h] = "approve" /\ frame'[h] = f
  BY <1>3 DEF LayoutInv, HandlersTyped
<1>7. CarriesGood(h) /\ Adds(h) /\ Layouts!Projects' = Layouts!Projects
  BY <1>3 DEF LayoutInv, CarriesGood, Layouts!Projects
<1>8. Adds(h)' /\ ~Edits(h)'
  <2> HIDE DEF entry, f
  <2> QED
    BY <1>4, <1>5, <1>6, <1>7 DEF Adds, Edits, Layouts!IsKind
<1>9. \A p : Layouts!LatestApproved(p)' = Layouts!LatestApproved(p)
  BY <1>3 DEF Layouts!LatestApproved, Layouts!LastOf, Layouts!Approved, Layouts!Projects
<1>10. CarriesGood(h)'
  <2>1. frame'[h].row.layout = old.row.layout /\ frame'[h].project = old.project
    <3> HIDE DEF entry, f, old
    <3> QED
      BY <1>4, <1>5, <1>6
  <2>2. Layouts!LatestApproved(frame[h].project)' = Layouts!LatestApproved(frame[h].project)
    BY <1>9, <2>1
  <2>3. \A s : project'[s] = project[s]
    BY <1>3
  <2> HIDE DEF entry, f
  <2> QED
    BY <1>3, <1>6, <1>7, <1>8, <2>1, <2>2, <2>3 DEF CarriesGood
<1>11. \A g \in Requests : g # h => pc[g] = "idle"
  BY <1>3, OthersIdle
<1>12. "approve" \in Layouts!Steps
  BY DEF Layouts!Steps
<1> HIDE DEF f
<1> QED
  BY <1>3, <1>5, <1>10, <1>11, <1>12, HandlerStep

\* The write gives tables their names, which those of the layout in force have already.
LEMMA ApproveWriteGood ==
    ASSUME LayoutInv, NEW h \in Requests, Layouts!ApproveWrite(h)
    PROVE  LayoutInv' /\ RoomsStay
<1> DEFINE p == frame[h].project  old == project[p]  got == frame[h].row
           unique == Layouts!WithUniqueIds(got.layout)
           space == IF Layouts!IsKind(got, "ADD_ROOM") THEN got.space ELSE old.space
           entry == [old EXCEPT !.status = "APPROVED", !.asked = got.asked, !.saved = got.saved,
                              !.submitted = TRUE, !.layout = unique, !.space = space,
                              !.approvedAt = approvals + 1, !.panel = TRUE]
<1>1. /\ pc[h] = "approve" /\ project' = [project EXCEPT ![p] = entry]
      /\ approvals' = approvals + 1 /\ Layouts!Finish(h) /\ saves' = saves
  BY DEF Layouts!ApproveWrite, Layouts!Dated
<1>2. CarriesGood(h) /\ p \in Layouts!Projects
  BY <1>1 DEF LayoutInv, CarriesGood
<1>3. /\ old \in Layouts!Rows /\ old.space \in Layouts!Spaces /\ approvals \in Nat
      /\ got.layout \in Layouts!Plans /\ got.space \in Layouts!Spaces
      /\ got.asked \in Layouts!Changes /\ got.saved \in Layouts!Changes
  BY <1>2, StoredTyped, FrameTyped
<1>4. unique \in Layouts!Plans /\ Layouts!UniqueIds(unique)
  BY <1>3, NamesMadeUnique
<1>5. space \in Layouts!Spaces
  BY <1>3
<1>6. \A g \in Requests : g # h => pc[g] = "idle"
  BY <1>1, OthersIdle
<1>7. entry \in Layouts!Rows /\ entry.layout = unique /\ entry.approvedAt = approvals + 1
  <2>1. "APPROVED" \in Layouts!Statuses /\ approvals + 1 \in Nat
    BY <1>3 DEF Layouts!Statuses
  <2> HIDE DEF old, got, unique, space
  <2> QED
    BY <1>3, <1>4, <1>5, <2>1 DEF Layouts!Rows
<1>8. project'[p] = entry
  BY <1>1, <1>2 DEF LayoutInv, LayoutsGood
<1>9. LayoutsGood'
  <2> HIDE DEF entry, p
  <2>1. approvals' \in Nat /\ approvals <= approvals' /\ entry.approvedAt <= approvals' /\ approvals < entry.approvedAt
    BY <1>1, <1>3, <1>7
  <2> QED
    BY <1>1, <1>2, <1>4, <1>7, <2>1, RowWritten
<1>10. LayoutInv'
  BY <1>1, <1>6, <1>9, LastStep
<1>11. project'[p].layout = unique
  BY <1>7, <1>8
<1> HIDE DEF entry
<1>12. ASSUME NEW g \in Requests, NEW q \in Layouts!Projects, Layouts!Approves(g, q)
       PROVE  g = h /\ q = p
  BY <1>6, <1>12 DEF Layouts!Approves
<1>13. Layouts!RoomAddedWhole
  <2> SUFFICES ASSUME NEW s \in Layouts!Projects, Adds(h), s \in Layouts!LatestApproved(p), project[s].panel
               PROVE  LET from == project[s].layout  new == project'[p].layout IN
                      /\ Len(new) > Len(from) /\ SubSeq(new, 1, Len(from)) = from
                      /\ \A i \in (Len(from) + 1)..Len(new) :
                            \A j, k \in DOMAIN new[i].tables :
                               new[i].tables[j].photo = new[i].tables[k].photo
                                   => j = k \/ new[i].tables[j].photo = NoPhoto
    BY <1>12 DEF Layouts!RoomAddedWhole, Adds
  <2>1. Layouts!UniqueIds(got.layout) /\ RoomsAdded(got.layout, project[s].layout)
    BY <1>1, <1>2 DEF CarriesGood
  <2>2. unique = got.layout
    BY <1>3, <2>1, RoomsKeepNames
  <2> HIDE DEF got, unique
  <2>3. RoomsAdded(unique, project[s].layout)
    BY <2>1, <2>2
  <2>4. project[s].layout \in Layouts!Plans
    BY StoredTyped
  <2>5. ASSUME NEW i \in (Len(project[s].layout) + 1)..Len(unique), NEW j \in DOMAIN unique[i].tables,
               NEW k \in DOMAIN unique[i].tables, unique[i].tables[j].photo = unique[i].tables[k].photo
        PROVE  j = k \/ unique[i].tables[j].photo = NoPhoto
    <3>1. Len(project[s].layout) \in Nat /\ Len(unique) \in Nat
      BY <1>4, <2>4, RoomsOf
    <3>2. i \in 1..Len(unique)
      BY <3>1
    <3>3. DOMAIN unique[i].tables = 1..Len(unique[i].tables)
      BY <1>4, <3>2, RoomsOf
    <3>4. PhotosApart(unique[i])
      BY <2>3 DEF RoomsAdded
    <3> QED
      BY <2>5, <3>3, <3>4 DEF PhotosApart
  <2> QED
    BY <1>11, <2>3, <2>5 DEF RoomsAdded
<1>14. Layouts!OtherRoomsKept
  <2> SUFFICES ASSUME NEW s \in Layouts!Projects, Edits(h), s \in Layouts!LatestApproved(p)
               PROVE  LET from == project[s].layout  new == project'[p].layout IN
                      /\ Len(new) = Len(from)
                      /\ \A i \in DOMAIN from : from[i].label # frame[h].row.label =>
                            /\ Layouts!SameButIds(new[i], from[i])
                            /\ \A j \in DOMAIN from[i].tables :
                                  \/ new[i].tables[j].id = from[i].tables[j].id
                                  \/ Layouts!TakenBefore(new, i, j, from[i].tables[j].id)
    BY <1>12 DEF Layouts!OtherRoomsKept, Edits, Adds
  <2>1. /\ project[s].layout \in Layouts!Plans /\ DOMAIN project[s].layout = 1..Len(project[s].layout)
        /\ \A i \in 1..Len(project[s].layout) :
              DOMAIN project[s].layout[i].tables = 1..Len(project[s].layout[i].tables)
    BY StoredTyped, RoomsOf
  <2>2. OthersThere(got.layout, project[s].layout, frame[h].row.label)
    BY <1>1, <1>2 DEF CarriesGood
  <2>3. OthersNamed(unique, project[s].layout, frame[h].row.label)
    BY <1>3, <2>1, <2>2, OthersStay
  <2> HIDE DEF unique
  <2> QED
    BY <1>11, <2>1, <2>3 DEF OthersNamed
<1> QED
  BY <1>10, <1>13, <1>14 DEF RoomsStay

LEMMA LayoutInvNext == LayoutInv /\ Layouts!Next => LayoutInv' /\ RoomsStay
<1> SUFFICES ASSUME LayoutInv, Layouts!Next PROVE LayoutInv' /\ RoomsStay
  OBVIOUS
<1>1. ASSUME NEW k \in Packages,
             \/ Layouts!Create(k)
             \/ \E p \in Layouts!Projects : Layouts!SaveLayout(p, k)
             \/ \E kind \in {"COMPLETE", "ADD_ROOM"} : Layouts!SubmitComplete(k, kind)
      PROVE  LayoutInv' /\ RoomsStay
  BY <1>1, CreateGood, SaveLayoutGood, SubmitCompleteGood
<1>2. ASSUME NEW p \in Layouts!Projects,
             \/ Layouts!GenerateSuggestion(p) \/ Layouts!SubmitForReview(p)
             \/ Layouts!ReviewReject(p) \/ Layouts!ReviewApprove(p)
      PROVE  LayoutInv' /\ RoomsStay
  BY <1>2, GenerateSuggestionGood, SubmitForReviewGood, ReviewRejectGood, ReviewApproveGood
<1>3. ASSUME NEW h \in Requests, Layouts!Owner(h)
      PROVE  LayoutInv' /\ RoomsStay
  <2>1. CASE Layouts!RequestCreate(h)
    BY <2>1, RequestCreateGood
  <2>2. ASSUME NEW s \in Layouts!Projects, NEW id \in AskedTables,
               \/ Layouts!RequestTableDeletion(h, s, id)
               \/ \E photo \in Photos : Layouts!RequestTable(h, s, id, photo)
        PROVE  LayoutInv' /\ RoomsStay
    BY <2>2, RequestTableDeletionGood, RequestTableGood
  <2>3. ASSUME NEW s \in Layouts!Projects, NEW kind \in {"EDIT_SPACE", "DELETE_ROOM", "HIDE_ROOM"},
               NEW label \in AskedRooms, Layouts!RequestSpaceChange(h, s, kind, label)
        PROVE  LayoutInv' /\ RoomsStay
    BY <2>3, RequestSpaceChangeGood
  <2> QED
    BY <1>3, <2>1, <2>2, <2>3 DEF Layouts!Owner
<1>4. ASSUME NEW h \in Requests, Layouts!Panel(h)
      PROVE  LayoutInv' /\ RoomsStay
  <2>1. ASSUME NEW p \in Layouts!Projects, NEW forced \in BOOLEAN,
               NEW dto \in Layouts!Adjusted(project[p].layout), Layouts!ApproveBegin(h, p, dto, forced)
        PROVE  LayoutInv' /\ RoomsStay
    BY <2>1, ApproveBeginGood
  <2>2. CASE \/ Layouts!MergeAdditional(h) \/ Layouts!MergeSpace(h) \/ Layouts!MergeEdited(h)
             \/ Layouts!TakeLayout(h) \/ Layouts!ApproveWrite(h)
    BY <2>2, MergeAdditionalGood, MergeSpaceGood, MergeEditedGood, TakeLayoutGood, ApproveWriteGood
  <2> QED
    BY <1>4, <2>1, <2>2 DEF Layouts!Panel
<1> QED
  BY <1>1, <1>2, <1>3, <1>4 DEF Layouts!Next

\* Nothing happens.
LEMMA LayoutInvStutters ==
    ASSUME LayoutInv, UNCHANGED Layouts!vars
    PROVE  LayoutInv' /\ RoomsStay
<1>1. UNCHANGED <<project, approvals, saves, pc, frame>>
  BY DEF Layouts!vars
<1>2. NoApproval
  BY <1>1 DEF NoApproval
<1>3. HandlersTyped' /\ OneAtWork'
  BY <1>1 DEF LayoutInv, HandlersTyped, OneAtWork
<1>4. \A p : Layouts!LatestApproved(p)' = Layouts!LatestApproved(p)
  BY <1>1 DEF Layouts!LatestApproved, Layouts!LastOf, Layouts!Approved, Layouts!Projects
<1>5. ASSUME NEW h \in Requests PROVE CarriesGood(h)'
  <2>1. CarriesGood(h) /\ (Adds(h)' <=> Adds(h)) /\ (Edits(h)' <=> Edits(h))
    BY <1>1 DEF LayoutInv, Adds, Edits, Layouts!IsKind
  <2>2. /\ Layouts!LatestApproved(frame[h].project)' = Layouts!LatestApproved(frame[h].project)
        /\ Layouts!Projects' = Layouts!Projects
    BY <1>1, <1>4 DEF Layouts!Projects
  <2> QED
    BY <1>1, <2>1, <2>2 DEF CarriesGood
<1> QED
  BY <1>1, <1>2, <1>3, <1>5, LayoutsTheSame, NothingApproved DEF LayoutInv

LEMMA LayoutInvSays == LayoutInv => Layouts!TableIdsUnique /\ Layouts!LayoutTypes
BY DEF LayoutInv, LayoutsGood, HandlersTyped, Layouts!TableIdsUnique, Layouts!LayoutTypes, Layouts!Approved

-----------------------------------------------------------------------------
(* The platform.                                                               *)

Scenarios == {"sessions", "racing sessions", "phones", "racing phones", "admins", "devices",
              "methods", "reminders", "later", "at once", "layouts"}

PlatformInv ==
    /\ scenario \in Scenarios
    /\ scenario = "sessions" => Sessions!SerialInv
    /\ scenario = "racing sessions" => RacingSessions!SessionInv
    /\ scenario = "phones" => Numbers!SerialInv /\ Numbers!TriesInv
    /\ scenario = "racing phones" => RacingNumbers!PhoneInv /\ RacingNumbers!TriesInv
    /\ scenario = "admins" => LoginInv
    /\ scenario = "devices" => PushInv
    /\ scenario = "methods" => CardsInv
    /\ scenario = "reminders" => RemindInv
    /\ scenario = "later" => Later!NotificationInv
    /\ scenario = "at once" => AtOnce!NotificationInv
    /\ scenario = "layouts" => LayoutInv

LEMMA OneRequest ==
    Sessions!Serial /\ Numbers!Serial /\ SerialCards /\ Later!Serial /\ AtOnce!Serial
<1>1. Sessions!IsFiniteSet(Requests) /\ Numbers!IsFiniteSet(Requests)
  BY FiniteRequests DEF FiniteRequests, Sessions!IsFiniteSet, Numbers!IsFiniteSet, IsFiniteSet
<1> QED
  BY <1>1, FiniteRequests DEF FiniteRequests, Sessions!Serial, Numbers!Serial, SerialCards, OneAtATime,
     Later!Serial, AtOnce!Serial

LEMMA RequestsFinite == Numbers!Finite /\ RacingNumbers!Finite
<1>1. LoginNumbers
  BY AdminConstants, LoginNumbersGiven DEF AdminConstants
<1> QED
  BY <1>1, FiniteRequests DEF FiniteRequests, LoginNumbers, Numbers!Finite, Numbers!IsFiniteSet,
     RacingNumbers!Finite, RacingNumbers!IsFiniteSet, IsFiniteSet, OneAtATime, InPairs

LEMMA PlatformInvInit == Init => PlatformInv
<1> SUFFICES ASSUME Init PROVE PlatformInv
  OBVIOUS
<1>1. CASE scenario = "sessions" /\ Sessions!Init
  BY <1>1, SessionConstants, Sessions!SerialInvInit DEF SessionConstants, PlatformInv, Scenarios
<1>2. CASE scenario = "racing sessions" /\ RacingSessions!Init
  BY <1>2, SessionConstants, RacingSessions!SessionInvInit DEF SessionConstants, PlatformInv, Scenarios
<1>3. CASE scenario = "phones" /\ Numbers!Init
  BY <1>3, PhoneConstants, RequestsFinite, Numbers!SerialInvInit, Numbers!TriesInvInit
  DEF PhoneConstants, PlatformInv, Scenarios
<1>4. CASE scenario = "racing phones" /\ RacingNumbers!Init
  BY <1>4, PhoneConstants, RequestsFinite, RacingNumbers!PhoneInvInit, RacingNumbers!TriesInvInit
  DEF PhoneConstants, PlatformInv, Scenarios
<1>5. CASE scenario = "devices" /\ Pushed!Init
  BY <1>5, DeviceConstants, PushInvInit DEF DeviceConstants, PlatformInv, Scenarios
<1>6. CASE scenario = "methods" /\ Methods!Init
  BY <1>6, CardsInvInit DEF PlatformInv, Scenarios
<1>7. CASE scenario = "reminders" /\ Due!Init
  BY <1>7, ReminderConstants, RemindInvInit DEF ReminderConstants, PlatformInv, Scenarios
<1>8. CASE scenario = "later" /\ Later!Init
  BY <1>8, NotificationConstants, Later!NotificationInvInit
  DEF NotificationConstants, PlatformInv, Scenarios
<1>9. CASE scenario = "at once" /\ AtOnce!Init
  BY <1>9, NotificationConstants, AtOnce!NotificationInvInit
  DEF NotificationConstants, PlatformInv, Scenarios
<1>10. CASE scenario = "admins" /\ Admins!Init
  BY <1>10, AdminConstants, LoginInvInit DEF AdminConstants, PlatformInv, Scenarios
<1>11. CASE scenario = "layouts" /\ Layouts!Init
  BY <1>11, LayoutInvInit DEF PlatformInv, Scenarios
<1> QED
  BY <1>1, <1>2, <1>3, <1>4, <1>5, <1>6, <1>7, <1>8, <1>9, <1>10, <1>11 DEF Init

LEMMA PlatformInvNext ==
    ASSUME PlatformInv, [Next]_allVars
    PROVE  /\ PlatformInv'
           /\ scenario = "sessions" => Sessions!KeepsDeletedDeleted
           /\ scenario = "later" => Later!OnlyListedAnnounced
           /\ scenario = "at once" => AtOnce!OnlyListedAnnounced
           /\ scenario = "layouts" => RoomsStay
<1>1. CASE scenario = "sessions"
  <2>1. scenario' = scenario /\ [Sessions!Next]_(Sessions!vars)
    BY <1>1 DEF Next, allVars, sessionVars, Sessions!vars, InSessions, InPhones, InAdmins, InDevices,
       InMethods, InReminders, InEvents, InLayouts
  <2>2. Sessions!SessionIdentities
    BY SessionConstants DEF SessionConstants
  <2>3. Sessions!SerialInv' /\ Sessions!KeepsDeletedDeleted
    BY <1>1, <2>1, <2>2, OneRequest, Sessions!SerialInvNext DEF PlatformInv
  <2> QED
    BY <1>1, <2>1, <2>3 DEF PlatformInv
<1>2. CASE scenario = "racing sessions"
  <2>1. scenario' = scenario /\ [RacingSessions!Next]_(RacingSessions!vars)
    BY <1>2 DEF Next, allVars, sessionVars, RacingSessions!vars, InSessions, InPhones, InAdmins,
       InDevices, InMethods, InReminders, InEvents, InLayouts
  <2>2. RacingSessions!SessionIdentities
    BY SessionConstants DEF SessionConstants
  <2>3. RacingSessions!SessionInv'
    BY <1>2, <2>1, <2>2, RacingSessions!SessionInvNext DEF PlatformInv
  <2> QED
    BY <1>2, <2>1, <2>3 DEF PlatformInv
<1>3. CASE scenario = "phones"
  <2>1. scenario' = scenario /\ [Numbers!Next]_(Numbers!vars)
    BY <1>3 DEF Next, allVars, phoneVars, Numbers!vars, InSessions, InPhones, InAdmins, InDevices,
       InMethods, InReminders, InEvents, InLayouts
  <2>2. Numbers!PhoneIdentities /\ Numbers!PhoneBounds
    BY PhoneConstants DEF PhoneConstants
  <2>3. Numbers!SerialInv'
    BY <1>3, <2>1, <2>2, OneRequest, Numbers!SerialInvNext DEF PlatformInv
  <2>4. Numbers!TriesInv'
    BY <1>3, <2>1, <2>2, <2>3, RequestsFinite, Numbers!TriesInvNext DEF PlatformInv, Numbers!SerialInv
  <2> QED
    BY <1>3, <2>1, <2>3, <2>4 DEF PlatformInv
<1>4. CASE scenario = "racing phones"
  <2>1. scenario' = scenario /\ [RacingNumbers!Next]_(RacingNumbers!vars)
    BY <1>4 DEF Next, allVars, phoneVars, RacingNumbers!vars, InSessions, InPhones, InAdmins,
       InDevices, InMethods, InReminders, InEvents, InLayouts
  <2>2. RacingNumbers!PhoneIdentities /\ RacingNumbers!PhoneBounds
    BY PhoneConstants DEF PhoneConstants
  <2>3. RacingNumbers!PhoneInv'
    BY <1>4, <2>1, <2>2, RacingNumbers!PhoneInvNext DEF PlatformInv
  <2>4. RacingNumbers!TriesInv'
    BY <1>4, <2>1, <2>2, <2>3, RequestsFinite, RacingNumbers!TriesInvNext DEF PlatformInv
  <2> QED
    BY <1>4, <2>1, <2>3, <2>4 DEF PlatformInv
<1>5. CASE scenario = "devices"
  <2>1. scenario' = scenario /\ [Pushed!Next]_(Pushed!vars)
    BY <1>5 DEF Next, allVars, deviceVars, Pushed!vars, InSessions, InPhones, InAdmins, InDevices,
       InMethods, InReminders, InEvents, InLayouts
  <2>2. PushInv'
    BY <1>5, <2>1, DeviceConstants, PushInvNext DEF DeviceConstants, PlatformInv
  <2> QED
    BY <1>5, <2>1, <2>2 DEF PlatformInv
<1>6. CASE scenario = "methods"
  <2>1. scenario' = scenario /\ [Methods!Next]_(Methods!vars)
    BY <1>6 DEF Next, allVars, cardVars, Methods!vars, InSessions, InPhones, InAdmins, InDevices,
       InMethods, InReminders, InEvents, InLayouts
  <2>2. CardsInv'
    BY <1>6, <2>1, MethodConstants, OneRequest, CardsInvNext DEF MethodConstants, PlatformInv
  <2> QED
    BY <1>6, <2>1, <2>2 DEF PlatformInv
<1>7. CASE scenario = "reminders"
  <2>1. scenario' = scenario /\ [Due!Next]_(Due!vars)
    BY <1>7 DEF Next, allVars, reminderVars, Due!vars, InSessions, InPhones, InAdmins, InDevices,
       InMethods, InReminders, InEvents, InLayouts
  <2>2. RemindInv'
    BY <1>7, <2>1, ReminderConstants, RemindInvNext DEF ReminderConstants, PlatformInv
  <2> QED
    BY <1>7, <2>1, <2>2 DEF PlatformInv
<1>8. CASE scenario = "later"
  <2>1. scenario' = scenario /\ [Later!Next]_(Later!vars)
    BY <1>8 DEF Next, allVars, eventVars, Later!vars, InSessions, InPhones, InAdmins, InDevices,
       InMethods, InReminders, InEvents, InLayouts
  <2>2. Later!NotificationInv' /\ Later!OnlyListedAnnounced
    BY <1>8, <2>1, NotificationConstants, OneRequest, Later!NotificationInvNext
    DEF NotificationConstants, PlatformInv
  <2> QED
    BY <1>8, <2>1, <2>2 DEF PlatformInv
<1>9. CASE scenario = "at once"
  <2>1. scenario' = scenario /\ [AtOnce!Next]_(AtOnce!vars)
    BY <1>9 DEF Next, allVars, eventVars, AtOnce!vars, InSessions, InPhones, InAdmins, InDevices,
       InMethods, InReminders, InEvents, InLayouts
  <2>2. AtOnce!NotificationInv' /\ AtOnce!OnlyListedAnnounced
    BY <1>9, <2>1, NotificationConstants, OneRequest, AtOnce!NotificationInvNext
    DEF NotificationConstants, PlatformInv
  <2> QED
    BY <1>9, <2>1, <2>2 DEF PlatformInv
<1>10. CASE scenario = "admins"
  <2>1. scenario' = scenario /\ [Admins!Next]_(Admins!vars)
    BY <1>10 DEF Next, allVars, adminVars, Admins!vars, InSessions, InPhones, InAdmins, InDevices,
       InMethods, InReminders, InEvents, InLayouts
  <2>2. LoginInv'
    BY <1>10, <2>1, AdminConstants, LoginInvNext DEF AdminConstants, PlatformInv
  <2> QED
    BY <1>10, <2>1, <2>2 DEF PlatformInv
<1>11. CASE scenario = "layouts"
  <2>1. scenario' = scenario /\ [Layouts!Next]_(Layouts!vars)
    BY <1>11 DEF Next, allVars, layoutVars, Layouts!vars, InSessions, InPhones, InAdmins, InDevices,
       InMethods, InReminders, InEvents, InLayouts
  <2>2. LayoutInv' /\ RoomsStay
    BY <1>11, <2>1, LayoutInvNext, LayoutInvStutters DEF PlatformInv
  <2> QED
    BY <1>11, <2>1, <2>2 DEF PlatformInv
<1>12. scenario \in Scenarios
  BY DEF PlatformInv
<1> QED
  BY <1>1, <1>2, <1>3, <1>4, <1>5, <1>6, <1>7, <1>8, <1>9, <1>10, <1>11, <1>12 DEF Scenarios

LEMMA RemindersTyped ==
    ASSUME RemindInv
    PROVE  Due!ReminderTypes
BY DEF RemindInv, RemTyped, ClaimsGood, Due!ReminderTypes

\* Whatever is asked of accounts, panels and layouts, and in whatever order, rows, handlers,
\* counters and logs stay in their range.
THEOREM PlatformTyped == Spec => []PlatformTypes
<1>1. ASSUME PlatformInv PROVE PlatformTypes
  <2> USE <1>1
  <2>1. CASE scenario = "sessions"
    BY <2>1 DEF PlatformInv, PlatformTypes, Sessions!SerialInv, Sessions!SessionInv, Sessions!LinksGood,
       Sessions!TokensGood, Sessions!HandlersGood, Sessions!SessionTypes
  <2>2. CASE scenario = "racing sessions"
    BY <2>2 DEF PlatformInv, PlatformTypes, RacingSessions!SessionInv, RacingSessions!LinksGood,
       RacingSessions!TokensGood, RacingSessions!HandlersGood, RacingSessions!SessionTypes
  <2>3. CASE scenario = "phones"
    BY <2>3 DEF PlatformInv, PlatformTypes, Numbers!SerialInv, Numbers!PhoneInv, Numbers!RowsGood,
       Numbers!CodesGood, Numbers!HandlersGood, Numbers!PhoneTypes
  <2>4. CASE scenario = "racing phones"
    BY <2>4 DEF PlatformInv, PlatformTypes, RacingNumbers!PhoneInv, RacingNumbers!RowsGood,
       RacingNumbers!CodesGood, RacingNumbers!HandlersGood, RacingNumbers!PhoneTypes
  <2>5. CASE scenario = "admins"
    BY <2>5 DEF PlatformInv, PlatformTypes, LoginInv
  <2>6. CASE scenario = "devices"
    BY <2>6 DEF PlatformInv, PlatformTypes, PushInv
  <2>7. CASE scenario = "methods"
    BY <2>7 DEF PlatformInv, PlatformTypes, CardsInv, CardRows, Methods!MethodTypes
  <2>8. CASE scenario = "reminders"
    BY <2>8, ReminderConstants, RemindersTyped DEF PlatformInv, PlatformTypes, ReminderConstants
  <2>9. CASE scenario = "later"
    BY <2>9 DEF PlatformInv, PlatformTypes, Later!NotificationInv
  <2>10. CASE scenario = "at once"
    BY <2>10 DEF PlatformInv, PlatformTypes, AtOnce!NotificationInv
  <2>11. CASE scenario = "layouts"
    BY <2>11, LayoutInvSays DEF PlatformInv, PlatformTypes
  <2> QED
    BY <2>1, <2>2, <2>3, <2>4, <2>5, <2>6, <2>7, <2>8, <2>9, <2>10, <2>11 DEF PlatformInv, Scenarios
<1> QED
  BY <1>1, PlatformInvInit, PlatformInvNext, PTL DEF Spec

\* However refreshes of a session overlap, and however often one is repeated because its
\* answer was lost, a session has at most one live refresh token.
THEOREM SessionsHaveOneLiveToken == Spec => []OneLiveToken
<1>1. PlatformInv => OneLiveToken
  BY DEF PlatformInv, OneLiveToken, Sessions!SerialInv, Sessions!SessionInv, Sessions!TokensGood,
     RacingSessions!SessionInv, RacingSessions!TokensGood
<1> QED
  BY <1>1, PlatformInvInit, PlatformInvNext, PTL DEF Spec

\* Served one at a time, requests verify an address only after a link mailed to it was
\* opened, and no link opens a second session.
THEOREM LinksAreTrusted == Spec => []LinksTrusted
<1>1. PlatformInv => LinksTrusted
  BY Sessions!SerialInvTrusts DEF PlatformInv, LinksTrusted
<1> QED
  BY <1>1, PlatformInvInit, PlatformInvNext, PTL DEF Spec

\* Served one at a time, no link mailed before an account was deleted brings it back.
THEOREM AccountsStayDeleted == Spec => DeletedStaysDeleted
<1>1. PlatformInv /\ [Next]_allVars
        => PlatformInv' /\ [scenario = "sessions" => Sessions!KeepsDeletedDeleted]_allVars
  BY PlatformInvNext
<1> QED
  BY <1>1, PlatformInvInit, PTL DEF Spec, DeletedStaysDeleted

\* A number an account holds was proved by a code sent to it, and of requests served one
\* at a time no two give it to two accounts.
THEOREM HeldNumbersAreProved == Spec => []NumbersProved
<1>1. PlatformInv => NumbersProved
  BY DEF PlatformInv, NumbersProved, Numbers!SerialInv, Numbers!PhoneInv, RacingNumbers!PhoneInv
<1> QED
  BY <1>1, PlatformInvInit, PlatformInvNext, PTL DEF Spec

\* However requests overlap, guesses at a code and at a password of an admin stop at their
\* limits but for what was under way.
THEOREM GuessesAlwaysBounded == Spec => []GuessesBounded
<1>1. PlatformInv => GuessesBounded
  BY RequestsFinite, PhoneConstants, AdminConstants, Numbers!TriesInvSays, RacingNumbers!TriesInvSays,
     LoginInvSays
  DEF PlatformInv, GuessesBounded, PhoneConstants, AdminConstants, Numbers!SerialInv
<1> QED
  BY <1>1, PlatformInvInit, PlatformInvNext, PTL DEF Spec

\* A notification is shown to its addressee alone, unless the device changed hands while it
\* was on its way, and what the log calls SENT was shown.
THEOREM NotificationsReachAddressees == Spec => []NotificationsShown
<1>1. PlatformInv => NotificationsShown
  BY DEF PlatformInv, NotificationsShown, PushInv, ShownGood, Pushed!ShownToAddressee
<1> QED
  BY <1>1, PlatformInvInit, PlatformInvNext, PTL DEF Spec

\* Of requests served one at a time none leaves a guest two default cards, or a default
\* card that is disabled.
THEOREM GuestsHaveOneDefault == Spec => []OneDefault
<1>1. PlatformInv => OneDefault
  BY OneDefaultEach DEF PlatformInv, OneDefault
<1> QED
  BY <1>1, PlatformInvInit, PlatformInvNext, PTL DEF Spec

\* However cleanups, answers and moves overlap and wherever the process dies, a guest is
\* reminded once of each kind for every slot the reservation has had, and nobody is forgotten
\* with whom the venue agreed on a slot before its window closed and whose reservation was
\* not moved under the hands of a cleanup.
THEOREM GuestsAreReminded == Spec => []GuestsReminded
<1>1. PlatformInv => GuestsReminded
  BY RemindInvSays, ReminderConstants DEF ReminderConstants, PlatformInv, GuestsReminded
<1> QED
  BY <1>1, PlatformInvInit, PlatformInvNext, PTL DEF Spec

\* Saves of the panel and runs of the sender one at a time: a follower is told of an event
\* once, however the panel is saved, and an event that was added is not forgotten.
THEOREM EventsAreAnnouncedOnce == Spec => []EventsAnnounced
<1>1. PlatformInv => EventsAnnounced
  BY Later!NotificationInvSays, AtOnce!NotificationInvSays DEF PlatformInv, EventsAnnounced
<1> QED
  BY <1>1, PlatformInvInit, PlatformInvNext, PTL DEF Spec

\* Saves of the panel and runs of the sender one at a time: until a crash nobody is told of
\* an event that was taken off the panel, or edited into another, before.
THEOREM RemovedAreNotAnnounced == Spec => RemovedNotAnnounced
<1>1. PlatformInv /\ [Next]_allVars
        => /\ PlatformInv'
           /\ [/\ scenario = "later" => Later!OnlyListedAnnounced
               /\ scenario = "at once" => AtOnce!OnlyListedAnnounced]_allVars
  BY PlatformInvNext
<1> QED
  BY <1>1, PlatformInvInit, PTL DEF Spec, RemovedNotAnnounced

\* Whatever the owner draws and asks for and whatever the panel approves, one approval at a
\* time, no two tables of an approved layout share an identity, in one room or in two.
THEOREM TablesHaveIdentities == Spec => []TableIdsUnique
<1>1. PlatformInv => TableIdsUnique
  BY LayoutInvSays DEF PlatformInv, TableIdsUnique
<1> QED
  BY <1>1, PlatformInvInit, PlatformInvNext, PTL DEF Spec

\* One approval at a time: a room that is added joins the layout in force as it is, with
\* each photo on one of its tables.
THEOREM AddedRoomsAreWhole == Spec => AddedRoomWhole
<1>1. PlatformInv /\ [Next]_allVars
        => PlatformInv' /\ [scenario = "layouts" => Layouts!RoomAddedWhole]_allVars
  BY PlatformInvNext DEF RoomsStay
<1> QED
  BY <1>1, PlatformInvInit, PTL DEF Spec, AddedRoomWhole

\* One approval at a time: a room that is edited leaves the others of the layout in force
\* as they are, but for tables whose identity one in front of them has taken.
THEOREM OtherRoomsAreKept == Spec => OtherRoomsKept
<1>1. PlatformInv /\ [Next]_allVars
        => PlatformInv' /\ [scenario = "layouts" => Layouts!OtherRoomsKept]_allVars
  BY PlatformInvNext DEF RoomsStay
<1> QED
  BY <1>1, PlatformInvInit, PTL DEF Spec, OtherRoomsKept

\* Both: whichever change of rooms an approval carries out, the rooms it is not about stay.
THEOREM RoomsAreKept == Spec => RoomsKept
BY AddedRoomsAreWhole, OtherRoomsAreKept, PTL DEF RoomsKept
=============================================================================
