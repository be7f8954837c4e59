----------------------------- MODULE DeviceTokens -----------------------------
(***************************************************************************)
(* DeviceTokensService: which account a device's push token belongs to,    *)
(* and sendToUser, which reads the account's tokens once and then logs,    *)
(* pushes and updates the log for each of them.  Firebase (external) may   *)
(* deliver, refuse, report the token as unregistered, or not answer.       *)
(***************************************************************************)
EXTENDS Naturals, FiniteSets

CONSTANTS
    Users, Devices,
    Pushes,         \* identities of calls of sendToUser
    MaxActive,      \* bound: calls in flight at once
    None            \* no user, no device

DeviceIdentities == None \notin Users \cup Devices
DeviceBounds == MaxActive \in Nat

VARIABLES
    owner,          \* DevicePushToken: user and disabledAt, by device
    installed,      \* devices whose token Firebase still knows (external)
    holder,         \* who is signed in on the device (external)
    push,           \* calls of sendToUser: addressee, devices left, step, and those that
                    \* changed hands during the call
    log,            \* PushNotificationLog status by call and device
    shown           \* notifications shown: call, device and who was signed in

vars == <<owner, installed, holder, push, log, shown>>

Rows     == [user: Users \cup {None}, enabled: BOOLEAN]
LogState == {"none", "PENDING", "SENT", "FAILED", "SKIPPED"}
Steps    == {"new", "log", "send", "sent", "refused", "unregistered", "disable", "done"}
Calls    == [step: Steps, user: Users \cup {None}, todo: SUBSET Devices, device: Devices \cup {None},
             moved: SUBSET Devices]

\* Tokens, calls and logs stay in their range.
DeviceTypes ==
    /\ owner \in [Devices -> Rows]
    /\ installed \subseteq Devices
    /\ holder \in [Devices -> Users \cup {None}]
    /\ push \in [Pushes -> Calls]
    /\ log \in [Pushes -> [Devices \cup {None} -> LogState]]
    /\ shown \subseteq [push: Pushes, device: Devices, user: Users \cup {None}]

Init ==
    /\ owner = [d \in Devices |-> [user |-> None, enabled |-> FALSE]]
    /\ installed = Devices
    /\ holder = [d \in Devices |-> None]
    /\ push = [p \in Pushes |-> [step |-> "new", user |-> None, todo |-> {}, device |-> None,
                             moved |-> {}]]
    /\ log = [p \in Pushes |-> [d \in Devices \cup {None} |-> "none"]]
    /\ shown = {}

Active == {p \in Pushes : push[p].step \notin {"new", "done"}}

-----------------------------------------------------------------------------
(* Registration of a device. *)

SignIn(d, u) ==
    /\ holder' = [holder EXCEPT ![d] = u]
    /\ push' = [p \in Pushes |-> IF p \in Active THEN [push[p] EXCEPT !.moved = @ \cup {d}]
                                                 ELSE push[p]]
    /\ UNCHANGED <<installed, log, shown>>

\* Seeded fault: a token that is known keeps its user.
RegisterKeepsUser(u, d) ==
    /\ d \in installed
    /\ owner' = [owner EXCEPT ![d] = [user |-> IF @.user = None THEN u ELSE @.user, enabled |-> TRUE]]
    /\ SignIn(d, u)

\* An upsert by token: the device changes hands.
Register(u, d) ==
    /\ d \in installed
    /\ owner' = [owner EXCEPT ![d] = [user |-> u, enabled |-> TRUE]]
    /\ SignIn(d, u)

\* disableForUser, as the user signs out: updateMany where userId and token.
Disable(u, d) ==
    /\ holder[d] = u
    /\ owner' = [owner EXCEPT ![d].enabled = IF owner[d].user = u THEN FALSE ELSE @]
    /\ SignIn(d, None)

\* The app is removed from the device: Firebase forgets the token for good.
Uninstall(d) ==
    /\ d \in installed
    /\ installed' = installed \ {d}
    /\ UNCHANGED <<owner, holder, push, log, shown>>

-----------------------------------------------------------------------------
(* sendToUser. *)

\* The tokens are those of one app, the guests' or the owners': so is every push here.
TokensOf(u) == {d \in Devices : owner[d].user = u /\ owner[d].enabled}

SendBegin(p, u) ==
    /\ push[p].step = "new" /\ Cardinality(Active) < MaxActive
    /\ IF TokensOf(u) = {}
       THEN /\ push' = [push EXCEPT ![p].step = "done", ![p].user = u]
            /\ log' = [log EXCEPT ![p][None] = "SKIPPED"]
       ELSE /\ push' = [push EXCEPT ![p].step = "log", ![p].user = u, ![p].todo = TokensOf(u)]
            /\ UNCHANGED log
    /\ UNCHANGED <<owner, installed, holder, shown>>

SendLog(p) ==
    /\ push[p].step = "log"
    /\ \/ \E d \in push[p].todo :
             /\ push' = [push EXCEPT ![p].step = "send", ![p].device = d, ![p].todo = @ \ {d}]
             /\ log' = [log EXCEPT ![p][d] = "PENDING"]
       \/ /\ push[p].todo = {}
          /\ push' = [push EXCEPT ![p].step = "done"]
          /\ UNCHANGED log
    /\ UNCHANGED <<owner, installed, holder, shown>>

Shown(p) == [push |-> p, device |-> push[p].device, user |-> holder[push[p].device]]

\* sendFcmNotification: delivered; delivered or not, without an answer; unknown
\* token; or not sent for want of configuration, which leaves the log pending.
SendProvider(p) ==
    /\ push[p].step = "send"
    /\ LET known == push[p].device \in installed IN
       \/ /\ known
          /\ push' = [push EXCEPT ![p].step = "sent"]
          /\ shown' = shown \cup {Shown(p)}
       \/ /\ push' = [push EXCEPT ![p].step = "refused"]
          /\ shown' \in {shown} \cup (IF known THEN {shown \cup {Shown(p)}} ELSE {})
       \/ /\ ~known
          /\ push' = [push EXCEPT ![p].step = "unregistered"]
          /\ UNCHANGED shown
       \/ /\ push' = [push EXCEPT ![p].step = "log"]
          /\ UNCHANGED shown
    /\ UNCHANGED <<owner, installed, holder, log>>

SendResult(p) ==
    /\ push[p].step \in {"sent", "refused", "unregistered"}
    /\ log' = [log EXCEPT ![p][push[p].device] = IF push[p].step = "sent" THEN "SENT" ELSE "FAILED"]
    /\ push' = [push EXCEPT ![p].step = IF @ = "unregistered" THEN "disable" ELSE "log"]
    /\ UNCHANGED <<owner, installed, holder, shown>>

\* A token Firebase does not know is disabled, by id.
SendDisable(p) ==
    /\ push[p].step = "disable"
    /\ owner' = [owner EXCEPT ![push[p].device].enabled = FALSE]
    /\ push' = [push EXCEPT ![p].step = "log"]
    /\ UNCHANGED <<installed, holder, log, shown>>

\* The process dies: the rest of the list is never sent.
Crash(p) ==
    /\ p \in Active
    /\ push' = [push EXCEPT ![p].step = "done"]
    /\ UNCHANGED <<owner, installed, holder, log, shown>>

-----------------------------------------------------------------------------

Send(p) ==
    \/ \E u \in Users : SendBegin(p, u)
    \/ SendLog(p) \/ SendProvider(p) \/ SendResult(p) \/ SendDisable(p) \/ Crash(p)

Next ==
    \/ \E p \in Pushes : Send(p)
    \/ \E u \in Users, d \in Devices : Register(u, d) \/ Disable(u, d)
    \/ \E d \in Devices : Uninstall(d)

Spec == Init /\ [][Next]_vars

-----------------------------------------------------------------------------

\* A notification is shown to its addressee alone, on devices shared one after the
\* other too, unless the device changed hands while it was being sent.
ShownToAddressee ==
    \A s \in shown : s.user = push[s.push].user \/ s.device \in push[s.push].moved

\* A log that says SENT is about a notification that was shown, whatever was refused,
\* not answered or cut short by a crash.
SentWasShown ==
    \A p \in Pushes, d \in Devices :
        log[p][d] = "SENT" => \E s \in shown : s.push = p /\ s.device = d
=============================================================================
