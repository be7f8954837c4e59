--------------------------- MODULE AccountSessions ---------------------------
(***************************************************************************)
(* AuthService: accounts, the e-mailed links that verify an address and    *)
(* log its owner in, and the refresh tokens of the sessions they open.     *)
(*                                                                         *)
(* A handler is a sequence of steps, one per await: what it read is in its *)
(* frame when it writes.  E-mail addresses are unique in the database, so  *)
(* a write that would repeat one fails; a write to a row that is gone, or  *)
(* to a child of a deleted account, fails and ends the handler.            *)
(***************************************************************************)
EXTENDS Naturals, FiniteSets

CONSTANTS
    Users,          \* identities of User rows
    Emails,         \* addresses people own
    Links,          \* identities of EmailVerificationToken rows
    Tokens,         \* identities of RefreshToken rows
    Requests,       \* HTTP requests that can be in flight
    MaxActive,      \* bound: handlers in flight at once
    None            \* no user, link, token or address

SessionIdentities == None \notin Users \cup Emails \cup Links \cup Tokens
SessionBound == MaxActive \in Nat

VARIABLES
    account,        \* User rows
    link,           \* EmailVerificationToken rows, and the address each was mailed to
    token,          \* RefreshToken rows, and the session each belongs to
    pc, frame       \* handlers

vars == <<account, link, token, pc, frame>>

Roles       == {"CUSTOMER", "VENUE_OWNER"}
RowStates   == {"PENDING_EMAIL_VERIFICATION", "ACTIVE", "DISABLED"}

\* `confirmed` is kept for the properties: the addresses from which a link of this
\* account was opened.  A deleted customer's row is gone, a deleted owner's has no address.
Accounts == [status: {"NONE", "GONE"} \cup RowStates, role: Roles, email: Emails \cup {None},
             verified: BOOLEAN, confirmed: SUBSET Emails]
NoAccount == [status |-> "NONE", role |-> "CUSTOMER", email |-> None, verified |-> FALSE,
              confirmed |-> {}]

LinkRows  == [state: {"none", "unused", "used", "gone"}, user: Users \cup {None},
              expired: BOOLEAN, mailedTo: Emails \cup {None}]
NoLink    == [state |-> "none", user |-> None, expired |-> FALSE, mailedTo |-> None]

\* A session is named by its first token; `from` is the link that opened it.
TokenRows == [state: {"none", "live", "revoked", "gone"}, user: Users \cup {None},
              session: Tokens \cup {None}, from: Links \cup {None}]
NoToken   == [state |-> "none", user |-> None, session |-> None, from |-> None]

Labels == {"idle", "register", "link", "mail", "verify", "store", "rotate", "change",
           "deleteCustomer", "deleteOwner"}
Frames == [user: Users \cup {None}, email: Emails \cup {None}, role: Roles,
           link: Links \cup {None}, token: Tokens \cup {None}]
IdleFrame == [user |-> None, email |-> None, role |-> "CUSTOMER", link |-> None, token |-> None]

\* Every row and every local variable of a handler stays in its range.
SessionTypes ==
    /\ account \in [Users -> Accounts]
    /\ link \in [Links -> LinkRows]
    /\ token \in [Tokens -> TokenRows]
    /\ pc \in [Requests -> Labels]
    /\ frame \in [Requests -> Frames]

Init ==
    /\ account = [u \in Users |-> NoAccount]
    /\ link = [l \in Links |-> NoLink]
    /\ token = [t \in Tokens |-> NoToken]
    /\ pc = [h \in Requests |-> "idle"]
    /\ frame = [h \in Requests |-> IdleFrame]

-----------------------------------------------------------------------------
(* Rows and handlers. *)

Stored(u)     == account[u].status \in RowStates
Taken(e)      == \E u \in Users : Stored(u) /\ account[u].email = e
FreshUsers    == {u \in Users : account[u].status = "NONE"}
FreshLinks    == {l \in Links : link[l].state = "none"}
FreshTokens   == {t \in Tokens : token[t].state = "none"}

CanBegin(h) == pc[h] = "idle" /\ Cardinality({g \in Requests : pc[g] # "idle"}) < MaxActive

Begin(h, label, f) ==
    /\ CanBegin(h)
    /\ pc' = [pc EXCEPT ![h] = label]
    /\ frame' = [frame EXCEPT ![h] = f]
    /\ UNCHANGED <<account, link, token>>

Goto(h, label) == pc' = [pc EXCEPT ![h] = label]
Finish(h) ==
    /\ pc' = [pc EXCEPT ![h] = "idle"]
    /\ frame' = [frame EXCEPT ![h] = IdleFrame]
Fail(h)   == Finish(h) /\ UNCHANGED <<account, link, token>>

\* A new link for u, in a transaction that marks the unused ones as used.
NewLink(u, l) ==
    link' = [k \in Links |->
        IF k = l THEN [state |-> "unused", user |-> u, expired |-> FALSE, mailedTo |-> None]
        ELSE IF link[k].user = u /\ link[k].state = "unused" THEN [link[k] EXCEPT !.state = "used"]
        ELSE link[k]]

\* A new session opened by `from`.
NewToken(u, from) ==
    \E t \in FreshTokens :
        token' = [token EXCEPT ![t] = [state |-> "live", user |-> u, session |-> t, from |-> from]]

-----------------------------------------------------------------------------
(* Registration, and links asked for by e-mail address.                    *)

RegisterBegin(h, e, role) ==
    ~Taken(e) /\ Begin(h, "register", [IdleFrame EXCEPT !.email = e, !.role = role])

RegisterWrite(h) ==
    /\ pc[h] = "register"
    /\ \/ /\ ~Taken(frame[h].email)
          /\ \E u \in FreshUsers, l \in FreshLinks :
                /\ account' = [account EXCEPT ![u] = [NoAccount EXCEPT
                                  !.status = "PENDING_EMAIL_VERIFICATION",
                                  !.role = frame[h].role, !.email = frame[h].email]]
                /\ NewLink(u, l)
                /\ frame' = [frame EXCEPT ![h].link = l]
          /\ Goto(h, "mail")
          /\ UNCHANGED token
       \/ Taken(frame[h].email) /\ Fail(h)

\* resendVerification and requestLoginVerification; the first only for an
\* account that is not active.
ResendBegin(h, u) ==
    /\ Stored(u) /\ account[u].email # None /\ account[u].status # "ACTIVE"
    /\ Begin(h, "link", [IdleFrame EXCEPT !.user = u, !.email = account[u].email])

LoginLinkBegin(h, u) ==
    /\ Stored(u) /\ account[u].email # None
    /\ Begin(h, "link", [IdleFrame EXCEPT !.user = u, !.email = account[u].email])

LinkWrite(h) ==
    /\ pc[h] = "link"
    /\ \/ /\ Stored(frame[h].user)
          /\ \E l \in FreshLinks : NewLink(frame[h].user, l) /\ frame' = [frame EXCEPT ![h].link = l]
          /\ Goto(h, "mail")
          /\ UNCHANGED <<account, token>>
       \/ ~Stored(frame[h].user) /\ Fail(h)

\* The mail goes to the address the handler has in hand, whatever the row says by
\* now; sending may fail.
Mail(h) ==
    /\ pc[h] = "mail"
    /\ Finish(h)
    /\ \/ link' = [link EXCEPT ![frame[h].link].mailedTo = frame[h].email]
       \/ UNCHANGED link
    /\ UNCHANGED <<account, token>>

-----------------------------------------------------------------------------
(* Opening a link, logging in with a password, refreshing.                 *)

VerifyBegin(h, l) ==
    /\ link[l].mailedTo # None
    /\ link[l].state = "unused" /\ ~link[l].expired
    /\ Begin(h, "verify", [IdleFrame EXCEPT !.link = l, !.user = link[l].user])

\* Both updates are by id: the link's state is not tested again.
VerifyWrite(h) ==
    /\ pc[h] = "verify"
    /\ \/ /\ link[frame[h].link].state # "gone"
          /\ link' = [link EXCEPT ![frame[h].link].state = "used"]
          /\ account' = [account EXCEPT ![frame[h].user].status = "ACTIVE",
                                        ![frame[h].user].verified = TRUE,
                                        ![frame[h].user].confirmed =
                                            @ \cup {link[frame[h].link].mailedTo}]
          /\ Goto(h, "store")
          /\ UNCHANGED <<token, frame>>
       \/ link[frame[h].link].state = "gone" /\ Fail(h)

LoginBegin(h, u) ==
    account[u].status = "ACTIVE" /\ Begin(h, "store", [IdleFrame EXCEPT !.user = u])

StoreToken(h) ==
    /\ pc[h] = "store"
    /\ \/ Stored(frame[h].user) /\ NewToken(frame[h].user, frame[h].link) /\ Finish(h)
          /\ UNCHANGED <<account, link>>
       \/ ~Stored(frame[h].user) /\ Fail(h)

RefreshBegin(h, t) ==
    /\ token[t].state = "live" /\ account[token[t].user].status = "ACTIVE"
    /\ Begin(h, "rotate", [IdleFrame EXCEPT !.token = t, !.user = token[t].user])

\* Seeded fault: the token is revoked by id, whatever became of it since it was read.
RotateById(h) ==
    /\ pc[h] = "rotate"
    /\ LET t == frame[h].token IN
       \/ /\ token[t].state # "gone"
          /\ \E n \in FreshTokens :
                token' = [token EXCEPT ![t].state = "revoked", ![n] = [token[t] EXCEPT !.state = "live"]]
          /\ Finish(h)
          /\ UNCHANGED <<account, link>>
       \/ token[t].state = "gone" /\ Fail(h)

\* A conditional revocation: the one of two refreshes that comes second fails.
Rotate(h) ==
    /\ pc[h] = "rotate"
    /\ LET t == frame[h].token IN
       \/ /\ token[t].state = "live"
          /\ \E n \in FreshTokens :
                token' = [token EXCEPT ![t].state = "revoked", ![n] = token[t]]
          /\ Finish(h)
          /\ UNCHANGED <<account, link>>
       \/ token[t].state # "live" /\ Fail(h)

-----------------------------------------------------------------------------
(* A new e-mail address, and the end of an account.                        *)

ChangeEmailBegin(h, u, e) ==
    /\ Stored(u) /\ account[u].role = "CUSTOMER"
    /\ account[u].email # e /\ ~Taken(e)
    /\ Begin(h, "change", [IdleFrame EXCEPT !.user = u, !.email = e])

\* Seeded fault: links mailed to the old address stay usable.
ChangeEmailKeepsLinks(h) ==
    /\ pc[h] = "change"
    /\ LET u == frame[h].user IN
       \/ /\ Stored(u) /\ ~Taken(frame[h].email)
          /\ account' = [account EXCEPT ![u].email = frame[h].email, ![u].verified = FALSE]
          /\ \E l \in FreshLinks :
                /\ link' = [link EXCEPT ![l] = [NoLink EXCEPT !.state = "unused", !.user = u]]
                /\ frame' = [frame EXCEPT ![h].link = l]
          /\ Goto(h, "mail")
          /\ UNCHANGED token
       \/ ~(Stored(u) /\ ~Taken(frame[h].email)) /\ Fail(h)

ChangeEmailWrite(h) ==
    /\ pc[h] = "change"
    /\ LET u == frame[h].user IN
       \/ /\ Stored(u) /\ ~Taken(frame[h].email)
          /\ account' = [account EXCEPT ![u].email = frame[h].email, ![u].verified = FALSE]
          /\ \E l \in FreshLinks : NewLink(u, l) /\ frame' = [frame EXCEPT ![h].link = l]
          /\ Goto(h, "mail")
          /\ UNCHANGED token
       \/ ~(Stored(u) /\ ~Taken(frame[h].email)) /\ Fail(h)

DeleteBegin(h, u) ==
    /\ Stored(u)
    /\ Begin(h, IF account[u].role = "CUSTOMER" THEN "deleteCustomer" ELSE "deleteOwner",
             [IdleFrame EXCEPT !.user = u])

DropLinks(u)  == link' = [l \in Links |->
                    IF link[l].user = u THEN [link[l] EXCEPT !.state = "gone"] ELSE link[l]]
DropTokens(u) == token' = [t \in Tokens |->
                    IF token[t].user = u THEN [token[t] EXCEPT !.state = "gone"] ELSE token[t]]

\* The customer's row is deleted, and its links and tokens with it.
DeleteCustomerWrite(h) ==
    /\ pc[h] = "deleteCustomer"
    /\ LET u == frame[h].user IN
       \/ /\ Stored(u)
          /\ account' = [account EXCEPT ![u].status = "GONE"]
          /\ DropLinks(u) /\ DropTokens(u)
          /\ Finish(h)
       \/ ~Stored(u) /\ Fail(h)

\* Seeded fault: the owner's links are kept.
DeleteOwnerKeepsLinks(h) ==
    /\ pc[h] = "deleteOwner"
    /\ LET u == frame[h].user IN
          /\ account' = [account EXCEPT ![u].status = "DISABLED", ![u].email = None,
                                        ![u].verified = FALSE]
          /\ UNCHANGED link /\ DropTokens(u)
          /\ Finish(h)

\* The owner's row stays, without address and disabled.
DeleteOwnerWrite(h) ==
    /\ pc[h] = "deleteOwner"
    /\ LET u == frame[h].user IN
          /\ account' = [account EXCEPT ![u].status = "DISABLED", ![u].email = None,
                                        ![u].verified = FALSE]
          /\ DropLinks(u) /\ DropTokens(u)
          /\ Finish(h)

\* A day passes: a link lapses.
LinkExpires(l) ==
    /\ link[l].state = "unused" /\ ~link[l].expired
    /\ link' = [link EXCEPT ![l].expired = TRUE]
    /\ UNCHANGED <<account, token, pc, frame>>

-----------------------------------------------------------------------------

Asked(h) ==
    \/ \E e \in Emails, role \in Roles : RegisterBegin(h, e, role)
    \/ \E u \in Users : ResendBegin(h, u) \/ LoginLinkBegin(h, u) \/ LoginBegin(h, u)
                        \/ DeleteBegin(h, u)
    \/ \E l \in Links : VerifyBegin(h, l)
    \/ \E t \in Tokens : RefreshBegin(h, t)
    \/ \E u \in Users, e \in Emails : ChangeEmailBegin(h, u, e)

Step(h) ==
    \/ RegisterWrite(h) \/ LinkWrite(h) \/ Mail(h) \/ VerifyWrite(h) \/ StoreToken(h) \/ Rotate(h)
    \/ ChangeEmailWrite(h) \/ DeleteCustomerWrite(h) \/ DeleteOwnerWrite(h)

Next ==
    \/ \E h \in Requests : Asked(h) \/ Step(h)
    \/ \E l \in Links : LinkExpires(l)

Spec == Init /\ [][Next]_vars

-----------------------------------------------------------------------------
(* However handlers interleave. *)

\* A session has at most one refresh token in force: of refreshes that race, and
\* of a refresh repeated because its answer was lost, one is served.
OneLiveToken ==
    \A s, t \in Tokens :
        token[s].state = "live" /\ token[t].state = "live" /\ token[s].session = token[t].session
            => s = t

-----------------------------------------------------------------------------
(* Requests served one at a time. *)

\* An account's address counts as verified only if a link was opened that had been
\* mailed to that address, whatever was mailed to addresses it had before.
AddressVerified ==
    \A u \in Users : account[u].verified /\ account[u].email # None
                         => account[u].email \in account[u].confirmed

\* A link opens one session, however often it is followed.
LinkOpensOneSession ==
    \A s, t \in Tokens :
        /\ token[s].session = s /\ token[t].session = t
        /\ token[s].from # None /\ token[s].from = token[t].from
        => s = t

\* An account its owner deleted is not brought back by what was mailed before.
KeepsDeletedDeleted ==
    \A u \in Users : account[u].status \in {"GONE", "DISABLED"}
                          => account'[u].status = account[u].status
=============================================================================
