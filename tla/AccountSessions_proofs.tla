------------------------ MODULE AccountSessions_proofs ------------------------
(***************************************************************************)
(* Proofs about accounts, the links mailed to them and their sessions, for *)
(* every number of users, addresses, links and tokens.  That a session has *)
(* one token holds however requests overlap; what links are trusted with   *)
(* holds for requests served one at a time (MaxActive = 1).                *)
(***************************************************************************)
EXTENDS AccountSessions, FiniteSetTheorems, TLAPS

-----------------------------------------------------------------------------
(* The inductive invariant of overlapping requests.                        *)

\* A link that was made belongs to a user that was; one that was not has nothing.
LinkMade(l) ==
    IF link[l].state = "none" THEN link[l] = NoLink
    ELSE link[l].user \in Users /\ account[link[l].user].status # "NONE"

\* A token that was made is of a user, and of a session that was made.
TokenMade(t) ==
    IF token[t].state = "none" THEN token[t] = NoToken
    ELSE /\ token[t].user \in Users
         /\ token[t].session \in Tokens /\ token[token[t].session].state # "none"

LinksGood  == link \in [Links -> LinkRows] /\ \A l \in Links : LinkMade(l)
TokensGood == token \in [Tokens -> TokenRows] /\ (\A t \in Tokens : TokenMade(t)) /\ OneLiveToken

\* What a handler at label l has in hand, when the links are ln.
FrameGood(ln, l, f) ==
    /\ l \in {"link", "verify", "store", "rotate", "change", "deleteCustomer", "deleteOwner"}
          => f.user \in Users
    /\ l \in {"register", "link", "mail", "change"} => f.email \in Emails
    /\ l \in {"mail", "verify"} => f.link \in Links /\ ln[f.link].state # "none"
    /\ l = "verify" => ln[f.link].mailedTo \in Emails
    /\ l = "rotate" => f.token \in Tokens

HandlersGood ==
    /\ pc \in [Requests -> Labels] /\ frame \in [Requests -> Frames]
    /\ \A h \in Requests : FrameGood(link, pc[h], frame[h])

SessionInv == account \in [Users -> Accounts] /\ LinksGood /\ TokensGood /\ HandlersGood

-----------------------------------------------------------------------------
(* What the writes keep.                                                   *)

AccountsKept ==
    /\ account' \in [Users -> Accounts]
    /\ \A u \in Users : account[u].status # "NONE" => account'[u].status # "NONE"

LinksKept ==
    \A l \in Links : link[l].state # "none" =>
        /\ link'[l].state # "none"
        /\ link[l].mailedTo \in Emails => link'[l].mailedTo \in Emails

\* A row of an account is written, and the account is one then.
LEMMA AccountWritten ==
    ASSUME account \in [Users -> Accounts], NEW u \in Users, NEW a \in Accounts,
           a.status # "NONE", account' = [account EXCEPT ![u] = a]
    PROVE  AccountsKept
BY DEF AccountsKept

LEMMA AccountsStay ==
    ASSUME account \in [Users -> Accounts], UNCHANGED account
    PROVE  AccountsKept
BY DEF AccountsKept

\* Links made stay links that were made.
LEMMA LinksStay ==
    ASSUME LinksGood, AccountsKept, UNCHANGED link
    PROVE  LinksGood' /\ LinksKept
BY DEF LinksGood, LinkMade, AccountsKept, LinksKept

LEMMA LinkWritten ==
    ASSUME LinksGood, AccountsKept, NEW l \in Links, NEW r \in LinkRows,
           link' = [link EXCEPT ![l] = r], link[l].state # "none",
           r.state # "none", r.user = link[l].user,
           link[l].mailedTo \in Emails => r.mailedTo \in Emails
    PROVE  LinksGood' /\ LinksKept
<1>1. link' \in [Links -> LinkRows] /\ LinksKept
  BY DEF LinksGood, LinksKept
<1>2. ASSUME NEW k \in Links PROVE LinkMade(k)'
  BY DEF LinksGood, LinkMade, AccountsKept
<1> QED
  BY <1>1, <1>2 DEF LinksGood

LEMMA LinkMadeNew ==
    ASSUME LinksGood, AccountsKept, NEW u \in Users, account'[u].status # "NONE",
           NEW l \in FreshLinks, NewLink(u, l)
    PROVE  LinksGood' /\ LinksKept /\ l \in Links /\ link'[l].state # "none"
<1>1. link' \in [Links -> LinkRows]
  BY DEF LinksGood, NewLink, LinkRows
<1>2. \A k \in Links : /\ link'[k].state = "none" => link'[k] = link[k]
                       /\ link'[k].user \in {link[k].user, u}
                       /\ link[k].state # "none" => /\ link'[k].state # "none"
                                                    /\ link'[k].user = link[k].user
                                                    /\ link'[k].mailedTo = link[k].mailedTo
                       /\ k # l /\ link[k].state = "none" => link'[k] = link[k]
  BY DEF LinksGood, LinkMade, NewLink, LinkRows, FreshLinks, NoLink
<1>3. l \in Links /\ link'[l].state # "none" /\ link'[l].user = u
  BY DEF NewLink, FreshLinks
<1>4. ASSUME NEW k \in Links PROVE LinkMade(k)'
  <2>1. CASE k = l
    BY <2>1, <1>3 DEF LinkMade
  <2>2. CASE k # l
    BY <2>2, <1>2 DEF LinkMade, LinksGood, AccountsKept
  <2> QED
    BY <2>1, <2>2
<1> QED
  BY <1>1, <1>2, <1>3, <1>4 DEF LinksGood, LinksKept

LEMMA LinksDropped ==
    ASSUME SessionIdentities, LinksGood, AccountsKept, NEW u \in Users, DropLinks(u)
    PROVE  LinksGood' /\ LinksKept
<1>1. link' \in [Links -> LinkRows]
  BY DEF LinksGood, DropLinks, LinkRows
<1>2. \A k \in Links : /\ link[k].state = "none" => link'[k] = link[k]
                       /\ link[k].state # "none" => /\ link'[k].state # "none"
                                                    /\ link'[k].user = link[k].user
                                                    /\ link'[k].mailedTo = link[k].mailedTo
  <2> SUFFICES ASSUME NEW k \in Links
               PROVE  /\ link[k].state = "none" => link'[k] = link[k]
                      /\ link[k].state # "none" => /\ link'[k].state # "none"
                                                   /\ link'[k].user = link[k].user
                                                   /\ link'[k].mailedTo = link[k].mailedTo
    OBVIOUS
  <2>1. link[k].state = "none" => link[k].user # u
    BY DEF SessionIdentities, LinksGood, LinkMade, NoLink
  <2> QED
    BY <2>1 DEF LinksGood, LinkRows, DropLinks
<1> QED
  BY <1>1, <1>2 DEF LinksGood, LinkMade, LinksKept, AccountsKept

\* Tokens: a new session, a rotation, and the end of all of a user's.
LEMMA TokensStay ==
    ASSUME TokensGood, UNCHANGED token
    PROVE  TokensGood'
BY DEF TokensGood, TokenMade, OneLiveToken

LEMMA TokenMadeNew ==
    ASSUME TokensGood, NEW u \in Users, NEW l \in Links \cup {None}, NewToken(u, l)
    PROVE  TokensGood'
<1>1. PICK t \in FreshTokens :
          token' = [token EXCEPT ![t] = [state |-> "live", user |-> u, session |-> t, from |-> l]]
  BY DEF NewToken
<1>2. t \in Tokens /\ token[t].state = "none" /\ token \in [Tokens -> TokenRows]
  BY DEF FreshTokens, TokensGood
<1>3. token' \in [Tokens -> TokenRows]
  BY <1>1, <1>2 DEF TokenRows
<1>4. /\ token'[t].state = "live" /\ token'[t].session = t /\ token'[t].user = u
      /\ \A s \in Tokens \ {t} : token'[s] = token[s]
  BY <1>1, <1>2
<1>5. \A s \in Tokens : token[s].state # "none" => token[s].session # t
  BY <1>2 DEF TokensGood, TokenMade
<1>6. ASSUME NEW s \in Tokens PROVE TokenMade(s)'
  <2>1. \A x \in Tokens : token[x].state # "none" => token'[x].state # "none"
    BY <1>4
  <2>2. CASE s = t
    BY <1>4, <2>2 DEF TokenMade
  <2>3. CASE s # t
    <3>1. TokenMade(s) /\ token'[s] = token[s]
      BY <1>4, <2>3 DEF TokensGood
    <3> QED
      BY <2>1, <3>1 DEF TokenMade
  <2> QED
    BY <2>2, <2>3
<1>7. OneLiveToken'
  BY <1>2, <1>4, <1>5 DEF TokensGood, OneLiveToken
<1> QED
  BY <1>3, <1>6, <1>7 DEF TokensGood

LEMMA TokenRotated ==
    ASSUME TokensGood, NEW t \in Tokens, token[t].state = "live", NEW n \in FreshTokens,
           token' = [token EXCEPT ![t].state = "revoked", ![n] = token[t]]
    PROVE  TokensGood'
<1>1. n \in Tokens /\ token[n].state = "none" /\ n # t /\ token \in [Tokens -> TokenRows]
  BY DEF FreshTokens, TokensGood
<1>2. token' \in [Tokens -> TokenRows]
  BY <1>1 DEF TokenRows
<1>3. /\ token'[n] = token[t]
      /\ token'[t].state = "revoked"
      /\ token'[t].user = token[t].user /\ token'[t].session = token[t].session
      /\ \A s \in Tokens \ {t, n} : token'[s] = token[s]
  BY <1>1 DEF TokenRows
<1>4. ASSUME NEW s \in Tokens PROVE TokenMade(s)'
  BY <1>1, <1>3 DEF TokensGood, TokenMade
<1>5. OneLiveToken'
  BY <1>1, <1>3 DEF TokensGood, OneLiveToken
<1> QED
  BY <1>2, <1>4, <1>5 DEF TokensGood

LEMMA TokensDropped ==
    ASSUME SessionIdentities, TokensGood, NEW u \in Users, DropTokens(u)
    PROVE  TokensGood'
<1>1. token' \in [Tokens -> TokenRows]
  BY DEF TokensGood, DropTokens, TokenRows
<1>2. \A t \in Tokens :
          /\ token'[t].user = token[t].user /\ token'[t].session = token[t].session
          /\ token'[t].state \in {token[t].state, "gone"}
  BY DEF TokensGood, DropTokens, TokenRows
<1>3. \A t \in Tokens : token[t].state = "none" => token'[t] = token[t]
  BY DEF SessionIdentities, TokensGood, TokenMade, NoToken, DropTokens
<1>4. \A t \in Tokens : token[t].state # "none" => token'[t].state # "none"
  BY <1>2
<1>5. ASSUME NEW t \in Tokens PROVE TokenMade(t)'
  BY <1>2, <1>3, <1>4 DEF TokensGood, TokenMade
<1>6. OneLiveToken'
  BY <1>2 DEF TokensGood, OneLiveToken
<1> QED
  BY <1>1, <1>5, <1>6 DEF TokensGood

\* One handler moves, the links that were made stay.
LEMMA HandlerMoves ==
    ASSUME HandlersGood, LinksKept, NEW h \in Requests, NEW l \in Labels, NEW f \in Frames,
           FrameGood(link', l, f),
           pc' = [pc EXCEPT ![h] = l], frame' = [frame EXCEPT ![h] = f]
    PROVE  HandlersGood'
<1>1. pc' \in [Requests -> Labels] /\ frame' \in [Requests -> Frames]
  BY DEF HandlersGood
<1>2. ASSUME NEW g \in Requests PROVE FrameGood(link', pc'[g], frame'[g])
  <2>1. CASE g = h
    BY <2>1 DEF HandlersGood
  <2>2. CASE g # h
    <3>1. pc'[g] = pc[g] /\ frame'[g] = frame[g] /\ FrameGood(link, pc[g], frame[g])
      BY <2>2 DEF HandlersGood
    <3> QED
      BY <3>1 DEF FrameGood, LinksKept
  <2> QED
    BY <2>1, <2>2
<1> QED
  BY <1>1, <1>2 DEF HandlersGood

LEMMA HandlerEnds ==
    ASSUME HandlersGood, LinksKept, NEW h \in Requests, Finish(h)
    PROVE  HandlersGood'
<1> DEFINE f == IdleFrame
<1>1. "idle" \in Labels /\ f \in Frames /\ FrameGood(link', "idle", f)
  BY DEF Labels, Frames, FrameGood, IdleFrame, Roles
<1>2. pc' = [pc EXCEPT ![h] = "idle"] /\ frame' = [frame EXCEPT ![h] = f]
  BY DEF Finish
<1> HIDE DEF f
<1> QED
  BY <1>1, <1>2, HandlerMoves

LEMMA HandlerFails ==
    ASSUME SessionInv, NEW h \in Requests, Fail(h)
    PROVE  SessionInv'
<1>1. AccountsKept /\ UNCHANGED <<link, token>> /\ Finish(h)
  BY AccountsStay DEF Fail, SessionInv
<1> QED
  BY <1>1, LinksStay, TokensStay, HandlerEnds DEF SessionInv, AccountsKept

LEMMA HandlerBegins ==
    ASSUME SessionInv, NEW h \in Requests, NEW l \in Labels, NEW f \in Frames,
           FrameGood(link, l, f), Begin(h, l, f)
    PROVE  SessionInv'
<1>1. AccountsKept /\ UNCHANGED <<link, token>>
  BY AccountsStay DEF Begin, SessionInv
<1>2. LinksGood' /\ LinksKept /\ TokensGood'
  BY <1>1, LinksStay, TokensStay DEF SessionInv
<1>3. HandlersGood'
  BY <1>1, <1>2, HandlerMoves DEF SessionInv, Begin
<1> QED
  BY <1>1, <1>2, <1>3 DEF SessionInv, AccountsKept

-----------------------------------------------------------------------------
(* Steps, in the order of the module.                                      *)

LEMMA BeginKeeps ==
    ASSUME SessionIdentities, SessionInv, NEW h \in Requests, Asked(h)
    PROVE  SessionInv'
<1> USE DEF FrameGood, Frames, IdleFrame, Labels, Roles
<1>1. account \in [Users -> Accounts] /\ LinksGood /\ TokensGood
  BY DEF SessionInv
<1>2. ASSUME NEW e \in Emails, NEW role \in Roles, RegisterBegin(h, e, role) PROVE SessionInv'
  <2>1. PICK f : f = [IdleFrame EXCEPT !.email = e, !.role = role]
    OBVIOUS
  <2>2. f \in Frames /\ f.email = e
    BY <2>1
  <2>3. Begin(h, "register", f)
    BY <1>2, <2>1 DEF RegisterBegin
  <2> QED
    BY <2>2, <2>3, HandlerBegins
<1>3. ASSUME NEW u \in Users, ResendBegin(h, u) \/ LoginLinkBegin(h, u) PROVE SessionInv'
  <2>1. PICK f : f = [IdleFrame EXCEPT !.user = u, !.email = account[u].email]
    OBVIOUS
  <2>2. account[u].email \in Emails
    BY <1>1, <1>3 DEF ResendBegin, LoginLinkBegin, Accounts
  <2>3. f \in Frames /\ f.email \in Emails /\ f.user \in Users
    BY <2>1, <2>2
  <2>4. Begin(h, "link", f)
    BY <1>3, <2>1 DEF ResendBegin, LoginLinkBegin
  <2> QED
    BY <2>3, <2>4, HandlerBegins
<1>4. ASSUME NEW u \in Users, NEW l \in {"store", "deleteCustomer", "deleteOwner"},
             Begin(h, l, [IdleFrame EXCEPT !.user = u])
      PROVE  SessionInv'
  <2>1. PICK f : f = [IdleFrame EXCEPT !.user = u]
    OBVIOUS
  <2>2. f \in Frames /\ f.user = u
    BY <2>1
  <2> QED
    BY <1>4, <2>1, <2>2, HandlerBegins
<1>5. ASSUME NEW l \in Links, VerifyBegin(h, l) PROVE SessionInv'
  <2>1. PICK f : f = [IdleFrame EXCEPT !.link = l, !.user = link[l].user]
    OBVIOUS
  <2>2. link[l].mailedTo \in Emails /\ link[l].state # "none" /\ link[l].user \in Users
    BY <1>1, <1>5 DEF VerifyBegin, LinksGood, LinkMade, LinkRows
  <2>3. f \in Frames /\ f.link = l /\ f.user \in Users
    BY <2>1, <2>2
  <2>4. Begin(h, "verify", f)
    BY <1>5, <2>1 DEF VerifyBegin
  <2> QED
    BY <2>2, <2>3, <2>4, HandlerBegins
<1>6. ASSUME NEW t \in Tokens, RefreshBegin(h, t) PROVE SessionInv'
  <2>1. PICK f : f = [IdleFrame EXCEPT !.token = t, !.user = token[t].user]
    OBVIOUS
  <2>2. token[t].user \in Users
    BY <1>1, <1>6 DEF RefreshBegin, TokensGood, TokenMade
  <2>3. f \in Frames /\ f.token = t /\ f.user \in Users
    BY <2>1, <2>2
  <2>4. Begin(h, "rotate", f)
    BY <1>6, <2>1 DEF RefreshBegin
  <2> QED
    BY <2>3, <2>4, HandlerBegins
<1>7. ASSUME NEW u \in Users, NEW e \in Emails, ChangeEmailBegin(h, u, e) PROVE SessionInv'
  <2>1. PICK f : f = [IdleFrame EXCEPT !.user = u, !.email = e]
    OBVIOUS
  <2>2. f \in Frames /\ f.user = u /\ f.email = e
    BY <2>1
  <2>3. Begin(h, "change", f)
    BY <1>7, <2>1 DEF ChangeEmailBegin
  <2> QED
    BY <2>2, <2>3, HandlerBegins
<1> QED
  BY <1>2, <1>3, <1>4, <1>5, <1>6, <1>7 DEF Asked, LoginBegin, DeleteBegin

LEMMA RegisterKeeps ==
    ASSUME SessionInv, NEW h \in Requests, RegisterWrite(h)
    PROVE  SessionInv'
<1>1. CASE Taken(frame[h].email) /\ Fail(h)
  BY <1>1, HandlerFails
<1>2. CASE ~(Taken(frame[h].email) /\ Fail(h))
  <2>1. PICK u \in FreshUsers, l \in FreshLinks :
            /\ account' = [account EXCEPT ![u] = [NoAccount EXCEPT
                              !.status = "PENDING_EMAIL_VERIFICATION",
                              !.role = frame[h].role, !.email = frame[h].email]]
            /\ NewLink(u, l)
            /\ frame' = [frame EXCEPT ![h].link = l]
            /\ pc' = [pc EXCEPT ![h] = "mail"] /\ UNCHANGED token
    BY <1>2 DEF RegisterWrite, Goto
  <2>2. u \in Users /\ frame[h] \in Frames /\ pc[h] = "register" /\ frame[h].email \in Emails
    BY DEF FreshUsers, RegisterWrite, SessionInv, HandlersGood, FrameGood
  <2> DEFINE a == [NoAccount EXCEPT !.status = "PENDING_EMAIL_VERIFICATION",
                                    !.role = frame[h].role, !.email = frame[h].email]
             f == [frame[h] EXCEPT !.link = l]
  <2>3. a \in Accounts /\ a.status # "NONE"
    BY <2>2 DEF NoAccount, Accounts, RowStates, Frames
  <2>4. l \in Links /\ f \in Frames /\ f.link = l /\ f.email \in Emails
    BY <2>2 DEF Frames, FreshLinks
  <2>5. account' = [account EXCEPT ![u] = a] /\ frame' = [frame EXCEPT ![h] = f]
    BY <2>1, <2>2 DEF SessionInv, HandlersGood
  <2> HIDE DEF a, f
  <2>6. AccountsKept /\ account'[u].status # "NONE"
    BY <2>2, <2>3, <2>5, AccountWritten DEF SessionInv
  <2>7. LinksGood' /\ LinksKept /\ link'[l].state # "none"
    BY <2>1, <2>2, <2>6, LinkMadeNew DEF SessionInv
  <2>8. "mail" \in Labels /\ FrameGood(link', "mail", f)
    BY <2>4, <2>7 DEF Labels, FrameGood
  <2>9. HandlersGood'
    BY <2>1, <2>4, <2>5, <2>7, <2>8, HandlerMoves DEF SessionInv
  <2> QED
    BY <2>1, <2>6, <2>7, <2>9, TokensStay DEF SessionInv, AccountsKept
<1> QED
  BY <1>1, <1>2

\* A handler that made a link goes on to mail it.
LEMMA GoesOnToMail ==
    ASSUME SessionInv, LinksKept, NEW h \in Requests, NEW l \in Links, link'[l].state # "none",
           frame[h].email \in Emails, frame' = [frame EXCEPT ![h].link = l], Goto(h, "mail")
    PROVE  HandlersGood'
<1> DEFINE f == [frame[h] EXCEPT !.link = l]
<1>1. frame[h] \in Frames /\ frame' = [frame EXCEPT ![h] = f]
  BY DEF SessionInv, HandlersGood
<1>2. f \in Frames /\ f.link = l /\ f.email \in Emails
  BY <1>1 DEF Frames
<1> HIDE DEF f
<1>3. "mail" \in Labels /\ FrameGood(link', "mail", f)
  BY <1>2 DEF Labels, FrameGood
<1> QED
  BY <1>1, <1>2, <1>3, HandlerMoves DEF SessionInv, Goto

LEMMA LinkKeeps ==
    ASSUME SessionInv, NEW h \in Requests, LinkWrite(h)
    PROVE  SessionInv'
<1>1. CASE ~Stored(frame[h].user) /\ Fail(h)
  BY <1>1, HandlerFails
<1>2. CASE ~(~Stored(frame[h].user) /\ Fail(h))
  <2>1. PICK l \in FreshLinks :
            /\ Stored(frame[h].user) /\ NewLink(frame[h].user, l)
            /\ frame' = [frame EXCEPT ![h].link = l]
            /\ Goto(h, "mail") /\ UNCHANGED <<account, token>>
    BY <1>2 DEF LinkWrite
  <2>2. frame[h].user \in Users /\ frame[h].email \in Emails
    BY DEF LinkWrite, SessionInv, HandlersGood, FrameGood
  <2>3. AccountsKept /\ account'[frame[h].user].status # "NONE"
    BY <2>1, AccountsStay DEF Stored, RowStates, SessionInv
  <2>4. LinksGood' /\ LinksKept /\ l \in Links /\ link'[l].state # "none"
    BY <2>1, <2>2, <2>3, LinkMadeNew DEF SessionInv
  <2> QED
    BY <2>1, <2>2, <2>3, <2>4, GoesOnToMail, TokensStay DEF SessionInv, AccountsKept
<1> QED
  BY <1>1, <1>2

LEMMA MailKeeps ==
    ASSUME SessionInv, NEW h \in Requests, Mail(h)
    PROVE  SessionInv'
<1>1. AccountsKept /\ UNCHANGED token /\ Finish(h)
  BY AccountsStay DEF Mail, SessionInv
<1>2. PICK l \in Links : l = frame[h].link /\ link[l].state # "none"
  BY DEF Mail, SessionInv, HandlersGood, FrameGood
<1>3. PICK e \in Emails : e = frame[h].email
  BY DEF Mail, SessionInv, HandlersGood, FrameGood
<1> DEFINE r == [link[l] EXCEPT !.mailedTo = e]
<1>4. link[l] \in LinkRows /\ link \in [Links -> LinkRows]
  BY DEF SessionInv, LinksGood
<1>5. r \in LinkRows /\ r.state = link[l].state /\ r.user = link[l].user /\ r.mailedTo = e
  BY <1>4 DEF LinkRows
<1>6. link' = [link EXCEPT ![l] = r] \/ UNCHANGED link
  BY <1>2, <1>3, <1>4 DEF Mail
<1> HIDE DEF r
<1>7. LinksGood' /\ LinksKept
  <2>1. CASE link' = [link EXCEPT ![l] = r]
    BY <1>1, <1>2, <1>5, <2>1, LinkWritten DEF SessionInv
  <2> QED
    BY <1>1, <1>6, <2>1, LinksStay DEF SessionInv
<1> QED
  BY <1>1, <1>7, HandlerEnds, TokensStay DEF SessionInv, AccountsKept

LEMMA VerifyKeeps ==
    ASSUME SessionInv, NEW h \in Requests, VerifyWrite(h)
    PROVE  SessionInv'
<1>1. CASE link[frame[h].link].state = "gone" /\ Fail(h)
  BY <1>1, HandlerFails
<1>2. CASE ~(link[frame[h].link].state = "gone" /\ Fail(h))
  <2>1. PICK l \in Links : l = frame[h].link /\ link[l].state # "none" /\ link[l].mailedTo \in Emails
    BY DEF VerifyWrite, SessionInv, HandlersGood, FrameGood
  <2>2. PICK u \in Users : u = frame[h].user
    BY DEF VerifyWrite, SessionInv, HandlersGood, FrameGood
  <2>3. /\ link' = [link EXCEPT ![l].state = "used"]
        /\ account' = [account EXCEPT ![u].status = "ACTIVE", ![u].verified = TRUE,
                                      ![u].confirmed = @ \cup {link[l].mailedTo}]
        /\ Goto(h, "store") /\ UNCHANGED <<token, frame>>
    BY <1>2, <2>1, <2>2 DEF VerifyWrite
  <2> DEFINE a == [account[u] EXCEPT !.status = "ACTIVE", !.verified = TRUE,
                                     !.confirmed = @ \cup {link[l].mailedTo}]
             r == [link[l] EXCEPT !.state = "used"]
  <2>4. account[u] \in Accounts /\ account \in [Users -> Accounts]
    BY DEF SessionInv
  <2>5. a \in Accounts /\ a.status # "NONE" /\ account' = [account EXCEPT ![u] = a]
    BY <2>1, <2>3, <2>4 DEF Accounts, RowStates
  <2>6. link[l] \in LinkRows /\ link \in [Links -> LinkRows]
    BY DEF SessionInv, LinksGood
  <2>7. /\ r \in LinkRows /\ r.state # "none" /\ r.user = link[l].user /\ r.mailedTo = link[l].mailedTo
        /\ link' = [link EXCEPT ![l] = r]
    BY <2>3, <2>6 DEF LinkRows
  <2> HIDE DEF a, r
  <2>8. AccountsKept
    BY <2>4, <2>5, AccountWritten
  <2>9. LinksGood' /\ LinksKept
    BY <2>1, <2>7, <2>8, LinkWritten DEF SessionInv
  <2>10. PICK f \in Frames : f = frame[h] /\ f.user \in Users
    BY <2>2 DEF SessionInv, HandlersGood
  <2>11. "store" \in Labels /\ FrameGood(link', "store", f) /\ frame' = [frame EXCEPT ![h] = f]
    BY <2>3, <2>10 DEF Labels, FrameGood, SessionInv, HandlersGood
  <2>12. HandlersGood'
    BY <2>3, <2>9, <2>10, <2>11, HandlerMoves DEF SessionInv, Goto
  <2> QED
    BY <2>3, <2>8, <2>9, <2>12, TokensStay DEF SessionInv, AccountsKept
<1> QED
  BY <1>1, <1>2

LEMMA StoreKeeps ==
    ASSUME SessionInv, NEW h \in Requests, StoreToken(h)
    PROVE  SessionInv'
<1>1. CASE ~Stored(frame[h].user) /\ Fail(h)
  BY <1>1, HandlerFails
<1>2. CASE ~(~Stored(frame[h].user) /\ Fail(h))
  <2>1. NewToken(frame[h].user, frame[h].link) /\ Finish(h) /\ UNCHANGED <<account, link>>
    BY <1>2 DEF StoreToken
  <2>2. frame[h].user \in Users /\ frame[h].link \in Links \cup {None}
    BY DEF StoreToken, SessionInv, HandlersGood, FrameGood, Frames
  <2>3. AccountsKept /\ LinksGood' /\ LinksKept
    BY <2>1, AccountsStay, LinksStay DEF SessionInv
  <2> QED
    BY <2>1, <2>2, <2>3, TokenMadeNew, HandlerEnds DEF SessionInv, AccountsKept
<1> QED
  BY <1>1, <1>2

LEMMA RotateKeeps ==
    ASSUME SessionInv, NEW h \in Requests, Rotate(h)
    PROVE  SessionInv'
<1>1. CASE token[frame[h].token].state # "live" /\ Fail(h)
  BY <1>1, HandlerFails
<1>2. CASE ~(token[frame[h].token].state # "live" /\ Fail(h))
  <2>1. PICK t \in Tokens : t = frame[h].token
    BY DEF Rotate, SessionInv, HandlersGood, FrameGood
  <2>2. PICK n \in FreshTokens :
            /\ token[t].state = "live"
            /\ token' = [token EXCEPT ![t].state = "revoked", ![n] = token[t]]
            /\ Finish(h) /\ UNCHANGED <<account, link>>
    BY <1>2, <2>1 DEF Rotate
  <2>3. AccountsKept /\ LinksGood' /\ LinksKept
    BY <2>2, AccountsStay, LinksStay DEF SessionInv
  <2> QED
    BY <2>2, <2>3, TokenRotated, HandlerEnds DEF SessionInv, AccountsKept
<1> QED
  BY <1>1, <1>2

LEMMA ChangeEmailKeeps ==
    ASSUME SessionInv, NEW h \in Requests, ChangeEmailWrite(h)
    PROVE  SessionInv'
<1>1. CASE ~(Stored(frame[h].user) /\ ~Taken(frame[h].email)) /\ Fail(h)
  BY <1>1, HandlerFails
<1>2. CASE ~(~(Stored(frame[h].user) /\ ~Taken(frame[h].email)) /\ Fail(h))
  <2>1. PICK u \in Users, e \in Emails : u = frame[h].user /\ e = frame[h].email
    BY DEF ChangeEmailWrite, SessionInv, HandlersGood, FrameGood
  <2>2. PICK l \in FreshLinks :
            /\ Stored(u)
            /\ account' = [account EXCEPT ![u].email = e, ![u].verified = FALSE]
            /\ NewLink(u, l) /\ frame' = [frame EXCEPT ![h].link = l]
            /\ Goto(h, "mail") /\ UNCHANGED token
    BY <1>2, <2>1 DEF ChangeEmailWrite
  <2> DEFINE a == [account[u] EXCEPT !.email = e, !.verified = FALSE]
  <2>3. account[u] \in Accounts /\ account \in [Users -> Accounts]
    BY DEF SessionInv
  <2>4. a \in Accounts /\ a.status # "NONE" /\ account' = [account EXCEPT ![u] = a]
    BY <2>2, <2>3 DEF Accounts, Stored, RowStates
  <2> HIDE DEF a
  <2>5. AccountsKept /\ account'[u].status # "NONE"
    BY <2>3, <2>4, AccountWritten
  <2>6. LinksGood' /\ LinksKept /\ l \in Links /\ link'[l].state # "none"
    BY <2>2, <2>5, LinkMadeNew DEF SessionInv
  <2> QED
    BY <2>1, <2>2, <2>5, <2>6, GoesOnToMail, TokensStay DEF SessionInv, AccountsKept
<1> QED
  BY <1>1, <1>2

\* The end of an account: of a row, or of what it is good for.
LEMMA DeletionKeeps ==
    ASSUME SessionIdentities, SessionInv, NEW h \in Requests, NEW u \in Users, NEW a \in Accounts,
           a.status # "NONE", account' = [account EXCEPT ![u] = a],
           DropLinks(u), DropTokens(u), Finish(h)
    PROVE  SessionInv'
<1>1. AccountsKept
  BY AccountWritten DEF SessionInv
<1>2. LinksGood' /\ LinksKept /\ TokensGood'
  BY <1>1, LinksDropped, TokensDropped DEF SessionInv
<1> QED
  BY <1>1, <1>2, HandlerEnds DEF SessionInv, AccountsKept

LEMMA DeleteKeeps ==
    ASSUME SessionIdentities, SessionInv, NEW h \in Requests,
           DeleteCustomerWrite(h) \/ DeleteOwnerWrite(h)
    PROVE  SessionInv'
<1>1. PICK u \in Users : u = frame[h].user
  BY DEF DeleteCustomerWrite, DeleteOwnerWrite, SessionInv, HandlersGood, FrameGood
<1>2. account[u] \in Accounts /\ account \in [Users -> Accounts]
  BY DEF SessionInv
<1>3. CASE DeleteCustomerWrite(h) /\ Stored(u)
  <2> DEFINE a == [account[u] EXCEPT !.status = "GONE"]
  <2>1. a \in Accounts /\ a.status # "NONE"
    BY <1>2 DEF Accounts
  <2>2. /\ account' = [account EXCEPT ![u] = a]
        /\ DropLinks(u) /\ DropTokens(u) /\ Finish(h)
    BY <1>1, <1>2, <1>3 DEF DeleteCustomerWrite
  <2> HIDE DEF a
  <2> QED
    BY <2>1, <2>2, DeletionKeeps
<1>4. CASE DeleteCustomerWrite(h) /\ ~Stored(u)
  BY <1>1, <1>4, HandlerFails DEF DeleteCustomerWrite
<1>5. CASE DeleteOwnerWrite(h)
  <2> DEFINE a == [account[u] EXCEPT !.status = "DISABLED", !.email = None, !.verified = FALSE]
  <2>1. a \in Accounts /\ a.status # "NONE"
    BY <1>2 DEF Accounts, RowStates
  <2>2. /\ account' = [account EXCEPT ![u] = a]
        /\ DropLinks(u) /\ DropTokens(u) /\ Finish(h)
    BY <1>1, <1>2, <1>5 DEF DeleteOwnerWrite
  <2> HIDE DEF a
  <2> QED
    BY <2>1, <2>2, DeletionKeeps
<1> QED
  BY <1>3, <1>4, <1>5

LEMMA ExpiryKeeps ==
    ASSUME SessionInv, NEW l \in Links, LinkExpires(l)
    PROVE  SessionInv'
<1> DEFINE r == [link[l] EXCEPT !.expired = TRUE]
<1>1. link[l] \in LinkRows /\ link \in [Links -> LinkRows] /\ link[l].state = "unused"
  BY DEF SessionInv, LinksGood, LinkExpires
<1>2. /\ r \in LinkRows /\ r.state # "none" /\ r.user = link[l].user /\ r.mailedTo = link[l].mailedTo
      /\ link' = [link EXCEPT ![l] = r]
  BY <1>1 DEF LinkRows, LinkExpires
<1> HIDE DEF r
<1>3. AccountsKept /\ UNCHANGED <<token, pc, frame>>
  BY AccountsStay DEF SessionInv, LinkExpires
<1>4. LinksGood' /\ LinksKept
  BY <1>1, <1>2, <1>3, LinkWritten DEF SessionInv
<1>5. HandlersGood'
  BY <1>3, <1>4 DEF SessionInv, HandlersGood, FrameGood, LinksKept
<1> QED
  BY <1>3, <1>4, <1>5, TokensStay DEF SessionInv, AccountsKept

LEMMA SessionInvInit ==
    ASSUME SessionIdentities, Init
    PROVE  SessionInv
BY DEF Init, SessionInv, LinksGood, LinkMade, TokensGood, TokenMade, OneLiveToken, HandlersGood,
       FrameGood, NoAccount, Accounts, Roles, NoLink, LinkRows, NoToken, TokenRows, Labels, Frames,
       IdleFrame

LEMMA SessionInvNext ==
    ASSUME SessionIdentities, SessionInv, [Next]_vars
    PROVE  SessionInv'
<1>1. ASSUME NEW h \in Requests, Step(h) PROVE SessionInv'
  BY <1>1, RegisterKeeps, LinkKeeps, MailKeeps, VerifyKeeps, StoreKeeps, RotateKeeps,
     ChangeEmailKeeps, DeleteKeeps DEF Step
<1>2. CASE UNCHANGED vars
  BY <1>2 DEF vars, SessionInv, LinksGood, LinkMade, TokensGood, TokenMade, OneLiveToken,
              HandlersGood, FrameGood
<1> QED
  BY <1>1, <1>2, BeginKeeps, ExpiryKeeps DEF Next

\* Rows and handlers stay in their ranges, for every number of users, addresses, links and
\* tokens, and however many requests overlap.
THEOREM SessionsTyped ==
    SessionIdentities => (Spec => []SessionTypes)
<1> SUFFICES ASSUME SessionIdentities PROVE Spec => []SessionTypes
  OBVIOUS
<1>1. SessionInv => SessionTypes
  BY DEF SessionInv, LinksGood, TokensGood, HandlersGood, SessionTypes
<1> QED
  BY <1>1, SessionInvInit, SessionInvNext, PTL DEF Spec

\* A session has at most one refresh token in force, however refreshes, logins and deletions
\* overlap.
THEOREM OneTokenPerSession ==
    SessionIdentities => (Spec => []OneLiveToken)
<1> SUFFICES ASSUME SessionIdentities PROVE Spec => []OneLiveToken
  OBVIOUS
<1>1. SessionInv => OneLiveToken
  BY DEF SessionInv, TokensGood
<1> QED
  BY <1>1, SessionInvInit, SessionInvNext, PTL DEF Spec

-----------------------------------------------------------------------------
(* Requests served one at a time.                                          *)

OneAtATime == \A g, h \in Requests : pc[g] # "idle" /\ pc[h] # "idle" => g = h

Undeleted == {"PENDING_EMAIL_VERIFICATION", "ACTIVE"}

\* A link that can be opened is of an account that is not deleted, and was mailed to the
\* account's own address.
LinkTrusted(l) ==
    link[l].state = "unused" =>
        /\ account[link[l].user].status \in Undeleted
        /\ link[l].mailedTo # None => link[l].mailedTo = account[link[l].user].email

UserTrusted(u) ==
    /\ account[u].verified /\ account[u].email # None => account[u].email \in account[u].confirmed
    /\ account[u].status = "DISABLED" => account[u].role = "VENUE_OWNER" /\ account[u].email = None

OpenedBy(t, l) == token[t].session = t /\ token[t].from = l

\* A link that opened a session cannot be opened again.
TokenTrusted(t) ==
    \A l \in Links : OpenedBy(t, l) => link[l].state \in {"used", "gone"}

\* What the handler in flight decided, and still holds.
Relies(h) ==
    LET u == frame[h].user
        l == frame[h].link
    IN
    /\ pc[h] = "link" => account[u].status \in Undeleted /\ account[u].email = frame[h].email
    /\ pc[h] = "mail" => link[l].state = "unused" /\ account[link[l].user].email = frame[h].email
    /\ pc[h] = "verify" => link[l].state = "unused" /\ link[l].user = u
    /\ pc[h] = "store" /\ l # None => /\ link[l].state \in {"used", "gone"}
                                      /\ \A t \in Tokens : ~OpenedBy(t, l)
    /\ pc[h] = "change" => account[u].status \in Undeleted /\ account[u].role = "CUSTOMER"
    /\ pc[h] = "deleteCustomer" => account[u].status \in Undeleted
    /\ pc[h] = "deleteOwner" => account[u].status # "GONE" /\ account[u].role = "VENUE_OWNER"

RowsTrusted ==
    /\ \A l \in Links : LinkTrusted(l)
    /\ \A u \in Users : UserTrusted(u)
    /\ \A t \in Tokens : TokenTrusted(t)
    /\ LinkOpensOneSession

SerialInv == SessionInv /\ OneAtATime /\ (\A h \in Requests : Relies(h)) /\ RowsTrusted

Serial == MaxActive = 1 /\ IsFiniteSet(Requests)

LEMMA NobodyElse ==
    ASSUME Serial, SerialInv, NEW h \in Requests, pc[h] # "idle" \/ CanBegin(h)
    PROVE  \A g \in Requests \ {h} : pc[g] = "idle"
<1>1. CASE pc[h] # "idle"
  BY <1>1 DEF SerialInv, OneAtATime
<1>2. CASE CanBegin(h)
  <2> DEFINE A == {g \in Requests : pc[g] # "idle"}
  <2>1. IsFiniteSet(A)
    BY FS_Subset DEF Serial
  <2>2. Cardinality(A) < 1 /\ Cardinality(A) \in Nat
    BY <1>2, <2>1, FS_CardinalityType DEF CanBegin, Serial
  <2>3. Cardinality(A) = 0
    BY <2>2
  <2>4. A = {}
    BY <2>1, <2>3, FS_EmptySet
  <2> QED
    BY <2>4
<1> QED
  BY <1>1, <1>2

\* It is enough to look at the handler that moves.
LEMMA OneMoves ==
    ASSUME Serial, SerialInv, NEW h \in Requests, pc[h] # "idle" \/ CanBegin(h),
           NEW l, pc' = [pc EXCEPT ![h] = l], Relies(h)'
    PROVE  OneAtATime' /\ \A g \in Requests : Relies(g)'
<1>1. \A g \in Requests \ {h} : pc'[g] = "idle"
  BY NobodyElse DEF SerialInv, SessionInv, HandlersGood
<1>2. OneAtATime'
  BY <1>1 DEF OneAtATime
<1>3. ASSUME NEW g \in Requests \ {h} PROVE Relies(g)'
  BY <1>1 DEF Relies
<1> QED
  BY <1>2, <1>3

LEMMA EndMoves ==
    ASSUME Serial, SerialInv, NEW h \in Requests, pc[h] # "idle", Finish(h)
    PROVE  OneAtATime' /\ \A g \in Requests : Relies(g)'
<1>1. pc' = [pc EXCEPT ![h] = "idle"] /\ pc'[h] = "idle"
  BY DEF Finish, SerialInv, SessionInv, HandlersGood
<1>2. Relies(h)'
  BY <1>1 DEF Relies
<1> QED
  BY <1>1, <1>2, OneMoves

LEMMA RowsStayTrusted ==
    ASSUME RowsTrusted, UNCHANGED <<account, link, token>>
    PROVE  RowsTrusted' /\ KeepsDeletedDeleted
BY DEF RowsTrusted, LinkTrusted, UserTrusted, TokenTrusted, OpenedBy, LinkOpensOneSession,
       KeepsDeletedDeleted

LEMMA FailTrusted ==
    ASSUME Serial, SerialInv, NEW h \in Requests, pc[h] # "idle", Fail(h)
    PROVE  OneAtATime' /\ (\A g \in Requests : Relies(g)') /\ RowsTrusted' /\ KeepsDeletedDeleted
BY EndMoves, RowsStayTrusted DEF Fail, SerialInv

LEMMA BeginTrusted ==
    ASSUME Serial, SerialInv, NEW h \in Requests, NEW l, NEW f, Begin(h, l, f), Relies(h)'
    PROVE  OneAtATime' /\ (\A g \in Requests : Relies(g)') /\ RowsTrusted' /\ KeepsDeletedDeleted
BY OneMoves, RowsStayTrusted DEF Begin, SerialInv

LEMMA AskedTrusted ==
    ASSUME Serial, SerialInv, NEW h \in Requests, Asked(h)
    PROVE  OneAtATime' /\ (\A g \in Requests : Relies(g)') /\ RowsTrusted' /\ KeepsDeletedDeleted
<1> DEFINE Trusted == OneAtATime' /\ (\A g \in Requests : Relies(g)') /\ RowsTrusted'
                      /\ KeepsDeletedDeleted
<1>1. /\ account \in [Users -> Accounts]
      /\ pc \in [Requests -> Labels] /\ frame \in [Requests -> Frames]
      /\ \A u \in Users : UserTrusted(u)
  BY DEF SerialInv, SessionInv, HandlersGood, RowsTrusted
<1>2. ASSUME NEW l, NEW f, Begin(h, l, f)
      PROVE  pc'[h] = l /\ frame'[h] = f /\ UNCHANGED <<account, link, token>>
  BY <1>1, <1>2 DEF Begin
<1>3. ASSUME NEW e \in Emails, NEW role \in Roles, RegisterBegin(h, e, role) PROVE Trusted
  <2>1. PICK f : f = [IdleFrame EXCEPT !.email = e, !.role = role]
    OBVIOUS
  <2>2. Begin(h, "register", f)
    BY <1>3, <2>1 DEF RegisterBegin
  <2>3. Relies(h)'
    BY <1>2, <2>2 DEF Relies
  <2> QED
    BY <2>2, <2>3, BeginTrusted
<1>4. ASSUME NEW u \in Users, ResendBegin(h, u) \/ LoginLinkBegin(h, u) PROVE Trusted
  <2>1. PICK f : f = [IdleFrame EXCEPT !.user = u, !.email = account[u].email]
    OBVIOUS
  <2>2. Begin(h, "link", f) /\ Stored(u) /\ account[u].email # None
    BY <1>4, <2>1 DEF ResendBegin, LoginLinkBegin
  <2>3. f.user = u /\ f.email = account[u].email
    BY <2>1 DEF IdleFrame
  <2>4. account[u].status \in Undeleted
    BY <1>1, <2>2 DEF UserTrusted, Stored, RowStates, Undeleted
  <2>5. pc'[h] = "link" /\ frame'[h] = f /\ UNCHANGED <<account, link, token>>
    BY <1>2, <2>2
  <2>6. Relies(h)'
    BY <2>3, <2>4, <2>5 DEF Relies
  <2> QED
    BY <2>2, <2>6, BeginTrusted
<1>5. ASSUME NEW u \in Users, LoginBegin(h, u) PROVE Trusted
  <2>1. PICK f : f = [IdleFrame EXCEPT !.user = u]
    OBVIOUS
  <2>2. Begin(h, "store", f) /\ f.link = None
    BY <1>5, <2>1 DEF LoginBegin, IdleFrame
  <2>3. pc'[h] = "store" /\ frame'[h] = f
    BY <1>2, <2>2
  <2>4. Relies(h)'
    BY <2>2, <2>3 DEF Relies
  <2> QED
    BY <2>2, <2>4, BeginTrusted
<1>6. ASSUME NEW u \in Users, DeleteBegin(h, u) PROVE Trusted
  <2>1. PICK f, l : /\ f = [IdleFrame EXCEPT !.user = u]
                    /\ l = IF account[u].role = "CUSTOMER" THEN "deleteCustomer" ELSE "deleteOwner"
    OBVIOUS
  <2>2. Begin(h, l, f) /\ f.user = u /\ Stored(u)
    BY <1>6, <2>1 DEF DeleteBegin, IdleFrame
  <2>3. pc'[h] = l /\ frame'[h] = f /\ UNCHANGED <<account, link, token>>
    BY <1>2, <2>2
  <2>4. /\ l = "deleteCustomer" => account[u].status \in Undeleted
        /\ l = "deleteOwner" => account[u].status # "GONE" /\ account[u].role = "VENUE_OWNER"
    BY <1>1, <2>1, <2>2 DEF UserTrusted, Stored, RowStates, Undeleted, Accounts, Roles
  <2>5. l \in {"deleteCustomer", "deleteOwner"}
    BY <2>1
  <2>6. Relies(h)'
    BY <2>2, <2>3, <2>4, <2>5 DEF Relies
  <2> QED
    BY <2>2, <2>6, BeginTrusted
<1>7. ASSUME NEW l \in Links, VerifyBegin(h, l) PROVE Trusted
  <2>1. PICK f : f = [IdleFrame EXCEPT !.link = l, !.user = link[l].user]
    OBVIOUS
  <2>2. Begin(h, "verify", f) /\ f.link = l /\ f.user = link[l].user /\ link[l].state = "unused"
    BY <1>7, <2>1 DEF VerifyBegin, IdleFrame
  <2>3. pc'[h] = "verify" /\ frame'[h] = f /\ UNCHANGED <<account, link, token>>
    BY <1>2, <2>2
  <2>4. Relies(h)'
    BY <2>2, <2>3 DEF Relies
  <2> QED
    BY <2>2, <2>4, BeginTrusted
<1>8. ASSUME NEW t \in Tokens, RefreshBegin(h, t) PROVE Trusted
  <2>1. PICK f : f = [IdleFrame EXCEPT !.token = t, !.user = token[t].user]
    OBVIOUS
  <2>2. Begin(h, "rotate", f)
    BY <1>8, <2>1 DEF RefreshBegin
  <2>3. Relies(h)'
    BY <1>2, <2>2 DEF Relies
  <2> QED
    BY <2>2, <2>3, BeginTrusted
<1>9. ASSUME NEW u \in Users, NEW e \in Emails, ChangeEmailBegin(h, u, e) PROVE Trusted
  <2>1. PICK f : f = [IdleFrame EXCEPT !.user = u, !.email = e]
    OBVIOUS
  <2>2. Begin(h, "change", f) /\ f.user = u /\ Stored(u) /\ account[u].role = "CUSTOMER"
    BY <1>9, <2>1 DEF ChangeEmailBegin, IdleFrame
  <2>3. pc'[h] = "change" /\ frame'[h] = f /\ UNCHANGED <<account, link, token>>
    BY <1>2, <2>2
  <2>4. account[u].status \in Undeleted
    BY <1>1, <2>2 DEF UserTrusted, Stored, RowStates, Undeleted
  <2>5. Relies(h)'
    BY <2>2, <2>3, <2>4 DEF Relies
  <2> QED
    BY <2>2, <2>5, BeginTrusted
<1> QED
  BY <1>3, <1>4, <1>5, <1>6, <1>7, <1>8, <1>9 DEF Asked

\* A new link takes the place of those its account had.
LEMMA NewLinkTrusted ==
    ASSUME SerialInv, NEW u \in Users, NEW l \in FreshLinks, NewLink(u, l), UNCHANGED token,
           account' \in [Users -> Accounts], account'[u].status \in Undeleted, UserTrusted(u)',
           \A v \in Users \ {u} : account'[v] = account[v]
    PROVE  RowsTrusted' /\ link'[l].state = "unused" /\ link'[l].user = u
<1>1. /\ l \in Links /\ link[l].state = "none" /\ link \in [Links -> LinkRows]
      /\ \A k \in Links : LinkMade(k) /\ LinkTrusted(k)
  BY DEF FreshLinks, SerialInv, SessionInv, LinksGood, RowsTrusted
<1>2. link'[l] = [state |-> "unused", user |-> u, expired |-> FALSE, mailedTo |-> None]
  BY <1>1 DEF NewLink
<1>3. \A k \in Links \ {l} : /\ link'[k].state = "unused" => link'[k] = link[k] /\ link[k].user # u
                             /\ link[k].state \in {"used", "gone"} => link'[k] = link[k]
  BY <1>1 DEF NewLink, LinkRows
<1>4. ASSUME NEW k \in Links PROVE LinkTrusted(k)'
  <2>1. CASE k = l
    BY <1>2, <2>1 DEF LinkTrusted
  <2>2. CASE k # l /\ link'[k].state = "unused"
    <3>1. link'[k] = link[k] /\ link[k].user \in Users /\ link[k].user # u
      BY <1>1, <1>3, <2>2 DEF LinkMade
    <3>2. account'[link[k].user] = account[link[k].user]
      BY <3>1
    <3> QED
      BY <1>1, <2>2, <3>1, <3>2 DEF LinkTrusted
  <2> QED
    BY <2>1, <2>2 DEF LinkTrusted
<1>5. ASSUME NEW t \in Tokens PROVE TokenTrusted(t)'
  <2>1. TokenTrusted(t)
    BY DEF SerialInv, RowsTrusted
  <2>2. \A k \in Links : link[k].state \in {"used", "gone"} => link'[k].state \in {"used", "gone"}
    BY <1>1, <1>3
  <2> QED
    BY <2>1, <2>2 DEF TokenTrusted, OpenedBy
<1>6. ASSUME NEW v \in Users PROVE UserTrusted(v)'
  BY DEF SerialInv, RowsTrusted, UserTrusted
<1>7. LinkOpensOneSession'
  BY DEF SerialInv, RowsTrusted, LinkOpensOneSession
<1> QED
  BY <1>2, <1>4, <1>5, <1>6, <1>7 DEF RowsTrusted

\* ... and the handler that made it goes on to mail it.
LEMMA NewLinkMoves ==
    ASSUME Serial, SerialInv, NEW h \in Requests, pc[h] # "idle", NEW l \in Links,
           frame' = [frame EXCEPT ![h].link = l], Goto(h, "mail"),
           link'[l].state = "unused", account'[link'[l].user].email = frame[h].email
    PROVE  OneAtATime' /\ \A g \in Requests : Relies(g)'
<1>1. /\ pc'[h] = "mail" /\ frame'[h].link = l /\ frame'[h].email = frame[h].email
      /\ pc' = [pc EXCEPT ![h] = "mail"]
  BY DEF SerialInv, SessionInv, HandlersGood, Frames, Goto
<1>2. Relies(h)'
  BY <1>1 DEF Relies
<1> QED
  BY <1>1, <1>2, OneMoves

LEMMA RegisterTrusted ==
    ASSUME Serial, SerialInv, NEW h \in Requests, RegisterWrite(h)
    PROVE  OneAtATime' /\ (\A g \in Requests : Relies(g)') /\ RowsTrusted' /\ KeepsDeletedDeleted
<1>0. pc[h] # "idle"
  BY DEF RegisterWrite
<1>1. CASE Taken(frame[h].email) /\ Fail(h)
  BY <1>0, <1>1, FailTrusted
<1>2. CASE ~(Taken(frame[h].email) /\ Fail(h))
  <2>1. PICK u \in FreshUsers, l \in FreshLinks :
            /\ account' = [account EXCEPT ![u] = [NoAccount EXCEPT
                              !.status = "PENDING_EMAIL_VERIFICATION",
                              !.role = frame[h].role, !.email = frame[h].email]]
            /\ NewLink(u, l)
            /\ frame' = [frame EXCEPT ![h].link = l]
            /\ Goto(h, "mail") /\ UNCHANGED token
    BY <1>2 DEF RegisterWrite
  <2>2. /\ u \in Users /\ account[u].status = "NONE" /\ account \in [Users -> Accounts]
        /\ l \in Links
    BY DEF FreshUsers, FreshLinks, SerialInv, SessionInv
  <2> DEFINE a == [NoAccount EXCEPT !.status = "PENDING_EMAIL_VERIFICATION",
                                    !.role = frame[h].role, !.email = frame[h].email]
  <2>3. a.status = "PENDING_EMAIL_VERIFICATION" /\ a.email = frame[h].email /\ ~a.verified
    BY DEF NoAccount
  <2>4. account'[u] = a /\ \A v \in Users \ {u} : account'[v] = account[v]
    BY <2>1, <2>2
  <2> HIDE DEF a
  <2>5. account'[u].status \in Undeleted /\ UserTrusted(u)'
    BY <2>3, <2>4 DEF Undeleted, UserTrusted
  <2>6. account' \in [Users -> Accounts]
    BY RegisterKeeps DEF SerialInv, SessionInv
  <2>7. RowsTrusted' /\ link'[l].state = "unused" /\ link'[l].user = u
    BY <2>1, <2>2, <2>4, <2>5, <2>6, NewLinkTrusted
  <2>8. OneAtATime' /\ \A g \in Requests : Relies(g)'
    BY <1>0, <2>1, <2>2, <2>3, <2>4, <2>7, NewLinkMoves
  <2>9. KeepsDeletedDeleted
    BY <2>2, <2>4 DEF KeepsDeletedDeleted
  <2> QED
    BY <2>7, <2>8, <2>9
<1> QED
  BY <1>1, <1>2

LEMMA LinkWriteTrusted ==
    ASSUME Serial, SerialInv, NEW h \in Requests, LinkWrite(h)
    PROVE  OneAtATime' /\ (\A g \in Requests : Relies(g)') /\ RowsTrusted' /\ KeepsDeletedDeleted
<1>0. pc[h] # "idle"
  BY DEF LinkWrite
<1>1. CASE ~Stored(frame[h].user) /\ Fail(h)
  BY <1>0, <1>1, FailTrusted
<1>2. CASE ~(~Stored(frame[h].user) /\ Fail(h))
  <2>1. PICK u \in Users : u = frame[h].user
    BY DEF LinkWrite, SerialInv, SessionInv, HandlersGood, FrameGood
  <2>2. PICK l \in FreshLinks :
            /\ NewLink(u, l) /\ frame' = [frame EXCEPT ![h].link = l]
            /\ Goto(h, "mail") /\ UNCHANGED <<account, token>>
    BY <1>2, <2>1 DEF LinkWrite
  <2>3. account[u].status \in Undeleted /\ account[u].email = frame[h].email /\ l \in Links
    BY <2>1 DEF LinkWrite, SerialInv, Relies, FreshLinks
  <2>4. UserTrusted(u)' /\ account' \in [Users -> Accounts]
    BY <2>2 DEF SerialInv, RowsTrusted, UserTrusted, SessionInv
  <2>5. RowsTrusted' /\ link'[l].state = "unused" /\ link'[l].user = u
    BY <2>2, <2>3, <2>4, NewLinkTrusted
  <2>6. OneAtATime' /\ \A g \in Requests : Relies(g)'
    BY <1>0, <2>2, <2>3, <2>5, NewLinkMoves
  <2> QED
    BY <2>2, <2>5, <2>6 DEF KeepsDeletedDeleted
<1> QED
  BY <1>1, <1>2

LEMMA MailTrusted ==
    ASSUME Serial, SerialInv, NEW h \in Requests, Mail(h)
    PROVE  OneAtATime' /\ (\A g \in Requests : Relies(g)') /\ RowsTrusted' /\ KeepsDeletedDeleted
<1>1. pc[h] = "mail" /\ Finish(h) /\ UNCHANGED <<account, token>>
  BY DEF Mail
<1>2. PICK l \in Links : l = frame[h].link
  BY <1>1 DEF SerialInv, SessionInv, HandlersGood, FrameGood
<1>3. link[l].state = "unused" /\ account[link[l].user].email = frame[h].email
  BY <1>1, <1>2 DEF SerialInv, Relies
<1>4. /\ \A k \in Links : link'[k].state = link[k].state /\ link'[k].user = link[k].user
      /\ \A k \in Links \ {l} : link'[k] = link[k]
      /\ link'[l].mailedTo \in {link[l].mailedTo, frame[h].email}
  BY <1>2 DEF Mail, SerialInv, SessionInv, LinksGood, LinkRows
<1>5. ASSUME NEW k \in Links PROVE LinkTrusted(k)'
  <2>1. LinkTrusted(k)
    BY DEF SerialInv, RowsTrusted
  <2>2. CASE k = l
    BY <1>1, <1>3, <1>4, <2>1, <2>2 DEF LinkTrusted
  <2>3. CASE k # l
    BY <1>1, <1>4, <2>1, <2>3 DEF LinkTrusted
  <2> QED
    BY <2>2, <2>3
<1>6. (\A u \in Users : UserTrusted(u)') /\ LinkOpensOneSession' /\ \A t \in Tokens : TokenTrusted(t)'
  BY <1>1, <1>4 DEF SerialInv, RowsTrusted, UserTrusted, LinkOpensOneSession, TokenTrusted, OpenedBy
<1> QED
  BY <1>1, <1>5, <1>6, EndMoves DEF RowsTrusted, KeepsDeletedDeleted

LEMMA VerifyTrusted ==
    ASSUME Serial, SessionIdentities, SerialInv, NEW h \in Requests, VerifyWrite(h)
    PROVE  OneAtATime' /\ (\A g \in Requests : Relies(g)') /\ RowsTrusted' /\ KeepsDeletedDeleted
<1>1. pc[h] = "verify" /\ Relies(h) /\ FrameGood(link, pc[h], frame[h])
  BY DEF VerifyWrite, SerialInv, SessionInv, HandlersGood
<1>2. PICK l \in Links, u \in Users : l = frame[h].link /\ u = frame[h].user
  BY <1>1 DEF FrameGood
<1>3. /\ link[l].state = "unused" /\ link[l].user = u /\ link[l].mailedTo \in Emails
      /\ LinkTrusted(l) /\ account[u] \in Accounts /\ account \in [Users -> Accounts]
      /\ link \in [Links -> LinkRows] /\ frame \in [Requests -> Frames]
      /\ pc \in [Requests -> Labels]
  BY <1>1, <1>2 DEF Relies, FrameGood, SerialInv, RowsTrusted, SessionInv, LinksGood, HandlersGood
<1> DEFINE a == [account[u] EXCEPT !.status = "ACTIVE", !.verified = TRUE,
                                   !.confirmed = @ \cup {link[l].mailedTo}]
<1>4. /\ a.status = "ACTIVE" /\ a.email = account[u].email
      /\ a.confirmed = account[u].confirmed \cup {link[l].mailedTo}
  BY <1>3 DEF Accounts
<1>5. /\ account' = [account EXCEPT ![u] = a]
      /\ link' = [link EXCEPT ![l].state = "used"]
      /\ Goto(h, "store") /\ UNCHANGED <<token, frame>>
  <2> DEFINE opened == frame[h].link
             owner  == frame[h].user
  <2>1. link[opened].state = "unused" /\ opened = l /\ owner = u
    BY <1>2, <1>3
  <2>2. /\ account' = [account EXCEPT ![owner] = [account[owner] EXCEPT
               !.status = "ACTIVE", !.verified = TRUE,
               !.confirmed = @ \cup {link[opened].mailedTo}]]
        /\ link' = [link EXCEPT ![opened].state = "used"]
        /\ Goto(h, "store") /\ UNCHANGED <<token, frame>>
    <3>1. link[opened].state # "gone"
      BY <2>1
    <3> QED
      BY <3>1 DEF VerifyWrite
  <2> HIDE DEF opened, owner
  <2> QED
    BY <2>1, <2>2
<1> HIDE DEF a
<1>6. account'[u] = a /\ \A v \in Users \ {u} : account'[v] = account[v]
  BY <1>3, <1>5
<1>7. /\ link'[l].state = "used"
      /\ \A k \in Links \ {l} : link'[k] = link[k]
  BY <1>3, <1>5 DEF LinkRows
<1>8. account[u].status \in Undeleted /\ link[l].mailedTo = account[u].email
  <2>1. link[l].mailedTo # None
    BY <1>3 DEF SessionIdentities
  <2> QED
    BY <1>3, <2>1 DEF LinkTrusted
<1>9. ASSUME NEW k \in Links PROVE LinkTrusted(k)'
  <2>1. LinkTrusted(k)
    BY DEF SerialInv, RowsTrusted
  <2>2. CASE k # l /\ link[k].state = "unused"
    <3>1. link'[k] = link[k] /\ link[k].user \in Users
      BY <1>7, <2>2 DEF SerialInv, SessionInv, LinksGood, LinkMade
    <3>2. account'[link[k].user].email = account[link[k].user].email
      BY <1>4, <1>6, <3>1
    <3>3. account'[link[k].user].status \in Undeleted
      BY <1>4, <1>6, <2>1, <2>2, <3>1 DEF Undeleted, LinkTrusted
    <3> QED
      BY <2>1, <2>2, <3>1, <3>2, <3>3 DEF LinkTrusted
  <2>3. CASE ~(k # l /\ link[k].state = "unused")
    BY <1>7, <2>3 DEF LinkTrusted
  <2> QED
    BY <2>2, <2>3
<1>10. ASSUME NEW v \in Users PROVE UserTrusted(v)'
  <2>1. UserTrusted(v)
    BY DEF SerialInv, RowsTrusted
  <2>2. CASE v = u
    BY <1>4, <1>6, <1>8, <2>2 DEF UserTrusted
  <2>3. CASE v # u
    BY <1>6, <2>1, <2>3 DEF UserTrusted
  <2> QED
    BY <2>2, <2>3
<1>11. \A t \in Tokens : TokenTrusted(t) /\ ~OpenedBy(t, l)
  BY <1>3 DEF SerialInv, RowsTrusted, TokenTrusted
<1>12. ASSUME NEW t \in Tokens PROVE TokenTrusted(t)'
  BY <1>5, <1>7, <1>11 DEF TokenTrusted, OpenedBy
<1>13. LinkOpensOneSession'
  BY <1>5 DEF SerialInv, RowsTrusted, LinkOpensOneSession
<1>14. pc' = [pc EXCEPT ![h] = "store"] /\ pc'[h] = "store" /\ frame'[h].link = l
  BY <1>2, <1>3, <1>5 DEF Goto
<1>15. Relies(h)'
  BY <1>5, <1>7, <1>11, <1>14 DEF Relies, OpenedBy
<1>16. OneAtATime' /\ \A g \in Requests : Relies(g)'
  BY <1>1, <1>14, <1>15, OneMoves
<1>17. KeepsDeletedDeleted
  BY <1>6, <1>8 DEF KeepsDeletedDeleted, Undeleted
<1> QED
  BY <1>9, <1>10, <1>12, <1>13, <1>16, <1>17 DEF RowsTrusted

LEMMA StoreTrusted ==
    ASSUME Serial, SessionIdentities, SerialInv, NEW h \in Requests, StoreToken(h)
    PROVE  OneAtATime' /\ (\A g \in Requests : Relies(g)') /\ RowsTrusted' /\ KeepsDeletedDeleted
<1>0. pc[h] = "store" /\ Relies(h)
  BY DEF StoreToken, SerialInv
<1>1. CASE ~Stored(frame[h].user) /\ Fail(h)
  BY <1>0, <1>1, FailTrusted
<1>2. CASE ~(~Stored(frame[h].user) /\ Fail(h))
  <2>1. NewToken(frame[h].user, frame[h].link) /\ Finish(h) /\ UNCHANGED <<account, link>>
    BY <1>2 DEF StoreToken
  <2>2. PICK t \in Tokens :
            /\ token[t].state = "none"
            /\ token' = [token EXCEPT ![t] = [state |-> "live", user |-> frame[h].user,
                                              session |-> t, from |-> frame[h].link]]
    BY <2>1 DEF NewToken, FreshTokens
  <2>3. /\ token'[t].session = t /\ token'[t].from = frame[h].link
        /\ \A s \in Tokens \ {t} : token'[s] = token[s]
    BY <2>2 DEF SerialInv, SessionInv, TokensGood
  <2>4. ASSUME NEW s \in Tokens PROVE TokenTrusted(s)'
    <3>1. CASE s = t
      BY <1>0, <2>1, <2>3, <3>1 DEF TokenTrusted, OpenedBy, Relies, SessionIdentities
    <3>2. CASE s # t
      BY <2>1, <2>3, <3>2 DEF SerialInv, RowsTrusted, TokenTrusted, OpenedBy
    <3> QED
      BY <3>1, <3>2
  <2>5. LinkOpensOneSession'
    BY <1>0, <2>3 DEF SerialInv, RowsTrusted, LinkOpensOneSession, Relies, OpenedBy
  <2>6. (\A l \in Links : LinkTrusted(l)') /\ \A u \in Users : UserTrusted(u)'
    BY <2>1 DEF SerialInv, RowsTrusted, LinkTrusted, UserTrusted
  <2> QED
    BY <1>0, <2>1, <2>4, <2>5, <2>6, EndMoves DEF RowsTrusted, KeepsDeletedDeleted
<1> QED
  BY <1>1, <1>2

LEMMA RotateTrusted ==
    ASSUME Serial, SerialInv, NEW h \in Requests, Rotate(h)
    PROVE  OneAtATime' /\ (\A g \in Requests : Relies(g)') /\ RowsTrusted' /\ KeepsDeletedDeleted
<1>0. pc[h] = "rotate"
  BY DEF Rotate
<1>1. CASE token[frame[h].token].state # "live" /\ Fail(h)
  BY <1>0, <1>1, FailTrusted
<1>2. CASE ~(token[frame[h].token].state # "live" /\ Fail(h))
  <2>1. PICK t \in Tokens : t = frame[h].token
    BY DEF Rotate, SerialInv, SessionInv, HandlersGood, FrameGood
  <2>2. PICK n \in Tokens :
            /\ token[n].state = "none" /\ token[t].state = "live"
            /\ token' = [token EXCEPT ![t].state = "revoked", ![n] = token[t]]
            /\ Finish(h) /\ UNCHANGED <<account, link>>
    BY <1>2, <2>1 DEF Rotate, FreshTokens
  <2>3. /\ token'[n] = token[t] /\ \A s \in Tokens \ {n} : /\ token'[s].session = token[s].session
                                                           /\ token'[s].from = token[s].from
    BY <2>2 DEF SerialInv, SessionInv, TokensGood, TokenRows
  <2>4. token'[n].session # n
    BY <2>2, <2>3 DEF SerialInv, SessionInv, TokensGood, TokenMade
  <2>5. ASSUME NEW s \in Tokens PROVE TokenTrusted(s)'
    BY <2>2, <2>3, <2>4 DEF SerialInv, RowsTrusted, TokenTrusted, OpenedBy
  <2>6. LinkOpensOneSession'
    BY <2>3, <2>4 DEF SerialInv, RowsTrusted, LinkOpensOneSession
  <2>7. (\A l \in Links : LinkTrusted(l)') /\ \A u \in Users : UserTrusted(u)'
    BY <2>2 DEF SerialInv, RowsTrusted, LinkTrusted, UserTrusted
  <2> QED
    BY <1>0, <2>2, <2>5, <2>6, <2>7, EndMoves DEF RowsTrusted, KeepsDeletedDeleted
<1> QED
  BY <1>1, <1>2

LEMMA ChangeEmailTrusted ==
    ASSUME Serial, SerialInv, NEW h \in Requests, ChangeEmailWrite(h)
    PROVE  OneAtATime' /\ (\A g \in Requests : Relies(g)') /\ RowsTrusted' /\ KeepsDeletedDeleted
<1>0. pc[h] = "change" /\ Relies(h)
  BY DEF ChangeEmailWrite, SerialInv
<1>1. CASE ~(Stored(frame[h].user) /\ ~Taken(frame[h].email)) /\ Fail(h)
  BY <1>0, <1>1, FailTrusted
<1>2. CASE ~(~(Stored(frame[h].user) /\ ~Taken(frame[h].email)) /\ Fail(h))
  <2>1. PICK u \in Users, e \in Emails : u = frame[h].user /\ e = frame[h].email
    BY DEF ChangeEmailWrite, SerialInv, SessionInv, HandlersGood, FrameGood
  <2>2. PICK l \in FreshLinks :
            /\ account' = [account EXCEPT ![u].email = e, ![u].verified = FALSE]
            /\ NewLink(u, l) /\ frame' = [frame EXCEPT ![h].link = l]
            /\ Goto(h, "mail") /\ UNCHANGED token
    BY <1>2, <2>1 DEF ChangeEmailWrite
  <2> DEFINE a == [account[u] EXCEPT !.email = e, !.verified = FALSE]
  <2>3. /\ account[u] \in Accounts /\ account \in [Users -> Accounts] /\ l \in Links
        /\ account[u].status \in Undeleted
    BY <1>0, <2>1 DEF SerialInv, SessionInv, FreshLinks, Relies
  <2>4. /\ a.email = e /\ ~a.verified /\ a.status = account[u].status /\ a \in Accounts
        /\ account' = [account EXCEPT ![u] = a]
    BY <2>2, <2>3 DEF Accounts
  <2> HIDE DEF a
  <2>5. /\ account'[u] = a /\ \A v \in Users \ {u} : account'[v] = account[v]
        /\ account' \in [Users -> Accounts]
    BY <2>3, <2>4
  <2>6. UserTrusted(u)' /\ account'[u].status \in Undeleted
    BY <2>3, <2>4, <2>5 DEF UserTrusted, Undeleted
  <2>7. RowsTrusted' /\ link'[l].state = "unused" /\ link'[l].user = u
    BY <2>2, <2>5, <2>6, NewLinkTrusted
  <2>8. OneAtATime' /\ \A g \in Requests : Relies(g)'
    BY <1>0, <2>1, <2>2, <2>3, <2>4, <2>5, <2>7, NewLinkMoves
  <2>9. KeepsDeletedDeleted
    BY <2>4, <2>5 DEF KeepsDeletedDeleted
  <2> QED
    BY <2>7, <2>8, <2>9
<1> QED
  BY <1>1, <1>2

LEMMA DeletionTrusted ==
    ASSUME Serial, SessionIdentities, SerialInv, NEW h \in Requests, pc[h] # "idle",
           NEW u \in Users, UserTrusted(u)', DropLinks(u), DropTokens(u), Finish(h),
           \A v \in Users \ {u} : account'[v] = account[v]
    PROVE  OneAtATime' /\ (\A g \in Requests : Relies(g)') /\ RowsTrusted'
<1>1. /\ link \in [Links -> LinkRows] /\ token \in [Tokens -> TokenRows]
      /\ \A l \in Links : LinkMade(l) /\ LinkTrusted(l)
  BY DEF SerialInv, SessionInv, LinksGood, TokensGood, RowsTrusted
<1>2. \A l \in Links : /\ link'[l].state = "unused" => link'[l] = link[l] /\ link[l].user # u
                       /\ link[l].state \in {"used", "gone"} => link'[l].state \in {"used", "gone"}
  BY <1>1 DEF DropLinks, LinkRows
<1>3. ASSUME NEW l \in Links PROVE LinkTrusted(l)'
  BY <1>1, <1>2 DEF LinkTrusted, LinkMade
<1>4. \A t \in Tokens : token'[t].session = token[t].session /\ token'[t].from = token[t].from
  BY <1>1 DEF DropTokens, TokenRows
<1>5. LinkOpensOneSession'
  BY <1>4 DEF SerialInv, RowsTrusted, LinkOpensOneSession
<1>6. ASSUME NEW t \in Tokens PROVE TokenTrusted(t)'
  BY <1>2, <1>4 DEF SerialInv, RowsTrusted, TokenTrusted, OpenedBy
<1>7. ASSUME NEW v \in Users PROVE UserTrusted(v)'
  BY DEF SerialInv, RowsTrusted, UserTrusted
<1> QED
  BY <1>3, <1>5, <1>6, <1>7, EndMoves DEF RowsTrusted

LEMMA DeleteTrusted ==
    ASSUME Serial, SessionIdentities, SerialInv, NEW h \in Requests,
           DeleteCustomerWrite(h) \/ DeleteOwnerWrite(h)
    PROVE  OneAtATime' /\ (\A g \in Requests : Relies(g)') /\ RowsTrusted' /\ KeepsDeletedDeleted
<1>0. pc[h] \in {"deleteCustomer", "deleteOwner"} /\ Relies(h)
  BY DEF DeleteCustomerWrite, DeleteOwnerWrite, SerialInv
<1>1. PICK u \in Users : u = frame[h].user
  BY DEF DeleteCustomerWrite, DeleteOwnerWrite, SerialInv, SessionInv, HandlersGood, FrameGood
<1>2. account[u] \in Accounts /\ account \in [Users -> Accounts] /\ UserTrusted(u)
  BY DEF SerialInv, SessionInv, RowsTrusted
<1>3. CASE DeleteCustomerWrite(h) /\ Stored(u)
  <2>1. account' = [account EXCEPT ![u].status = "GONE"] /\ DropLinks(u) /\ DropTokens(u) /\ Finish(h)
    BY <1>1, <1>3 DEF DeleteCustomerWrite
  <2>2. /\ \A v \in Users \ {u} : account'[v] = account[v]
        /\ account'[u] = [account[u] EXCEPT !.status = "GONE"]
    BY <1>2, <2>1
  <2>3. UserTrusted(u)'
    BY <1>2, <2>2 DEF UserTrusted, Accounts
  <2>4. account[u].status \in Undeleted
    BY <1>0, <1>1, <1>3 DEF Relies, DeleteCustomerWrite
  <2>5. KeepsDeletedDeleted
    BY <2>2, <2>4 DEF KeepsDeletedDeleted, Undeleted
  <2> QED
    BY <1>0, <2>1, <2>2, <2>3, <2>5, DeletionTrusted
<1>4. CASE DeleteCustomerWrite(h) /\ ~Stored(u)
  BY <1>0, <1>1, <1>4, FailTrusted DEF DeleteCustomerWrite
<1>5. CASE DeleteOwnerWrite(h)
  <2>1. /\ account' = [account EXCEPT ![u].status = "DISABLED", ![u].email = None, ![u].verified = FALSE]
        /\ DropLinks(u) /\ DropTokens(u) /\ Finish(h) /\ pc[h] = "deleteOwner"
    BY <1>1, <1>5 DEF DeleteOwnerWrite
  <2> DEFINE a == [account[u] EXCEPT !.status = "DISABLED", !.email = None, !.verified = FALSE]
  <2>2. /\ a.status = "DISABLED" /\ a.email = None /\ ~a.verified /\ a.role = account[u].role
        /\ account' = [account EXCEPT ![u] = a]
    BY <1>2, <2>1 DEF Accounts
  <2> HIDE DEF a
  <2>3. account'[u] = a /\ \A v \in Users \ {u} : account'[v] = account[v]
    BY <1>2, <2>2
  <2>4. account[u].status # "GONE" /\ account[u].role = "VENUE_OWNER"
    BY <1>0, <1>1, <2>1 DEF Relies
  <2>5. UserTrusted(u)'
    BY <2>2, <2>3, <2>4 DEF UserTrusted
  <2>6. KeepsDeletedDeleted
    BY <2>2, <2>3, <2>4 DEF KeepsDeletedDeleted
  <2> QED
    BY <1>0, <2>1, <2>3, <2>5, <2>6, DeletionTrusted
<1> QED
  BY <1>3, <1>4, <1>5

LEMMA ExpiryTrusted ==
    ASSUME SerialInv, NEW l \in Links, LinkExpires(l)
    PROVE  OneAtATime' /\ (\A g \in Requests : Relies(g)') /\ RowsTrusted' /\ KeepsDeletedDeleted
<1>1. UNCHANGED <<account, token, pc, frame>>
  BY DEF LinkExpires
<1>2. \A k \in Links : /\ link'[k].state = link[k].state /\ link'[k].user = link[k].user
                       /\ link'[k].mailedTo = link[k].mailedTo
  BY DEF LinkExpires, SerialInv, SessionInv, LinksGood, LinkRows
<1>3. RowsTrusted'
  BY <1>1, <1>2 DEF SerialInv, RowsTrusted, LinkTrusted, UserTrusted, TokenTrusted, OpenedBy,
                    LinkOpensOneSession
<1>4. ASSUME NEW g \in Requests PROVE Relies(g)'
  <2>1. Relies(g) /\ FrameGood(link, pc[g], frame[g]) /\ frame[g] \in Frames
    BY DEF SerialInv, SessionInv, HandlersGood
  <2>2. frame[g].link \in Links \cup {None}
    BY <2>1 DEF Frames
  <2> QED
    BY <1>1, <1>2, <2>1, <2>2 DEF Relies, FrameGood, OpenedBy
<1> QED
  BY <1>1, <1>3, <1>4 DEF SerialInv, OneAtATime, KeepsDeletedDeleted

LEMMA StepTrusted ==
    ASSUME Serial, SessionIdentities, SerialInv, [Next]_vars
    PROVE  OneAtATime' /\ (\A g \in Requests : Relies(g)') /\ RowsTrusted' /\ KeepsDeletedDeleted
<1>1. ASSUME NEW h \in Requests, Step(h)
      PROVE  OneAtATime' /\ (\A g \in Requests : Relies(g)') /\ RowsTrusted' /\ KeepsDeletedDeleted
  BY <1>1, RegisterTrusted, LinkWriteTrusted, MailTrusted, VerifyTrusted, StoreTrusted, RotateTrusted,
     ChangeEmailTrusted, DeleteTrusted DEF Step
<1>2. CASE UNCHANGED vars
  BY <1>2, RowsStayTrusted DEF vars, SerialInv, OneAtATime, Relies, OpenedBy
<1> QED
  BY <1>1, <1>2, AskedTrusted, ExpiryTrusted DEF Next

LEMMA SerialInvInit ==
    ASSUME SessionIdentities, Init
    PROVE  SerialInv
<1>1. SessionInv
  BY SessionInvInit
<1>2. OneAtATime /\ (\A h \in Requests : Relies(h)) /\ RowsTrusted
  BY DEF Init, OneAtATime, Relies, RowsTrusted, LinkTrusted, UserTrusted, TokenTrusted, OpenedBy,
         LinkOpensOneSession, NoAccount, NoLink, NoToken, SessionIdentities
<1> QED
  BY <1>1, <1>2 DEF SerialInv

LEMMA SerialInvNext ==
    ASSUME Serial, SessionIdentities, SerialInv, [Next]_vars
    PROVE  SerialInv' /\ KeepsDeletedDeleted
<1>1. SessionInv'
  BY SessionInvNext DEF SerialInv
<1> QED
  BY <1>1, StepTrusted DEF SerialInv

LEMMA SerialInvTrusts ==
    ASSUME SerialInv
    PROVE  AddressVerified /\ LinkOpensOneSession
BY DEF SerialInv, RowsTrusted, UserTrusted, AddressVerified

\* Requests served one at a time: an address counts as verified only if a link mailed to it
\* was opened, whatever was mailed before it changed.
THEOREM VerifiedAddressesWereMailed ==
    Serial /\ SessionIdentities => (Spec => []AddressVerified)
<1> SUFFICES ASSUME Serial, SessionIdentities PROVE Spec => []AddressVerified
  OBVIOUS
<1> QED
  BY SerialInvInit, SerialInvNext, SerialInvTrusts, PTL DEF Spec

\* Requests served one at a time: a link opens one session, however often it is followed and
\* however often the session's token is rotated.
THEOREM LinksOpenOneSession ==
    Serial /\ SessionIdentities => (Spec => []LinkOpensOneSession)
<1> SUFFICES ASSUME Serial, SessionIdentities PROVE Spec => []LinkOpensOneSession
  OBVIOUS
<1> QED
  BY SerialInvInit, SerialInvNext, SerialInvTrusts, PTL DEF Spec

\* Requests served one at a time: no link mailed before, no login and no change of address
\* brings a deleted account back.
THEOREM DeletedAccountsStayDeleted ==
    Serial /\ SessionIdentities => (Spec => [][KeepsDeletedDeleted]_vars)
<1> SUFFICES ASSUME Serial, SessionIdentities PROVE Spec => [][KeepsDeletedDeleted]_vars
  OBVIOUS
<1> QED
  BY SerialInvInit, SerialInvNext, PTL DEF Spec

=============================================================================
