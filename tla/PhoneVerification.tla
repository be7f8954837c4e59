-------------------------- MODULE PhoneVerification --------------------------
(***************************************************************************)
(* AuthService: codes sent by SMS that prove a phone number, for a         *)
(* registration (the code is traded for a token, the token for an account) *)
(* and for a change of number.                                             *)
(*                                                                         *)
(* A handler tests that the number is free, reads the code and writes in   *)
(* separate statements.  What was entered is right or wrong; the code and  *)
(* the token themselves are their rows.                                    *)
(***************************************************************************)
EXTENDS Naturals, FiniteSets

CONSTANTS
    Users, Phones,
    Codes,          \* identities of code rows, of both tables
    Requests,       \* HTTP requests that can be in flight
    MaxActive,      \* bound: handlers in flight at once
    Cooldown,       \* PHONE_VERIFICATION_RESEND_COOLDOWN_MS
    Ttl,            \* PHONE_VERIFICATION_TTL_MS
    AttemptLimit,   \* PHONE_VERIFICATION_ATTEMPT_LIMIT
    MaxTime,        \* bound: the last tick
    None            \* no user, phone or code

PhoneIdentities == None \notin Users \cup Phones \cup Codes
PhoneBounds == {MaxActive, Cooldown, Ttl, AttemptLimit, MaxTime} \subseteq Nat

VARIABLES
    now,
    phoneOf,        \* the verified phoneNumber of customers: every one of them has one
    deleted,        \* customers whose row is gone
    code,           \* RegistrationPhoneVerificationCode and PhoneVerificationCode rows
    pc, frame       \* handlers

vars == <<now, phoneOf, deleted, code, pc, frame>>

\* `user` is None for a registration's code; `passed` tells that it was entered right.
CodeRows == [state: {"none", "open", "used"}, phone: Phones \cup {None},
             user: Users \cup {None}, attempts: Nat, born: Nat, passed: BOOLEAN]
NoCode   == [state |-> "none", phone |-> None, user |-> None, attempts |-> 0, born |-> 0,
             passed |-> FALSE]

Labels == {"idle", "issueRead", "issue", "checkRead", "check", "right", "wrong", "tokenRead",
           "create", "changed"}
Frames == [user: Users \cup {None}, phone: Phones \cup {None}, code: Codes \cup {None},
           attempts: Nat]
IdleFrame == [user |-> None, phone |-> None, code |-> None, attempts |-> 0]

\* Every row and every local variable of a handler stays in its range.
PhoneTypes ==
    /\ now \in 0..MaxTime
    /\ phoneOf \in [Users -> Phones \cup {None}]
    /\ deleted \subseteq Users
    /\ code \in [Codes -> CodeRows]
    /\ pc \in [Requests -> Labels]
    /\ frame \in [Requests -> Frames]

Init ==
    /\ now = 0
    /\ phoneOf = [u \in Users |-> None]
    /\ deleted = {}
    /\ code = [c \in Codes |-> NoCode]
    /\ pc = [h \in Requests |-> "idle"]
    /\ frame = [h \in Requests |-> IdleFrame]

-----------------------------------------------------------------------------
(* Queries and handlers. *)

Registered == {u \in Users : phoneOf[u] # None}

\* assertPhoneNumberAvailable, leaving out the user who asks.
Available(phone, user) == \A u \in Users \ {user} : phoneOf[u] # phone

\* Codes of a number that are not used yet; for a change, those of this user.
Open(phone, user) ==
    {c \in Codes : code[c].state = "open" /\ code[c].phone = phone /\ code[c].user = user}

\* findFirst ... orderBy createdAt desc: one of the last made.
Latest(phone, user) ==
    {c \in Open(phone, user) : \A d \in Open(phone, user) : code[d].born <= code[c].born}

Lapsed(c) == code[c].born + Ttl < now

CanBegin(h) == pc[h] = "idle" /\ Cardinality({g \in Requests : pc[g] # "idle"}) < MaxActive
Begin(h, label, f) ==
    /\ CanBegin(h)
    /\ pc' = [pc EXCEPT ![h] = label]
    /\ frame' = [frame EXCEPT ![h] = f]
    /\ UNCHANGED <<now, phoneOf, deleted, code>>
Goto(h, label) == pc' = [pc EXCEPT ![h] = label]
Finish(h) ==
    /\ pc' = [pc EXCEPT ![h] = "idle"]
    /\ frame' = [frame EXCEPT ![h] = IdleFrame]
Fail(h)   == Finish(h) /\ UNCHANGED <<now, phoneOf, deleted, code>>

-----------------------------------------------------------------------------
(* A code is asked for: registration (user None) or change of number.      *)

Askers == {None} \cup Registered

IssueBegin(h, user, phone) ==
    Available(phone, user) /\ Begin(h, "issueRead", [IdleFrame EXCEPT !.user = user, !.phone = phone])

\* The cooldown is counted from the latest code that is not used.
IssueRead(h) ==
    /\ pc[h] = "issueRead"
    /\ LET open == Open(frame[h].phone, frame[h].user) IN
       \/ /\ \E c \in Latest(frame[h].phone, frame[h].user) \cup {None} :
                /\ c = None <=> open = {}
                /\ c # None => now - code[c].born >= Cooldown
          /\ Goto(h, "issue")
          /\ UNCHANGED <<now, phoneOf, deleted, code, frame>>
       \/ /\ \E c \in open : now - code[c].born < Cooldown
          /\ Fail(h)

\* One transaction: earlier codes are used up - for a registration those of the
\* number, for a change all those of the user -, and the new one is stored.
NewCode(user, phone) ==
    \E c \in Codes :
        /\ code[c].state = "none"
        /\ code' = [d \in Codes |->
              IF d = c THEN [NoCode EXCEPT !.state = "open", !.phone = phone, !.user = user,
                                           !.born = now]
              ELSE IF /\ code[d].state = "open" /\ code[d].user = user
                      /\ user = None => code[d].phone = phone
                   THEN [code[d] EXCEPT !.state = "used"]
                   ELSE code[d]]

IssueWrite(h) ==
    /\ pc[h] = "issue"
    /\ \/ /\ frame[h].user \notin deleted
          /\ NewCode(frame[h].user, frame[h].phone)
          /\ Finish(h)
          /\ UNCHANGED <<now, phoneOf, deleted>>
       \/ frame[h].user \in deleted /\ Fail(h)

-----------------------------------------------------------------------------
(* A code is entered. *)

CheckBegin(h, user, phone) ==
    Available(phone, user) /\ Begin(h, "checkRead", [IdleFrame EXCEPT !.user = user, !.phone = phone])

\* The latest code, unless it lapsed or was tried too often; what was entered is
\* compared with the row that was read.
CheckRead(h) ==
    /\ pc[h] = "checkRead"
    /\ \/ /\ \E c \in Latest(frame[h].phone, frame[h].user) :
                /\ ~Lapsed(c) /\ code[c].attempts < AttemptLimit
                /\ frame' = [frame EXCEPT ![h].code = c]
          /\ Goto(h, "right") \/ Goto(h, "wrong")
          /\ UNCHANGED <<now, phoneOf, deleted, code>>
       \/ /\ \A c \in Latest(frame[h].phone, frame[h].user) :
                Lapsed(c) \/ code[c].attempts >= AttemptLimit
          /\ Fail(h)

EnteredWrong(h) ==
    /\ pc[h] = "wrong"
    /\ code' = [code EXCEPT ![frame[h].code].attempts = @ + 1]
    /\ Finish(h)
    /\ UNCHANGED <<now, phoneOf, deleted>>

\* The registration's code stays open, marked as verified: its token is the next step.
EnteredRight(h) ==
    /\ pc[h] = "right" /\ frame[h].user = None
    /\ code' = [code EXCEPT ![frame[h].code].attempts = @ + 1, ![frame[h].code].passed = TRUE]
    /\ Finish(h)
    /\ UNCHANGED <<now, phoneOf, deleted>>

\* The new number is written with the code, by id.
ChangeWrite(h) ==
    /\ pc[h] = "right" /\ frame[h].user # None
    /\ \/ /\ frame[h].user \notin deleted
          /\ code' = [code EXCEPT ![frame[h].code].attempts = @ + 1, ![frame[h].code].passed = TRUE,
                                  ![frame[h].code].state = "used"]
          /\ phoneOf' = [phoneOf EXCEPT ![frame[h].user] = frame[h].phone]
          /\ Finish(h)
          /\ UNCHANGED <<now, deleted>>
       \/ frame[h].user \in deleted /\ Fail(h)

-----------------------------------------------------------------------------
(* registerCustomer: the token of a verified code becomes an account.      *)

RegisterBegin(h, phone) ==
    Available(phone, None) /\ Begin(h, "tokenRead", [IdleFrame EXCEPT !.phone = phone])

\* Seeded fault: the token's number is not compared with the one registered.
ConsumeAnyToken(h) ==
    /\ pc[h] = "tokenRead"
    /\ \E c \in Codes :
          /\ code[c].state = "open" /\ code[c].user = None /\ code[c].passed /\ ~Lapsed(c)
          /\ frame' = [frame EXCEPT ![h].code = c]
    /\ Goto(h, "create")
    /\ UNCHANGED <<now, phoneOf, deleted, code>>

\* consumeRegistrationPhoneToken only reads.
ConsumeToken(h) ==
    /\ pc[h] = "tokenRead"
    /\ \E c \in Codes :
          /\ code[c].state = "open" /\ code[c].user = None /\ code[c].passed /\ ~Lapsed(c)
          /\ code[c].phone = frame[h].phone
          /\ frame' = [frame EXCEPT ![h].code = c]
    /\ Goto(h, "create")
    /\ UNCHANGED <<now, phoneOf, deleted, code>>

\* Without a token that fits the registration is refused.
TokenRefused(h) == pc[h] = "tokenRead" /\ Fail(h)

CreateWrite(h) ==
    /\ pc[h] = "create"
    /\ \E u \in Users \ (Registered \cup deleted) :
          phoneOf' = [phoneOf EXCEPT ![u] = frame[h].phone]
    /\ code' = [code EXCEPT ![frame[h].code].state = "used"]
    /\ Finish(h)
    /\ UNCHANGED <<now, deleted>>

\* A deleted account frees its number; its codes go with it.
DeleteAccount(u) ==
    /\ u \in Registered
    /\ phoneOf' = [phoneOf EXCEPT ![u] = None]
    /\ deleted' = deleted \cup {u}
    /\ code' = [c \in Codes |-> IF code[c].user = u THEN [code[c] EXCEPT !.state = "used"]
                                                    ELSE code[c]]
    /\ UNCHANGED <<now, pc, frame>>

Tick == now < MaxTime /\ now' = now + 1 /\ UNCHANGED <<phoneOf, deleted, code, pc, frame>>

-----------------------------------------------------------------------------

Asked(h) ==
    \E phone \in Phones :
        \/ \E user \in Askers : IssueBegin(h, user, phone) \/ CheckBegin(h, user, phone)
        \/ RegisterBegin(h, phone)

Step(h) ==
    \/ IssueRead(h) \/ IssueWrite(h) \/ CheckRead(h) \/ EnteredWrong(h) \/ EnteredRight(h)
    \/ ChangeWrite(h) \/ ConsumeToken(h) \/ TokenRefused(h) \/ CreateWrite(h)

Next ==
    \/ \E h \in Requests : Asked(h) \/ Step(h)
    \/ \E u \in Users : DeleteAccount(u)
    \/ Tick

Spec == Init /\ [][Next]_vars

-----------------------------------------------------------------------------
(* However handlers interleave. *)

\* A code is tried at most as often as the limit says, and once more for each other
\* handler that read the counter before the last try was written.
AttemptsBounded ==
    \A c \in Codes : code[c].attempts <= AttemptLimit + MaxActive - 1

\* A number an account holds was proved by a code sent to that number, entered by
\* this account or for a registration.
NumberProved ==
    \A u \in Registered :
        \E c \in Codes : /\ code[c].passed /\ code[c].phone = phoneOf[u]
                         /\ code[c].user \in {None, u}

-----------------------------------------------------------------------------
(* Requests served one at a time. *)

\* A verified number belongs to one account, also when it is freed and taken again.
NumberHasOneOwner == \A u, v \in Registered : phoneOf[u] = phoneOf[v] => u = v
=============================================================================
