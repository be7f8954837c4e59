----------------------- MODULE PhoneVerification_proofs -----------------------
(***************************************************************************)
(* Proofs about codes and numbers, for every number of users, phones and   *)
(* codes: that a number was proved by a code sent to it and that guesses   *)
(* are bounded holds however requests overlap; that a number has one owner *)
(* for requests served one at a time.                                      *)
(***************************************************************************)
EXTENDS PhoneVerification, FiniteSetTheorems, TLAPS

-----------------------------------------------------------------------------
(* The inductive invariant of overlapping requests.                        *)

\* A code that was not made has not been entered and belongs to nobody.
CodesGood ==
    /\ code \in [Codes -> CodeRows]
    /\ \A c \in Codes : code[c].state = "none" => code[c] = NoCode

\* What a handler at label l has in hand, when the codes are cs.
FrameGood(cs, l, f) ==
    /\ l # "idle" => f.phone \in Phones
    /\ l \in {"right", "wrong"} => /\ f.code \in Codes /\ cs[f.code].state # "none"
                                   /\ cs[f.code].phone = f.phone /\ cs[f.code].user = f.user
    /\ l = "create" => /\ f.code \in Codes /\ cs[f.code].state # "none" /\ cs[f.code].passed
                       /\ cs[f.code].phone = f.phone /\ cs[f.code].user = None

HandlersGood ==
    /\ pc \in [Requests -> Labels] /\ frame \in [Requests -> Frames]
    /\ \A h \in Requests : FrameGood(code, pc[h], frame[h])

RowsGood == now \in 0..MaxTime /\ phoneOf \in [Users -> Phones \cup {None}] /\ deleted \subseteq Users

PhoneInv == RowsGood /\ CodesGood /\ HandlersGood /\ NumberProved

-----------------------------------------------------------------------------
(* What the writes keep.                                                   *)

\* Codes are made once, for a number and an asker, and what was entered stays entered.
CodesKept ==
    \A c \in Codes : code[c].state # "none" =>
        /\ code'[c].state # "none" /\ code'[c].phone = code[c].phone /\ code'[c].user = code[c].user
        /\ code[c].passed => code'[c].passed

LEMMA CodesStay ==
    ASSUME CodesGood, UNCHANGED code
    PROVE  CodesGood' /\ CodesKept
BY DEF CodesGood, CodesKept

LEMMA CodeWritten ==
    ASSUME CodesGood, NEW c \in Codes, code[c].state # "none", NEW r \in CodeRows,
           r.state # "none", r.phone = code[c].phone, r.user = code[c].user,
           code[c].passed => r.passed, code' = [code EXCEPT ![c] = r]
    PROVE  CodesGood' /\ CodesKept
BY DEF CodesGood, CodesKept

\* Numbers that stay where they are stay proved.
LEMMA ProofStays ==
    ASSUME CodesGood, CodesKept, NumberProved, \A u \in Users : phoneOf'[u] \in {phoneOf[u], None}
    PROVE  NumberProved'
<1> SUFFICES ASSUME NEW u \in Users, phoneOf'[u] # None
             PROVE  \E c \in Codes : /\ code'[c].passed /\ code'[c].phone = phoneOf'[u]
                                     /\ code'[c].user \in {None, u}
  BY DEF NumberProved, Registered
<1>1. phoneOf'[u] = phoneOf[u] /\ u \in Registered
  BY DEF Registered
<1>2. PICK c \in Codes : /\ code[c].passed /\ code[c].phone = phoneOf[u]
                         /\ code[c].user \in {None, u}
  BY <1>1 DEF NumberProved
<1>3. code[c].state # "none"
  BY <1>2 DEF CodesGood, NoCode
<1> QED
  BY <1>1, <1>2, <1>3 DEF CodesKept

\* A number written with the code that proves it is proved.
LEMMA ProofGiven ==
    ASSUME CodesGood, CodesKept, NumberProved, phoneOf \in [Users -> Phones \cup {None}],
           NEW v \in Users, NEW p \in Phones, phoneOf' = [phoneOf EXCEPT ![v] = p],
           NEW d \in Codes, code'[d].passed, code'[d].phone = p, code'[d].user \in {None, v}
    PROVE  NumberProved'
<1> SUFFICES ASSUME NEW u \in Users, phoneOf'[u] # None
             PROVE  \E c \in Codes : /\ code'[c].passed /\ code'[c].phone = phoneOf'[u]
                                     /\ code'[c].user \in {None, u}
  BY DEF NumberProved, Registered
<1>1. CASE u = v
  BY <1>1
<1>2. CASE u # v
  <2>1. phoneOf'[u] = phoneOf[u] /\ u \in Registered
    BY <1>2 DEF Registered
  <2>2. PICK c \in Codes : /\ code[c].passed /\ code[c].phone = phoneOf[u]
                           /\ code[c].user \in {None, u}
    BY <2>1 DEF NumberProved
  <2>3. code[c].state # "none"
    BY <2>2 DEF CodesGood, NoCode
  <2> QED
    BY <2>1, <2>2, <2>3 DEF CodesKept
<1> QED
  BY <1>1, <1>2

LEMMA HandlerMoves ==
    ASSUME HandlersGood, CodesKept, NEW h \in Requests, NEW l \in Labels, NEW f \in Frames,
           FrameGood(code', l, f),
           pc' = [pc EXCEPT ![h] = l], frame' = [frame EXCEPT ![h] = f]
    PROVE  HandlersGood'
<1>1. pc' \in [Requests -> Labels] /\ frame' \in [Requests -> Frames]
  BY DEF HandlersGood
<1>2. ASSUME NEW g \in Requests PROVE FrameGood(code', pc'[g], frame'[g])
  <2>1. CASE g = h
    BY <2>1 DEF HandlersGood
  <2>2. CASE g # h
    <3>1. pc'[g] = pc[g] /\ frame'[g] = frame[g] /\ FrameGood(code, pc[g], frame[g])
      BY <2>2 DEF HandlersGood
    <3> QED
      BY <3>1 DEF FrameGood, CodesKept
  <2> QED
    BY <2>1, <2>2
<1> QED
  BY <1>1, <1>2 DEF HandlersGood

LEMMA HandlerEnds ==
    ASSUME HandlersGood, CodesKept, NEW h \in Requests, Finish(h)
    PROVE  HandlersGood'
<1> DEFINE f == IdleFrame
<1>1. "idle" \in Labels /\ f \in Frames /\ FrameGood(code', "idle", f)
  BY DEF Labels, Frames, FrameGood, IdleFrame
<1>2. pc' = [pc EXCEPT ![h] = "idle"] /\ frame' = [frame EXCEPT ![h] = f]
  BY DEF Finish
<1> HIDE DEF f
<1> QED
  BY <1>1, <1>2, HandlerMoves

\* Steps that write to no row.
LEMMA NothingWritten ==
    ASSUME PhoneInv, UNCHANGED <<now, phoneOf, deleted, code>>, HandlersGood'
    PROVE  PhoneInv'
<1>1. CodesGood' /\ CodesKept
  BY CodesStay DEF PhoneInv
<1>2. NumberProved'
  BY <1>1, ProofStays DEF PhoneInv
<1> QED
  BY <1>1, <1>2 DEF PhoneInv, RowsGood

LEMMA HandlerFails ==
    ASSUME PhoneInv, NEW h \in Requests, Fail(h)
    PROVE  PhoneInv'
<1>1. UNCHANGED <<now, phoneOf, deleted, code>> /\ Finish(h) /\ CodesKept
  BY CodesStay DEF Fail, PhoneInv
<1> QED
  BY <1>1, HandlerEnds, NothingWritten DEF PhoneInv

LEMMA HandlerBegins ==
    ASSUME PhoneInv, NEW h \in Requests, NEW user \in Users \cup {None}, NEW phone \in Phones,
           NEW l \in {"issueRead", "checkRead", "tokenRead"},
           Begin(h, l, [IdleFrame EXCEPT !.user = user, !.phone = phone])
    PROVE  PhoneInv'
<1> DEFINE f == [IdleFrame EXCEPT !.user = user, !.phone = phone]
<1>1. f \in Frames /\ f.phone = phone /\ l \in Labels
  BY DEF Frames, IdleFrame, Labels
<1>2. /\ pc' = [pc EXCEPT ![h] = l] /\ frame' = [frame EXCEPT ![h] = f]
      /\ UNCHANGED <<now, phoneOf, deleted, code>>
  BY DEF Begin
<1> HIDE DEF f
<1>3. FrameGood(code', l, f) /\ CodesKept
  BY <1>1, <1>2, CodesStay DEF FrameGood, PhoneInv
<1> QED
  BY <1>1, <1>2, <1>3, HandlerMoves, NothingWritten DEF PhoneInv

LEMMA AskedKeeps ==
    ASSUME PhoneInv, NEW h \in Requests, Asked(h)
    PROVE  PhoneInv'
<1>1. Askers \subseteq Users \cup {None}
  BY DEF Askers, Registered
<1>2. PICK phone \in Phones :
          \/ \E user \in Askers : IssueBegin(h, user, phone) \/ CheckBegin(h, user, phone)
          \/ RegisterBegin(h, phone)
  BY DEF Asked
<1>3. [IdleFrame EXCEPT !.phone = phone] = [IdleFrame EXCEPT !.user = None, !.phone = phone]
  <2>1. IdleFrame = [IdleFrame EXCEPT !.user = None]
    BY DEF IdleFrame
  <2> QED
    BY <2>1 DEF IdleFrame
<1> QED
  BY <1>1, <1>2, <1>3, HandlerBegins DEF IssueBegin, CheckBegin, RegisterBegin

-----------------------------------------------------------------------------
(* Steps, in the order of the module.                                      *)

LEMMA IssueReadKeeps ==
    ASSUME PhoneInv, NEW h \in Requests, IssueRead(h)
    PROVE  PhoneInv'
<1>1. CASE Fail(h)
  BY <1>1, HandlerFails
<1>2. CASE ~Fail(h)
  <2>1. Goto(h, "issue") /\ UNCHANGED <<now, phoneOf, deleted, code, frame>> /\ pc[h] = "issueRead"
    BY <1>2 DEF IssueRead
  <2>2. PICK f \in Frames : f = frame[h] /\ f.phone \in Phones
    BY <2>1 DEF PhoneInv, HandlersGood, FrameGood
  <2>3. "issue" \in Labels /\ FrameGood(code', "issue", f) /\ frame' = [frame EXCEPT ![h] = f]
        /\ CodesKept
    BY <2>1, <2>2, CodesStay DEF Labels, FrameGood, PhoneInv, HandlersGood
  <2> QED
    BY <2>1, <2>2, <2>3, HandlerMoves, NothingWritten DEF PhoneInv, Goto
<1> QED
  BY <1>1, <1>2

LEMMA IssueWriteKeeps ==
    ASSUME PhoneBounds, PhoneInv, NEW h \in Requests, IssueWrite(h)
    PROVE  PhoneInv'
<1>1. CASE Fail(h)
  BY <1>1, HandlerFails
<1>2. CASE ~Fail(h)
  <2>1. NewCode(frame[h].user, frame[h].phone) /\ Finish(h) /\ UNCHANGED <<now, phoneOf, deleted>>
    BY <1>2 DEF IssueWrite
  <2>2. frame[h].user \in Users \cup {None} /\ frame[h].phone \in Phones
    BY DEF IssueWrite, PhoneInv, HandlersGood, FrameGood, Frames
  <2>3. now \in Nat
    BY DEF PhoneInv, RowsGood, PhoneBounds
  <2>4. PICK c \in Codes :
            /\ code[c].state = "none"
            /\ code'[c] = [NoCode EXCEPT !.state = "open", !.phone = frame[h].phone,
                                         !.user = frame[h].user, !.born = now]
            /\ \A d \in Codes \ {c} : code'[d] \in {code[d], [code[d] EXCEPT !.state = "used"]}
            /\ \A d \in Codes \ {c} : code[d].state # "open" => code'[d] = code[d]
            /\ DOMAIN code' = Codes /\ code' = [d \in Codes |-> code'[d]]
    BY <2>1 DEF NewCode
  <2>5. code'[c] \in CodeRows /\ code'[c].state = "open"
    <3>1. code'[c] = [state |-> "open", phone |-> frame[h].phone, user |-> frame[h].user,
                      attempts |-> 0, born |-> now, passed |-> FALSE]
      BY <2>4 DEF NoCode
    <3> QED
      BY <2>2, <2>3, <3>1 DEF CodeRows
  <2>6. \A d \in Codes \ {c} : /\ code'[d] \in CodeRows
                               /\ code'[d].state = "none" => code'[d] = code[d]
                               /\ code[d].state # "none" => code'[d].state # "none"
                               /\ code'[d].phone = code[d].phone /\ code'[d].user = code[d].user
                               /\ code'[d].passed = code[d].passed
    BY <2>4 DEF PhoneInv, CodesGood, CodeRows
  <2>7. CodesGood' /\ CodesKept
    <3>1. code' \in [Codes -> CodeRows]
      <4>1. \A d \in Codes : code'[d] \in CodeRows
        BY <2>5, <2>6
      <4> QED
        BY <2>4, <4>1
    <3>2. \A d \in Codes : code'[d].state = "none" => code'[d] = NoCode
      <4>1. \A d \in Codes : code[d].state = "none" => code[d] = NoCode
        BY DEF PhoneInv, CodesGood
      <4> QED
        BY <2>5, <2>6, <4>1
    <3>3. CodesKept
      <4>1. code[c].state = "none"
        BY <2>4
      <4> QED
        BY <2>6, <4>1 DEF CodesKept
    <3> QED
      BY <3>1, <3>2, <3>3 DEF CodesGood
  <2>8. HandlersGood' /\ NumberProved'
    BY <2>1, <2>7, HandlerEnds, ProofStays DEF PhoneInv
  <2> QED
    BY <2>1, <2>7, <2>8 DEF PhoneInv, RowsGood
<1> QED
  BY <1>1, <1>2

\* A read that finds a code.
LEMMA CodeFound ==
    ASSUME PhoneInv, NEW h \in Requests, pc[h] # "idle", NEW c \in Codes, NEW l \in Labels,
           Goto(h, l), frame' = [frame EXCEPT ![h].code = c],
           UNCHANGED <<now, phoneOf, deleted, code>>,
           code[c].state # "none", code[c].phone = frame[h].phone,
           l \in {"right", "wrong"} => code[c].user = frame[h].user,
           l = "create" => code[c].passed /\ code[c].user = None
    PROVE  PhoneInv'
<1> DEFINE f == [frame[h] EXCEPT !.code = c]
<1>1. frame[h] \in Frames /\ frame[h].phone \in Phones /\ frame' = [frame EXCEPT ![h] = f]
  BY DEF PhoneInv, HandlersGood, FrameGood
<1>2. f \in Frames /\ f.code = c /\ f.phone = frame[h].phone /\ f.user = frame[h].user
  BY <1>1 DEF Frames
<1> HIDE DEF f
<1>3. FrameGood(code', l, f) /\ CodesKept
  BY <1>1, <1>2, CodesStay DEF FrameGood, PhoneInv
<1> QED
  BY <1>1, <1>2, <1>3, HandlerMoves, NothingWritten DEF PhoneInv, Goto

LEMMA CheckReadKeeps ==
    ASSUME PhoneInv, NEW h \in Requests, CheckRead(h)
    PROVE  PhoneInv'
<1>1. CASE Fail(h)
  BY <1>1, HandlerFails
<1>2. CASE ~Fail(h)
  <2>1. PICK c \in Latest(frame[h].phone, frame[h].user) : frame' = [frame EXCEPT ![h].code = c]
    BY <1>2 DEF CheckRead
  <2>2. PICK l \in {"right", "wrong"} : Goto(h, l)
    BY <1>2 DEF CheckRead
  <2>3. UNCHANGED <<now, phoneOf, deleted, code>> /\ pc[h] = "checkRead" /\ l \in Labels
    BY <1>2 DEF CheckRead, Labels
  <2>4. /\ c \in Codes /\ code[c].state # "none" /\ code[c].phone = frame[h].phone
        /\ code[c].user = frame[h].user
    BY <2>1 DEF Latest, Open
  <2> QED
    BY <2>1, <2>2, <2>3, <2>4, CodeFound
<1> QED
  BY <1>1, <1>2

\* A code that was entered: its row, afterwards.
Entered(c, r) ==
    /\ r \in CodeRows /\ r.state # "none" /\ r.phone = code[c].phone /\ r.user = code[c].user
    /\ code[c].passed => r.passed

LEMMA EnteredKeeps ==
    ASSUME PhoneInv, NEW h \in Requests, EnteredWrong(h) \/ EnteredRight(h)
    PROVE  PhoneInv'
<1>1. PICK c \in Codes : c = frame[h].code /\ code[c].state # "none"
  BY DEF EnteredWrong, EnteredRight, PhoneInv, HandlersGood, FrameGood
<1>2. code[c] \in CodeRows /\ code \in [Codes -> CodeRows]
  BY DEF PhoneInv, CodesGood
<1>3. Finish(h) /\ UNCHANGED <<now, phoneOf, deleted>>
  BY DEF EnteredWrong, EnteredRight
<1>4. PICK r : Entered(c, r) /\ code' = [code EXCEPT ![c] = r]
  <2>1. CASE EnteredWrong(h)
    <3> DEFINE r == [code[c] EXCEPT !.attempts = @ + 1]
    <3>1. Entered(c, r) /\ code' = [code EXCEPT ![c] = r]
      BY <1>1, <1>2, <2>1 DEF EnteredWrong, Entered, CodeRows
    <3> QED
      BY <3>1
  <2>2. CASE EnteredRight(h)
    <3> DEFINE r == [code[c] EXCEPT !.attempts = @ + 1, !.passed = TRUE]
    <3>1. code[c].attempts + 1 \in Nat
      BY <1>2 DEF CodeRows
    <3>2. Entered(c, r)
      BY <1>1, <1>2, <3>1 DEF Entered, CodeRows
    <3>3. code' = [code EXCEPT ![c] = r]
      BY <1>1, <1>2, <2>2 DEF EnteredRight
    <3> QED
      BY <3>2, <3>3
  <2> QED
    BY <2>1, <2>2
<1>5. CodesGood' /\ CodesKept
  BY <1>1, <1>4, CodeWritten DEF Entered, PhoneInv
<1> QED
  BY <1>3, <1>5, HandlerEnds, ProofStays DEF PhoneInv, RowsGood

LEMMA ChangeKeeps ==
    ASSUME PhoneInv, NEW h \in Requests, ChangeWrite(h)
    PROVE  PhoneInv'
<1>1. CASE Fail(h)
  BY <1>1, HandlerFails
<1>2. CASE ~Fail(h)
  <2>1. PICK c \in Codes, p \in Phones :
            /\ c = frame[h].code /\ p = frame[h].phone
            /\ code[c].state # "none" /\ code[c].phone = p /\ code[c].user = frame[h].user
    BY DEF ChangeWrite, PhoneInv, HandlersGood, FrameGood
  <2>2. PICK u \in Users : u = frame[h].user
    BY DEF ChangeWrite, PhoneInv, HandlersGood, Frames
  <2> DEFINE r == [code[c] EXCEPT !.attempts = @ + 1, !.passed = TRUE, !.state = "used"]
  <2>3. code[c] \in CodeRows /\ code \in [Codes -> CodeRows]
    BY DEF PhoneInv, CodesGood
  <2>4. /\ code' = [code EXCEPT ![c] = r]
        /\ phoneOf' = [phoneOf EXCEPT ![u] = p]
        /\ Finish(h) /\ UNCHANGED <<now, deleted>>
    BY <1>2, <2>1, <2>2, <2>3 DEF ChangeWrite
  <2>5. r \in CodeRows /\ r.state = "used" /\ r.phone = p /\ r.user = u /\ r.passed
    <3>1. code[c].attempts + 1 \in Nat
      BY <2>3 DEF CodeRows
    <3>2. r = [code[c] EXCEPT !.attempts = code[c].attempts + 1, !.passed = TRUE, !.state = "used"]
      OBVIOUS
    <3> HIDE DEF r
    <3> QED
      BY <2>1, <2>2, <2>3, <3>1, <3>2 DEF CodeRows
  <2> HIDE DEF r
  <2>6. CodesGood' /\ CodesKept
    BY <2>1, <2>2, <2>4, <2>5, CodeWritten DEF PhoneInv
  <2>7. code'[c] = r
    BY <2>3, <2>4
  <2>8. NumberProved'
    BY <2>4, <2>5, <2>6, <2>7, ProofGiven DEF PhoneInv, RowsGood
  <2> QED
    BY <2>4, <2>6, <2>8, HandlerEnds DEF PhoneInv, RowsGood
<1> QED
  BY <1>1, <1>2

LEMMA TokenKeeps ==
    ASSUME PhoneInv, NEW h \in Requests, ConsumeToken(h) \/ TokenRefused(h)
    PROVE  PhoneInv'
<1>1. CASE TokenRefused(h)
  BY <1>1, HandlerFails DEF TokenRefused
<1>2. CASE ConsumeToken(h)
  <2>1. PICK c \in Codes : /\ code[c].state = "open" /\ code[c].user = None /\ code[c].passed
                           /\ code[c].phone = frame[h].phone
                           /\ frame' = [frame EXCEPT ![h].code = c]
    BY <1>2 DEF ConsumeToken
  <2>2. /\ Goto(h, "create") /\ UNCHANGED <<now, phoneOf, deleted, code>> /\ pc[h] = "tokenRead"
        /\ "create" \in Labels
    BY <1>2 DEF ConsumeToken, Labels
  <2> QED
    BY <2>1, <2>2, CodeFound
<1> QED
  BY <1>1, <1>2

LEMMA CreateKeeps ==
    ASSUME PhoneInv, NEW h \in Requests, CreateWrite(h)
    PROVE  PhoneInv'
<1>1. PICK c \in Codes, p \in Phones :
          /\ c = frame[h].code /\ p = frame[h].phone
          /\ code[c].state # "none" /\ code[c].phone = p /\ code[c].passed /\ code[c].user = None
  BY DEF CreateWrite, PhoneInv, HandlersGood, FrameGood
<1>2. code[c] \in CodeRows /\ code \in [Codes -> CodeRows]
  BY DEF PhoneInv, CodesGood
<1>3. PICK u \in Users : phoneOf' = [phoneOf EXCEPT ![u] = p]
  BY <1>1 DEF CreateWrite
<1> DEFINE r == [code[c] EXCEPT !.state = "used"]
<1>4. code' = [code EXCEPT ![c] = r] /\ Finish(h) /\ UNCHANGED <<now, deleted>>
  BY <1>1, <1>2 DEF CreateWrite
<1>5. r \in CodeRows /\ r.state = "used" /\ r.phone = p /\ r.user = None /\ r.passed
  BY <1>1, <1>2 DEF CodeRows
<1> HIDE DEF r
<1>6. CodesGood' /\ CodesKept
  BY <1>1, <1>4, <1>5, CodeWritten DEF PhoneInv
<1>7. code'[c] = r
  BY <1>2, <1>4
<1>8. NumberProved'
  BY <1>3, <1>5, <1>6, <1>7, ProofGiven DEF PhoneInv, RowsGood
<1> QED
  BY <1>3, <1>4, <1>6, <1>8, HandlerEnds DEF PhoneInv, RowsGood

LEMMA DeleteKeeps ==
    ASSUME PhoneIdentities, PhoneInv, NEW u \in Users, DeleteAccount(u)
    PROVE  PhoneInv'
<1>1. /\ phoneOf' = [phoneOf EXCEPT ![u] = None] /\ deleted' = deleted \cup {u}
      /\ code' = [c \in Codes |-> IF code[c].user = u THEN [code[c] EXCEPT !.state = "used"]
                                                      ELSE code[c]]
      /\ UNCHANGED <<now, pc, frame>>
  BY DEF DeleteAccount
<1>2. ASSUME NEW c \in Codes
      PROVE  /\ code'[c] \in CodeRows
             /\ code'[c].state = "none" => code'[c] = code[c]
             /\ code[c].state # "none" => code'[c].state # "none"
             /\ code'[c].phone = code[c].phone /\ code'[c].user = code[c].user
             /\ code'[c].passed = code[c].passed
  BY <1>1 DEF PhoneInv, CodesGood, CodeRows
<1>3. CodesGood' /\ CodesKept
  BY <1>1, <1>2 DEF PhoneInv, CodesGood, CodesKept
<1>4. NumberProved'
  BY <1>1, <1>3, ProofStays DEF PhoneInv, RowsGood
<1>5. HandlersGood'
  BY <1>1, <1>3 DEF PhoneInv, HandlersGood, FrameGood, CodesKept
<1> QED
  BY <1>1, <1>3, <1>4, <1>5 DEF PhoneInv, RowsGood

LEMMA TickKeeps ==
    ASSUME PhoneBounds, PhoneInv, Tick
    PROVE  PhoneInv'
<1>1. UNCHANGED <<phoneOf, deleted, code, pc, frame>> /\ now' \in 0..MaxTime
  BY DEF Tick, PhoneInv, RowsGood, PhoneBounds
<1>2. CodesGood' /\ CodesKept
  BY <1>1, CodesStay DEF PhoneInv
<1>3. NumberProved' /\ HandlersGood'
  BY <1>1, <1>2, ProofStays DEF PhoneInv, HandlersGood
<1> QED
  BY <1>1, <1>2, <1>3 DEF PhoneInv, RowsGood

LEMMA PhoneInvInit ==
    ASSUME PhoneBounds, Init
    PROVE  PhoneInv
BY DEF Init, PhoneInv, RowsGood, CodesGood, HandlersGood, FrameGood, NumberProved, Registered,
       PhoneBounds, CodeRows, NoCode, Labels, Frames, IdleFrame

LEMMA PhoneInvNext ==
    ASSUME PhoneIdentities, PhoneBounds, PhoneInv, [Next]_vars
    PROVE  PhoneInv'
<1>1. ASSUME NEW h \in Requests, Step(h) PROVE PhoneInv'
  BY <1>1, IssueReadKeeps, IssueWriteKeeps, CheckReadKeeps, EnteredKeeps, ChangeKeeps, TokenKeeps,
     CreateKeeps DEF Step
<1>2. CASE UNCHANGED vars
  BY <1>2, NothingWritten DEF vars, PhoneInv, HandlersGood
<1> QED
  BY <1>1, <1>2, AskedKeeps, DeleteKeeps, TickKeeps DEF Next

\* A number an account holds was proved by a code sent to that number, entered by this account
\* or for a registration, however requests overlap and whoever is deleted meanwhile.
THEOREM NumbersAreProved ==
    PhoneIdentities /\ PhoneBounds => (Spec => [](PhoneTypes /\ NumberProved))
<1> SUFFICES ASSUME PhoneIdentities, PhoneBounds PROVE Spec => [](PhoneTypes /\ NumberProved)
  OBVIOUS
<1>1. PhoneInv => PhoneTypes /\ NumberProved
  BY DEF PhoneInv, RowsGood, CodesGood, HandlersGood, PhoneTypes
<1> QED
  BY <1>1, PhoneInvInit, PhoneInvNext, PTL DEF Spec

-----------------------------------------------------------------------------
(* Guesses: a code that was read as one that may be tried is tried.        *)

Finite == MaxActive > 0 /\ IsFiniteSet(Requests)

InFlight  == {g \in Requests : pc[g] # "idle"}
Trying(c) == {g \in Requests : pc[g] \in {"right", "wrong"} /\ frame[g].code = c}

\* Those who may still count a try are counted in advance.
TriesInv ==
    /\ Cardinality(InFlight) <= MaxActive
    /\ \A c \in Codes : code[c].attempts + Cardinality(Trying(c)) <= AttemptLimit + MaxActive - 1

LEMMA SetsFinite ==
    ASSUME Finite
    PROVE  /\ IsFiniteSet(InFlight) /\ Cardinality(InFlight) \in Nat
           /\ IsFiniteSet(InFlight') /\ Cardinality(InFlight)' \in Nat
           /\ \A c : /\ IsFiniteSet(Trying(c)) /\ Cardinality(Trying(c)) \in Nat
                     /\ IsFiniteSet(Trying(c)') /\ Cardinality(Trying(c)') \in Nat
<1>1. /\ InFlight \subseteq Requests /\ InFlight' \subseteq Requests
      /\ \A c : Trying(c) \subseteq Requests /\ Trying(c)' \subseteq Requests
  BY DEF InFlight, Trying
<1>2. \A S : S \subseteq Requests => IsFiniteSet(S) /\ Cardinality(S) \in Nat
  BY FS_Subset, FS_CardinalityType DEF Finite
<1> QED
  BY <1>1, <1>2

\* Steps by which nobody sets out to try a code.
LEMMA NobodyTries ==
    ASSUME Finite, PhoneBounds, CodesGood, CodesGood', TriesInv,
           InFlight' \subseteq InFlight \/ Cardinality(InFlight)' <= MaxActive,
           \A c \in Codes : Trying(c)' \subseteq Trying(c) /\ code'[c].attempts = code[c].attempts
    PROVE  TriesInv'
<1>1. Cardinality(InFlight)' <= MaxActive
  <2>1. CASE InFlight' \subseteq InFlight
    <3>1. Cardinality(InFlight') <= Cardinality(InFlight)
      BY <2>1, SetsFinite, FS_Subset
    <3> QED
      BY <3>1, SetsFinite DEF TriesInv, PhoneBounds
  <2> QED
    BY <2>1
<1>2. ASSUME NEW c \in Codes
      PROVE  code'[c].attempts + Cardinality(Trying(c)') <= AttemptLimit + MaxActive - 1
  <2>1. Cardinality(Trying(c)') <= Cardinality(Trying(c))
    BY SetsFinite, FS_Subset
  <2>2. Cardinality(Trying(c)') \in Nat /\ Cardinality(Trying(c)) \in Nat /\ code[c].attempts \in Nat
    BY SetsFinite DEF CodesGood, CodeRows
  <2>3. code[c].attempts + Cardinality(Trying(c)) <= AttemptLimit + MaxActive - 1
    BY DEF TriesInv
  <2> QED
    BY <2>1, <2>2, <2>3 DEF PhoneBounds
<1> QED
  BY <1>1, <1>2 DEF TriesInv

\* A handler goes on to something else than a try.
LEMMA GoesOn ==
    ASSUME Finite, PhoneBounds, PhoneInv, CodesGood', TriesInv, NEW h \in Requests, pc[h] # "idle",
           NEW l \in Labels \ {"right", "wrong"}, pc' = [pc EXCEPT ![h] = l],
           \A g \in Requests \ {h} : frame'[g] = frame[g],
           \A c \in Codes : code'[c].attempts = code[c].attempts
    PROVE  TriesInv'
<1>1. pc \in [Requests -> Labels]
  BY DEF PhoneInv, HandlersGood
<1>2. InFlight' \subseteq InFlight
  BY <1>1 DEF InFlight
<1>3. \A c \in Codes : Trying(c)' \subseteq Trying(c)
  BY <1>1 DEF Trying
<1> QED
  BY <1>2, <1>3, NobodyTries DEF PhoneInv

LEMMA EndsOtherwise ==
    ASSUME Finite, PhoneBounds, PhoneInv, CodesGood', TriesInv, NEW h \in Requests, pc[h] # "idle",
           Finish(h), \A c \in Codes : code'[c].attempts = code[c].attempts
    PROVE  TriesInv'
<1>1. "idle" \in Labels \ {"right", "wrong"} /\ pc' = [pc EXCEPT ![h] = "idle"]
  BY DEF Labels, Finish
<1>2. \A g \in Requests \ {h} : frame'[g] = frame[g]
  BY DEF Finish, PhoneInv, HandlersGood
<1> QED
  BY <1>1, <1>2, GoesOn

LEMMA FailsTries ==
    ASSUME Finite, PhoneBounds, PhoneInv, TriesInv, NEW h \in Requests, pc[h] # "idle", Fail(h)
    PROVE  TriesInv'
<1>1. CodesGood' /\ Finish(h) /\ \A c \in Codes : code'[c].attempts = code[c].attempts
  BY CodesStay DEF Fail, PhoneInv
<1> QED
  BY <1>1, EndsOtherwise

\* A handler that begins is one of MaxActive.
LEMMA BeginsTries ==
    ASSUME Finite, PhoneBounds, PhoneInv, TriesInv, NEW h \in Requests,
           NEW l \in {"issueRead", "checkRead", "tokenRead"}, NEW f, Begin(h, l, f)
    PROVE  TriesInv'
<1>1. pc \in [Requests -> Labels] /\ frame \in [Requests -> Frames] /\ CodesGood
  BY DEF PhoneInv, HandlersGood
<1>2. /\ pc[h] = "idle" /\ Cardinality(InFlight) < MaxActive
      /\ pc' = [pc EXCEPT ![h] = l] /\ frame' = [frame EXCEPT ![h] = f] /\ UNCHANGED code
  BY DEF Begin, CanBegin, InFlight
<1>3. InFlight' = InFlight \cup {h} /\ h \notin InFlight
  BY <1>1, <1>2 DEF InFlight
<1>4. Cardinality(InFlight \cup {h}) = Cardinality(InFlight) + 1
  BY <1>3, SetsFinite, FS_AddElement
<1>5. Cardinality(InFlight)' = Cardinality(InFlight) + 1
  BY <1>3, <1>4, Zenon
<1>6. Cardinality(InFlight)' <= MaxActive
  BY <1>2, <1>5, SetsFinite DEF PhoneBounds
<1>7. \A c \in Codes : Trying(c)' \subseteq Trying(c)
  BY <1>1, <1>2 DEF Trying
<1> QED
  BY <1>1, <1>2, <1>6, <1>7, NobodyTries, CodesStay

LEMMA AskedTries ==
    ASSUME Finite, PhoneBounds, PhoneInv, TriesInv, NEW h \in Requests, Asked(h)
    PROVE  TriesInv'
<1>1. ASSUME NEW user, NEW phone, IssueBegin(h, user, phone)  PROVE TriesInv'
  BY <1>1, BeginsTries DEF IssueBegin
<1>2. ASSUME NEW user, NEW phone, CheckBegin(h, user, phone)  PROVE TriesInv'
  BY <1>2, BeginsTries DEF CheckBegin
<1>3. ASSUME NEW phone, RegisterBegin(h, phone)  PROVE TriesInv'
  BY <1>3, BeginsTries DEF RegisterBegin
<1> QED
  BY <1>1, <1>2, <1>3 DEF Asked

LEMMA CheckReadTries ==
    ASSUME Finite, PhoneBounds, PhoneInv, TriesInv, NEW h \in Requests, CheckRead(h)
    PROVE  TriesInv'
<1>0. pc[h] = "checkRead" /\ pc \in [Requests -> Labels] /\ frame \in [Requests -> Frames] /\ CodesGood
  BY DEF CheckRead, PhoneInv, HandlersGood
<1>1. CASE Fail(h)
  BY <1>0, <1>1, FailsTries
<1>2. CASE ~Fail(h)
  <2>1. PICK c \in Codes : frame' = [frame EXCEPT ![h].code = c] /\ code[c].attempts < AttemptLimit
    BY <1>2 DEF CheckRead, Latest, Open
  <2>2. PICK l \in {"right", "wrong"} : pc' = [pc EXCEPT ![h] = l]
    BY <1>2 DEF CheckRead, Goto
  <2>3. UNCHANGED code
    BY <1>2 DEF CheckRead
  <2>4. /\ pc'[h] = l /\ frame'[h].code = c
        /\ \A g \in Requests \ {h} : pc'[g] = pc[g] /\ frame'[g] = frame[g]
    BY <1>0, <2>1, <2>2 DEF Frames
  <2>5. InFlight' = InFlight
    BY <1>0, <2>4 DEF InFlight
  <2>6. Cardinality(InFlight') <= MaxActive
    <3>1. Cardinality(InFlight) <= MaxActive
      BY DEF TriesInv
    <3> QED
      BY <2>5, <3>1
  <2>7. ASSUME NEW d \in Codes
        PROVE  code'[d].attempts + Cardinality(Trying(d)') <= AttemptLimit + MaxActive - 1
    <3>1. code[d].attempts \in Nat /\ code'[d] = code[d]
      BY <1>0, <2>3 DEF CodesGood, CodeRows
    <3>2. CASE d = c
      <4>1. Trying(d)' \subseteq InFlight'
        BY DEF Trying, InFlight
      <4>2. Cardinality(Trying(d)') <= Cardinality(InFlight')
        BY <4>1, SetsFinite, FS_Subset
      <4>3. Cardinality(Trying(d)') \in Nat /\ Cardinality(InFlight') \in Nat
        BY SetsFinite
      <4> QED
        BY <2>1, <2>6, <3>1, <3>2, <4>2, <4>3 DEF PhoneBounds
    <3>3. CASE d # c
      <4>1. Trying(d)' \subseteq Trying(d)
        BY <2>4, <3>3 DEF Trying
      <4>2. Cardinality(Trying(d)') <= Cardinality(Trying(d))
        BY <4>1, SetsFinite, FS_Subset
      <4>3. Cardinality(Trying(d)') \in Nat /\ Cardinality(Trying(d)) \in Nat
        BY SetsFinite
      <4>4. code[d].attempts + Cardinality(Trying(d)) <= AttemptLimit + MaxActive - 1
        BY DEF TriesInv
      <4> QED
        BY <3>1, <4>2, <4>3, <4>4 DEF PhoneBounds
    <3> QED
      BY <3>2, <3>3
  <2> QED
    BY <2>6, <2>7 DEF TriesInv
<1> QED
  BY <1>1, <1>2

\* A try that is counted is under way no more.
LEMMA TryCounted ==
    ASSUME Finite, PhoneBounds, PhoneInv, CodesGood', TriesInv, NEW h \in Requests,
           pc[h] \in {"right", "wrong"}, Finish(h),
           code'[frame[h].code].attempts = code[frame[h].code].attempts + 1,
           \A c \in Codes \ {frame[h].code} : code'[c].attempts = code[c].attempts
    PROVE  TriesInv'
<1>0. pc \in [Requests -> Labels] /\ frame \in [Requests -> Frames]
  BY DEF PhoneInv, HandlersGood
<1>1. pc'[h] = "idle" /\ \A g \in Requests \ {h} : pc'[g] = pc[g] /\ frame'[g] = frame[g]
  BY <1>0 DEF Finish
<1>2. InFlight' \subseteq InFlight
  BY <1>1 DEF InFlight
<1>3. Cardinality(InFlight') <= MaxActive
  <2>1. Cardinality(InFlight') <= Cardinality(InFlight)
    BY <1>2, SetsFinite, FS_Subset
  <2>2. Cardinality(InFlight') \in Nat /\ Cardinality(InFlight) \in Nat
    BY SetsFinite
  <2> QED
    BY <2>1, <2>2 DEF TriesInv, PhoneBounds
<1>4. ASSUME NEW d \in Codes
      PROVE  code'[d].attempts + Cardinality(Trying(d)') <= AttemptLimit + MaxActive - 1
  <2>1. code[d].attempts \in Nat
    BY DEF PhoneInv, CodesGood, CodeRows
  <2>2. code[d].attempts + Cardinality(Trying(d)) <= AttemptLimit + MaxActive - 1
    BY DEF TriesInv
  <2>3. Cardinality(Trying(d)') \in Nat /\ Cardinality(Trying(d)) \in Nat
    BY SetsFinite
  <2>4. CASE d = frame[h].code
    <3>1. Trying(d)' = Trying(d) \ {h} /\ h \in Trying(d)
      BY <1>1, <2>4 DEF Trying
    <3>2. Cardinality(Trying(d) \ {h}) = Cardinality(Trying(d)) - 1
      BY <3>1, SetsFinite, FS_RemoveElement
    <3>3. Cardinality(Trying(d)') = Cardinality(Trying(d)) - 1
      BY <3>1, <3>2, Zenon
    <3> QED
      BY <2>1, <2>2, <2>3, <2>4, <3>3 DEF PhoneBounds
  <2>5. CASE d # frame[h].code
    <3>1. Trying(d)' \subseteq Trying(d)
      BY <1>1 DEF Trying
    <3>2. Cardinality(Trying(d)') <= Cardinality(Trying(d))
      BY <3>1, SetsFinite, FS_Subset
    <3> QED
      BY <2>1, <2>2, <2>3, <2>5, <3>2 DEF PhoneBounds
  <2> QED
    BY <2>4, <2>5
<1> QED
  BY <1>3, <1>4 DEF TriesInv

LEMMA EnteredTries ==
    ASSUME Finite, PhoneBounds, PhoneInv, PhoneInv', TriesInv, NEW h \in Requests,
           EnteredWrong(h) \/ EnteredRight(h) \/ ChangeWrite(h)
    PROVE  TriesInv'
<1>0. pc[h] \in {"right", "wrong"} /\ CodesGood' /\ code \in [Codes -> CodeRows]
  BY DEF EnteredWrong, EnteredRight, ChangeWrite, PhoneInv, CodesGood
<1>1. CASE Fail(h)
  BY <1>0, <1>1, FailsTries
<1>2. CASE ~Fail(h)
  <2>1. PICK c \in Codes : c = frame[h].code
    BY <1>0 DEF PhoneInv, HandlersGood, FrameGood
  <2>2. Finish(h)
    BY <1>2 DEF EnteredWrong, EnteredRight, ChangeWrite
  <2>3. /\ code'[c].attempts = code[c].attempts + 1
        /\ \A d \in Codes \ {c} : code'[d] = code[d]
    BY <1>0, <1>2, <2>1 DEF EnteredWrong, EnteredRight, ChangeWrite, CodeRows
  <2> QED
    BY <1>0, <2>1, <2>2, <2>3, TryCounted
<1> QED
  BY <1>1, <1>2

LEMMA OthersTries ==
    ASSUME Finite, PhoneBounds, PhoneInv, PhoneInv', TriesInv, NEW h \in Requests,
           IssueRead(h) \/ IssueWrite(h) \/ ConsumeToken(h) \/ TokenRefused(h) \/ CreateWrite(h)
    PROVE  TriesInv'
<1>0. /\ pc[h] # "idle" /\ CodesGood' /\ CodesGood /\ {"issue", "create"} \subseteq Labels \ {"right", "wrong"}
      /\ frame \in [Requests -> Frames]
  BY DEF IssueRead, IssueWrite, ConsumeToken, TokenRefused, CreateWrite, PhoneInv, Labels, HandlersGood
<1>1. CASE Fail(h)
  BY <1>0, <1>1, FailsTries
<1>2. CASE IssueRead(h) /\ ~Fail(h)
  <2>1. pc' = [pc EXCEPT ![h] = "issue"] /\ UNCHANGED <<frame, code>>
    BY <1>2 DEF IssueRead, Goto
  <2> QED
    BY <1>0, <2>1, GoesOn
<1>3. CASE ConsumeToken(h)
  <2>1. /\ pc' = [pc EXCEPT ![h] = "create"] /\ UNCHANGED code
        /\ \A g \in Requests \ {h} : frame'[g] = frame[g]
    BY <1>0, <1>3 DEF ConsumeToken, Goto
  <2> QED
    BY <1>0, <2>1, GoesOn
<1>4. CASE IssueWrite(h) /\ ~Fail(h)
  <2>1. Finish(h) /\ NewCode(frame[h].user, frame[h].phone)
    BY <1>4 DEF IssueWrite
  <2>2. \A c \in Codes : code'[c].attempts = code[c].attempts
    BY <1>0, <2>1 DEF NewCode, CodesGood, CodeRows, NoCode
  <2> QED
    BY <1>0, <2>1, <2>2, EndsOtherwise
<1>5. CASE CreateWrite(h)
  <2>1. Finish(h) /\ \A c \in Codes : code'[c].attempts = code[c].attempts
    BY <1>0, <1>5 DEF CreateWrite, CodesGood, CodeRows
  <2> QED
    BY <1>0, <2>1, EndsOtherwise
<1> QED
  BY <1>1, <1>2, <1>3, <1>4, <1>5 DEF TokenRefused

LEMMA TriesInvNext ==
    ASSUME Finite, PhoneBounds, PhoneInv, PhoneInv', TriesInv, [Next]_vars
    PROVE  TriesInv'
<1>1. ASSUME NEW h \in Requests, Step(h) PROVE TriesInv'
  BY <1>1, CheckReadTries, EnteredTries, OthersTries DEF Step
<1>2. ASSUME NEW u \in Users, DeleteAccount(u) PROVE TriesInv'
  <2>1. UNCHANGED <<pc, frame>> /\ \A c \in Codes : code'[c].attempts = code[c].attempts
    BY <1>2 DEF DeleteAccount, PhoneInv, CodesGood, CodeRows
  <2> QED
    BY <2>1, NobodyTries DEF InFlight, Trying, PhoneInv
<1>3. CASE Tick \/ UNCHANGED vars
  <2>1. UNCHANGED <<pc, frame, code>>
    BY <1>3 DEF Tick, vars
  <2> QED
    BY <2>1, NobodyTries DEF InFlight, Trying, PhoneInv
<1> QED
  BY <1>1, <1>2, <1>3, AskedTries DEF Next

LEMMA TriesInvInit ==
    ASSUME Finite, PhoneBounds, Init
    PROVE  TriesInv
<1>1. InFlight = {} /\ \A c : Trying(c) = {}
  BY DEF Init, InFlight, Trying
<1>2. Cardinality({}) = 0
  BY FS_EmptySet
<1>3. Cardinality(InFlight) = 0 /\ \A c : Cardinality(Trying(c)) = 0
  BY <1>1, <1>2, Zenon
<1>4. \A c \in Codes : code[c].attempts = 0
  BY DEF Init, NoCode
<1> QED
  BY <1>3, <1>4 DEF TriesInv, Finite, PhoneBounds

LEMMA TriesInvSays ==
    ASSUME Finite, PhoneBounds, PhoneInv, TriesInv
    PROVE  AttemptsBounded
<1> SUFFICES ASSUME NEW c \in Codes
             PROVE  code[c].attempts <= AttemptLimit + MaxActive - 1
  BY DEF AttemptsBounded
<1>1. Cardinality(Trying(c)) \in Nat /\ code[c].attempts \in Nat
  BY SetsFinite DEF PhoneInv, CodesGood, CodeRows
<1> QED
  BY <1>1 DEF TriesInv, PhoneBounds

\* A code is tried at most as often as the limit says, and once more for each other request in
\* flight, however many read the counter before the last try is written to it.
THEOREM GuessesAreBounded ==
    Finite /\ PhoneIdentities /\ PhoneBounds => (Spec => []AttemptsBounded)
<1> SUFFICES ASSUME Finite, PhoneIdentities, PhoneBounds PROVE Spec => []AttemptsBounded
  OBVIOUS
<1>1. PhoneInv /\ TriesInv => AttemptsBounded
  BY TriesInvSays
<1> QED
  BY <1>1, PhoneInvInit, PhoneInvNext, TriesInvInit, TriesInvNext, PTL DEF Spec

-----------------------------------------------------------------------------
(* Requests served one at a time: what a handler tested is still so when   *)
(* it writes, but for the deletion of an account, which only frees numbers.*)

Serial == MaxActive = 1 /\ IsFiniteSet(Requests)

OneAtATime == \A g, h \in Requests : pc[g] # "idle" /\ pc[h] # "idle" => g = h

\* The number a handler asked about still is nobody else's.
Relies(h) ==
    /\ pc[h] \in {"checkRead", "right", "tokenRead", "create"}
          => Available(frame[h].phone, frame[h].user)
    /\ pc[h] \in {"tokenRead", "create"} => frame[h].user = None

SerialInv == PhoneInv /\ OneAtATime /\ (\A h \in Requests : Relies(h)) /\ NumberHasOneOwner

LEMMA NobodyElse ==
    ASSUME Serial, SerialInv, NEW h \in Requests, pc[h] # "idle" \/ CanBegin(h)
    PROVE  \A g \in Requests \ {h} : pc[g] = "idle"
<1>1. CASE pc[h] # "idle"
  BY <1>1 DEF SerialInv, OneAtATime
<1>2. CASE CanBegin(h)
  <2> DEFINE A == {g \in Requests : pc[g] # "idle"}
  <2>1. IsFiniteSet(A)
    BY FS_Subset DEF Serial
  <2>2. Cardinality(A) < 1 /\ Cardinality(A) \in Nat
    BY <1>2, <2>1, FS_CardinalityType DEF CanBegin, Serial
  <2>3. Cardinality(A) = 0
    BY <2>2
  <2>4. A = {}
    BY <2>1, <2>3, FS_EmptySet
  <2> QED
    BY <2>4
<1> QED
  BY <1>1, <1>2

LEMMA OneMoves ==
    ASSUME Serial, SerialInv, NEW h \in Requests, pc[h] # "idle" \/ CanBegin(h),
           NEW l, pc' = [pc EXCEPT ![h] = l], Relies(h)'
    PROVE  OneAtATime' /\ \A g \in Requests : Relies(g)'
<1>1. \A g \in Requests \ {h} : pc'[g] = "idle"
  BY NobodyElse DEF SerialInv, PhoneInv, HandlersGood
<1>2. OneAtATime'
  BY <1>1 DEF OneAtATime
<1>3. ASSUME NEW g \in Requests \ {h} PROVE Relies(g)'
  BY <1>1 DEF Relies
<1> QED
  BY <1>2, <1>3

LEMMA EndMoves ==
    ASSUME Serial, SerialInv, NEW h \in Requests, pc[h] # "idle", Finish(h)
    PROVE  OneAtATime' /\ \A g \in Requests : Relies(g)'
<1>1. pc' = [pc EXCEPT ![h] = "idle"] /\ pc'[h] = "idle"
  BY DEF Finish, SerialInv, PhoneInv, HandlersGood
<1>2. Relies(h)'
  BY <1>1 DEF Relies
<1> QED
  BY <1>1, <1>2, OneMoves

LEMMA OwnersStay ==
    ASSUME SerialInv, UNCHANGED phoneOf
    PROVE  NumberHasOneOwner'
BY DEF SerialInv, NumberHasOneOwner, Registered

\* A number that was nobody else's is written to one account.
LEMMA OwnerWritten ==
    ASSUME SerialInv, NEW u \in Users, NEW p \in Phones, phoneOf' = [phoneOf EXCEPT ![u] = p],
           \A v \in Users \ {u} : phoneOf[v] # p
    PROVE  NumberHasOneOwner'
<1>1. phoneOf'[u] = p /\ \A v \in Users \ {u} : phoneOf'[v] = phoneOf[v]
  BY DEF SerialInv, PhoneInv, RowsGood
<1> QED
  BY <1>1 DEF SerialInv, NumberHasOneOwner, Registered

LEMMA EndsAlone ==
    ASSUME Serial, SerialInv, NEW h \in Requests, pc[h] # "idle", Finish(h), UNCHANGED phoneOf
    PROVE  OneAtATime' /\ (\A g \in Requests : Relies(g)') /\ NumberHasOneOwner'
BY EndMoves, OwnersStay

LEMMA AskedAlone ==
    ASSUME Serial, SerialInv, NEW h \in Requests, Asked(h)
    PROVE  OneAtATime' /\ (\A g \in Requests : Relies(g)') /\ NumberHasOneOwner'
<1> DEFINE Alone == OneAtATime' /\ (\A g \in Requests : Relies(g)') /\ NumberHasOneOwner'
<1>1. pc \in [Requests -> Labels] /\ frame \in [Requests -> Frames]
  BY DEF SerialInv, PhoneInv, HandlersGood
<1>2. ASSUME NEW l, NEW f, Begin(h, l, f)
      PROVE  /\ pc'[h] = l /\ frame'[h] = f /\ CanBegin(h) /\ pc' = [pc EXCEPT ![h] = l]
             /\ UNCHANGED phoneOf
  BY <1>1, <1>2 DEF Begin
<1>3. ASSUME NEW user, NEW phone, IssueBegin(h, user, phone) PROVE Alone
  <2>1. PICK f : f = [IdleFrame EXCEPT !.user = user, !.phone = phone]
    OBVIOUS
  <2>2. Begin(h, "issueRead", f)
    BY <1>3, <2>1 DEF IssueBegin
  <2>3. Relies(h)'
    BY <1>2, <2>2 DEF Relies
  <2> QED
    BY <1>2, <2>2, <2>3, OneMoves, OwnersStay
<1>4. ASSUME NEW user, NEW phone, CheckBegin(h, user, phone) PROVE Alone
  <2>1. PICK f : f = [IdleFrame EXCEPT !.user = user, !.phone = phone]
    OBVIOUS
  <2>2. Begin(h, "checkRead", f) /\ Available(phone, user) /\ f.phone = phone /\ f.user = user
    BY <1>4, <2>1 DEF CheckBegin, IdleFrame
  <2>3. Relies(h)'
    BY <1>2, <2>2 DEF Relies, Available
  <2> QED
    BY <1>2, <2>2, <2>3, OneMoves, OwnersStay
<1>5. ASSUME NEW phone, RegisterBegin(h, phone) PROVE Alone
  <2>1. PICK f : f = [IdleFrame EXCEPT !.phone = phone]
    OBVIOUS
  <2>2. Begin(h, "tokenRead", f) /\ Available(phone, None) /\ f.phone = phone /\ f.user = None
    BY <1>5, <2>1 DEF RegisterBegin, IdleFrame
  <2>3. Relies(h)'
    BY <1>2, <2>2 DEF Relies, Available
  <2> QED
    BY <1>2, <2>2, <2>3, OneMoves, OwnersStay
<1> QED
  BY <1>3, <1>4, <1>5 DEF Asked

LEMMA StepAlone ==
    ASSUME Serial, PhoneIdentities, SerialInv, NEW h \in Requests, Step(h)
    PROVE  OneAtATime' /\ (\A g \in Requests : Relies(g)') /\ NumberHasOneOwner'
<1> DEFINE Alone == OneAtATime' /\ (\A g \in Requests : Relies(g)') /\ NumberHasOneOwner'
<1>0. /\ pc \in [Requests -> Labels] /\ frame \in [Requests -> Frames]
      /\ FrameGood(code, pc[h], frame[h]) /\ Relies(h)
  BY DEF SerialInv, PhoneInv, HandlersGood
<1>1. ASSUME pc[h] # "idle", Fail(h) PROVE Alone
  BY <1>1, EndsAlone DEF Fail
<1>2. ASSUME NEW l, pc[h] # "idle", Goto(h, l), frame'[h].phone = frame[h].phone,
             frame'[h].user = frame[h].user, UNCHANGED phoneOf,
             l \in {"issue", "right", "wrong", "create"},
             l \in {"right", "create"} => pc[h] \in {"checkRead", "tokenRead"},
             l = "create" => pc[h] = "tokenRead"
      PROVE  Alone
  <2>1. pc' = [pc EXCEPT ![h] = l] /\ pc'[h] = l
    BY <1>0, <1>2 DEF Goto
  <2>2. Relies(h)'
    BY <1>0, <1>2, <2>1 DEF Relies, Available
  <2> QED
    BY <1>2, <2>1, <2>2, OneMoves, OwnersStay
<1>3. CASE IssueRead(h)
  BY <1>1, <1>2, <1>3 DEF IssueRead
<1>4. CASE IssueWrite(h)
  BY <1>1, <1>4, EndsAlone DEF IssueWrite
<1>5. CASE CheckRead(h)
  <2>1. ASSUME NEW c \in Codes, frame' = [frame EXCEPT ![h].code = c]
        PROVE  frame'[h].phone = frame[h].phone /\ frame'[h].user = frame[h].user
    BY <1>0, <2>1 DEF Frames
  <2> QED
    BY <1>1, <1>2, <1>5, <2>1 DEF CheckRead, Latest, Open
<1>6. CASE EnteredWrong(h) \/ EnteredRight(h)
  BY <1>6, EndsAlone DEF EnteredWrong, EnteredRight
<1>7. CASE ChangeWrite(h) /\ ~Fail(h)
  <2>1. PICK u \in Users, p \in Phones : u = frame[h].user /\ p = frame[h].phone
    BY <1>0, <1>7 DEF ChangeWrite, Frames, FrameGood
  <2>2. phoneOf' = [phoneOf EXCEPT ![u] = p] /\ Finish(h) /\ pc[h] = "right"
    BY <1>7, <2>1 DEF ChangeWrite
  <2>3. \A v \in Users \ {u} : phoneOf[v] # p
    BY <1>0, <2>1, <2>2 DEF Relies, Available
  <2> QED
    BY <2>2, <2>3, EndMoves, OwnerWritten
<1>8. CASE ConsumeToken(h)
  <2>1. ASSUME NEW c \in Codes, frame' = [frame EXCEPT ![h].code = c]
        PROVE  frame'[h].phone = frame[h].phone /\ frame'[h].user = frame[h].user
    BY <1>0, <2>1 DEF Frames
  <2> QED
    BY <1>2, <1>8, <2>1 DEF ConsumeToken
<1>9. CASE CreateWrite(h)
  <2>1. PICK p \in Phones : p = frame[h].phone
    BY <1>0, <1>9 DEF CreateWrite, FrameGood
  <2>2. PICK u \in Users : phoneOf' = [phoneOf EXCEPT ![u] = p]
    BY <1>9, <2>1 DEF CreateWrite
  <2>3. \A v \in Users : phoneOf[v] # p
    BY <1>0, <1>9, <2>1 DEF CreateWrite, Relies, Available, PhoneIdentities
  <2> QED
    BY <1>9, <2>2, <2>3, EndMoves, OwnerWritten DEF CreateWrite
<1> QED
  BY <1>1, <1>3, <1>4, <1>5, <1>6, <1>7, <1>8, <1>9 DEF Step, ChangeWrite, TokenRefused

LEMMA SerialInvNext ==
    ASSUME Serial, PhoneIdentities, PhoneBounds, SerialInv, [Next]_vars
    PROVE  SerialInv'
<1> DEFINE Alone == OneAtATime' /\ (\A g \in Requests : Relies(g)') /\ NumberHasOneOwner'
<1>1. PhoneInv'
  BY PhoneInvNext DEF SerialInv
<1>2. ASSUME NEW u \in Users, DeleteAccount(u) PROVE Alone
  <2>1. /\ phoneOf \in [Users -> Phones \cup {None}] /\ phoneOf' = [phoneOf EXCEPT ![u] = None]
        /\ UNCHANGED <<pc, frame>>
        /\ \A h \in Requests : FrameGood(code, pc[h], frame[h])
    BY <1>2 DEF DeleteAccount, SerialInv, PhoneInv, RowsGood, HandlersGood
  <2>2. NumberHasOneOwner' /\ OneAtATime'
    BY <2>1 DEF SerialInv, NumberHasOneOwner, Registered, OneAtATime
  <2>3. ASSUME NEW h \in Requests PROVE Relies(h)'
    BY <2>1 DEF SerialInv, Relies, Available, FrameGood, PhoneIdentities
  <2> QED
    BY <2>2, <2>3
<1>3. ASSUME UNCHANGED <<phoneOf, pc, frame>> PROVE Alone
  BY <1>3 DEF SerialInv, NumberHasOneOwner, Registered, OneAtATime, Relies, Available
<1>4. Alone
  BY <1>2, <1>3, AskedAlone, StepAlone DEF Next, Tick, vars
<1> QED
  BY <1>1, <1>4 DEF SerialInv

LEMMA SerialInvInit ==
    ASSUME PhoneBounds, Init
    PROVE  SerialInv
<1>1. PhoneInv
  BY PhoneInvInit
<1> QED
  BY <1>1 DEF SerialInv, Init, OneAtATime, Relies, NumberHasOneOwner, Registered

\* With requests served one at a time a verified number belongs to one account, also when an
\* account that held it was deleted between a handler's test and its write.
THEOREM NumbersHaveOneOwner ==
    Serial /\ PhoneIdentities /\ PhoneBounds => (Spec => []NumberHasOneOwner)
<1> SUFFICES ASSUME Serial, PhoneIdentities, PhoneBounds PROVE Spec => []NumberHasOneOwner
  OBVIOUS
<1>1. SerialInv => NumberHasOneOwner
  BY DEF SerialInv
<1> QED
  BY <1>1, SerialInvInit, SerialInvNext, PTL DEF Spec
=============================================================================
