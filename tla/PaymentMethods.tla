---------------------------- MODULE PaymentMethods ----------------------------
(***************************************************************************)
(* The cards guests have saved: CustomerPaymentMethod rows in              *)
(* PaymentsService.  A card comes with a checkout the provider has         *)
(* verified, is disabled by its guest, and comes back when the guest       *)
(* verifies it again.  One of a guest's cards is the default, the one that *)
(* pays when a request names none.                                         *)
(*                                                                         *)
(* Every handler reads before it writes; with MaxActive = 1 handlers run   *)
(* one after another.                                                      *)
(***************************************************************************)
EXTENDS Naturals, FiniteSets

CONSTANTS
    Guests,
    Cards,          \* identities the provider gives saved cards
    TestCards,      \* those of createTestCustomerPaymentMethod, each used once
    Handlers,       \* requests that can be in flight
    MaxActive,      \* bound: requests in flight at a time
    NoGuest

MethodIdentities == NoGuest \notin Guests

VARIABLES
    owner,          \* CustomerPaymentMethod.customerId, NoGuest where there is no row
    status,         \* CustomerPaymentMethod.status
    isDefault,      \* CustomerPaymentMethod.isDefault
    pc, frame       \* handlers: where each is, and what it read

vars == <<owner, status, isDefault, pc, frame>>

AllCards == Cards \cup TestCards
Idle     == [guest |-> NoGuest, first |-> FALSE]

Init ==
    /\ owner = [c \in AllCards |-> NoGuest]
    /\ status = [c \in AllCards |-> "DISABLED"]
    /\ isDefault = [c \in AllCards |-> FALSE]
    /\ pc = [h \in Handlers |-> <<"idle">>]
    /\ frame = [h \in Handlers |-> Idle]

-----------------------------------------------------------------------------

Rows     == {c \in AllCards : owner[c] # NoGuest}
Active(g) == {c \in Rows : owner[c] = g /\ status[c] = "ACTIVE"}
Defaults(g) == {c \in Active(g) : isDefault[c]}

MayBegin(h) == /\ pc[h] = <<"idle">>
               /\ Cardinality({k \in Handlers : pc[k] # <<"idle">>}) < MaxActive

Begin(h, label, card, g) ==
    /\ MayBegin(h)
    /\ pc' = [pc EXCEPT ![h] = <<label, card>>]
    /\ frame' = [frame EXCEPT ![h] = [guest |-> g, first |-> Defaults(g) = {}]]
    /\ UNCHANGED <<owner, status, isDefault>>

Finish(h) == pc' = [pc EXCEPT ![h] = <<"idle">>] /\ frame' = [frame EXCEPT ![h] = Idle]

-----------------------------------------------------------------------------

\* assertCustomerPaymentMethodCheckout, or a paid reservation that saved its card; a card
\* of another guest is refused.
SaveRead(h, c, g) == c \in Cards /\ owner[c] \in {g, NoGuest} /\ Begin(h, "save", c, g)

\* upsertSavedPaymentMethodFromProviderData: a card that is known keeps its isDefault.
SaveWrite(h, c) ==
    /\ pc[h] = <<"save", c>>
    /\ owner' = [owner EXCEPT ![c] = frame[h].guest]
    /\ status' = [status EXCEPT ![c] = "ACTIVE"]
    /\ isDefault' = [isDefault EXCEPT ![c] = IF owner[c] = NoGuest THEN frame[h].first ELSE @]
    /\ Finish(h)

\* createTestCustomerPaymentMethod
AddTest(h, c, g) == c \in TestCards /\ owner[c] = NoGuest /\ Begin(h, "save", c, g)

\* disableCustomerPaymentMethod
DisableRead(h, c, g) == c \in Active(g) /\ Begin(h, "disable", c, g)

\* Seeded fault: a disabled card stays the default.
DisableKeepsDefault(h, c) ==
    /\ pc[h] = <<"disable", c>>
    /\ status' = [status EXCEPT ![c] = "DISABLED"]
    /\ Finish(h)
    /\ UNCHANGED <<owner, isDefault>>

DisableWrite(h, c) ==
    /\ pc[h] = <<"disable", c>>
    /\ status' = [status EXCEPT ![c] = "DISABLED"]
    /\ isDefault' = [isDefault EXCEPT ![c] = FALSE]
    /\ Finish(h)
    /\ UNCHANGED owner

\* setDefaultCustomerPaymentMethod: cleared and set in one transaction.
DefaultRead(h, c, g) == c \in Active(g) /\ Begin(h, "default", c, g)

DefaultWrite(h, c) ==
    /\ pc[h] = <<"default", c>>
    /\ isDefault' = [d \in AllCards |-> IF owner[d] = frame[h].guest THEN d = c ELSE isDefault[d]]
    /\ Finish(h)
    /\ UNCHANGED <<owner, status>>

-----------------------------------------------------------------------------

Next ==
    \E h \in Handlers, c \in AllCards :
        \/ \E g \in Guests :
              SaveRead(h, c, g) \/ AddTest(h, c, g) \/ DisableRead(h, c, g) \/ DefaultRead(h, c, g)
        \/ SaveWrite(h, c) \/ DisableWrite(h, c) \/ DefaultWrite(h, c)

Spec == Init /\ [][Next]_vars

-----------------------------------------------------------------------------

MethodTypes ==
    /\ owner \in [AllCards -> Guests \cup {NoGuest}]
    /\ status \in [AllCards -> {"ACTIVE", "DISABLED"}]
    /\ isDefault \in [AllCards -> BOOLEAN]

\* A payment with the default card has one card to take, also after cards were disabled
\* and saved again: a guest has at most one default, and it is an active card.
\* resolveCustomerPaymentMethod takes the newest where there are several.
OneDefault ==
    /\ \A g \in Guests : Cardinality(Defaults(g)) <= 1
    /\ \A c \in AllCards : isDefault[c] => c \in Rows /\ status[c] = "ACTIVE"
=============================================================================
