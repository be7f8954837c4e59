---------------------- MODULE ReservationPayments_proofs ----------------------
(***************************************************************************)
(* Proofs about ReservationPayments for every fee, clock and set of        *)
(* payments and requests.                                                  *)
(*                                                                         *)
(* For every interleaving and every fault: types, the ledger and the       *)
(* invoice, and what the rows say against what Saferpay did.               *)
(*                                                                         *)
(* For requests served one at a time: what the books, Saferpay and the     *)
(* status of the reservation have to do with each other.  With one handler *)
(* in flight nothing moves a row under its feet, so the status of a row    *)
(* says exactly where its money is (RowsAt, for every operation and every  *)
(* fault, crashes included), and the status of the reservation says which  *)
(* rows it may have (SagaAt, without crashes and without the overrides of  *)
(* support).                                                               *)
(***************************************************************************)
EXTENDS ReservationPayments, FiniteSetTheorems, TLAPS

-----------------------------------------------------------------------------
(* The inductive invariant.                                                *)

CleanupLabels == {"expFind", "expWrite", "arrFind", "arrWrite", "nightFind", "nightWrite"}
ReturnLabels  == {"idle", "arrFind", "nightFind", "voidFind", "cancelWrite"}
RefundLabels  == {"refundMark", "refundProvider", "refundTx"}
PayLabels     == RefundLabels \cup
                 {"checkoutCreate", "assertProvider", "claim",
                  "captureMark", "captureProvider", "captureTx",
                  "voidLocal", "voidMark", "voidProvider", "voidWrite", "voidLedger"}

\* What the frame f of a handler at label l holds.
FrameGood(l, f) ==
    /\ l \in Labels
    /\ f \in Frames
    /\ f.ret \in ReturnLabels
    /\ l \in CleanupLabels \/ f.ret \in {"arrFind", "nightFind"} => f.op \in DOMAIN AfterCleanup
    /\ l \in PayLabels => f.pay \in Payments
    /\ f.op = "notify" => f.event \in Payments
    /\ l = "recordEvent" => f.op = "notify"
    /\ l = "setStatusWrite" => f.target \in Statuses

FramesGood == \A h \in Handlers : FrameGood(pc[h], frame[h])

\* A refund under way asks for something, and for no more than was captured.
RefundGood(l, f, paid) ==
    l \in RefundLabels => f.amt > 0 /\ f.snap + f.amt <= paid[f.pay]

RefundsGood == \A h \in Handlers : RefundGood(pc[h], frame[h], captured)

\* A payment is either not booked at all or booked with everything it needs.
NotBooked(p) ==
    /\ captured[p] = 0 /\ refunded[p] = 0
    /\ ledger[p].types \cap CaptureTypes = {}
    /\ \A t \in CaptureTypes : ledger[p].sum[t] = 0

FullyBooked(p) ==
    /\ captured[p] = Fee
    /\ CaptureTypes \subseteq ledger[p].types
    /\ ledger[p].sum["CUSTOMER_CAPTURE"] = Fee
    /\ ledger[p].sum["CHIN_CHIN_FEE"] + ledger[p].sum["VENUE_SHARE"] = Fee - refunded[p]
    /\ ledger[p].sum["CHIN_CHIN_FEE"] >= 0 /\ ledger[p].sum["VENUE_SHARE"] >= 0
    /\ Fee > 0 => invoice[p] = InvoiceStatus(Fee, refunded[p])

Booked == \A p \in Payments : NotBooked(p) \/ FullyBooked(p)

DataInv    == ReservationTyped /\ PaymentsTyped /\ ProviderTyped /\ BooksTyped /\ Booked
ControlInv == HandlersTyped /\ FramesGood /\ RefundsGood

IInv == DataInv /\ ControlInv

-----------------------------------------------------------------------------
(* Lemmas about the operators.                                             *)

\* A commission is a part of the amount it is taken from.
LEMMA AllocationSplits ==
    ASSUME NEW amount \in Nat, NEW bps \in Int, 0 <= bps, bps <= 10000
    PROVE  /\ CalculateAllocation(amount, bps).fee \in Nat
           /\ CalculateAllocation(amount, bps).share \in Nat
           /\ CalculateAllocation(amount, bps).fee + CalculateAllocation(amount, bps).share = amount
<1> DEFINE prod == amount * bps
<1>1. prod \in Int /\ 0 <= prod
  OBVIOUS
<1>2. prod <= amount * 10000
  OBVIOUS
<1> HIDE DEF prod
<1>3. prod \div 10000 \in Int /\ 0 <= prod \div 10000 /\ prod \div 10000 <= amount
  BY <1>1, <1>2
<1>4. CalculateAllocation(amount, bps) = [fee |-> prod \div 10000, share |-> amount - (prod \div 10000)]
  BY DEF CalculateAllocation, prod
<1> QED
  BY <1>3, <1>4

\* findFirst returns a row of the set it was asked for, or none.
LEMMA LatestFound ==
    ASSUME rows \in Seq(Payments), NEW S
    PROVE  Latest(S) = NoPayment \/ (Latest(S) \in Payments /\ Latest(S) \in S)
<1> DEFINE last == {i \in DOMAIN rows : /\ rows[i] \in S
                                        /\ \A j \in DOMAIN rows : j > i => rows[j] \notin S}
<1>1. CASE last = {}
  BY <1>1 DEF Latest
<1>2. CASE last # {}
  <2>1. PICK i \in last : i = (CHOOSE k \in last : TRUE)
    BY <1>2
  <2>2. Latest(S) = rows[i]
    BY <1>2, <2>1 DEF Latest
  <2> QED
    BY <2>1, <2>2
<1> QED
  BY <1>1, <1>2

LEMMA LatestInFound ==
    ASSUME rows \in Seq(Payments), NEW stats, LatestIn(stats) # NoPayment
    PROVE  LatestIn(stats) \in Payments /\ payStatus[LatestIn(stats)] \in stats
<1> DEFINE S == {p \in Payments : payStatus[p] \in stats}
<1>1. LatestIn(stats) = Latest(S)
  BY DEF LatestIn
<1>2. Latest(S) \in Payments /\ Latest(S) \in S
  BY <1>1, LatestFound
<1> QED
  BY <1>1, <1>2

\* No rule promises more than the fee.
LEMMA RefundsWithinFee ==
    ASSUME NEW t, NEW s, NEW c \in BOOLEAN, NEW v \in BOOLEAN, NEW time
    PROVE  /\ HalfFee \in 0..Fee
           /\ NoShowRefundCents(t, c, v) \in 0..Fee
           /\ CustomerCancellationRefundCents(s, c, time) \in 0..Fee
           /\ RefundForCancellation(t, s) \in 0..Fee
<1>1. HalfFee \in 0..Fee
  BY FeeAssumption DEF HalfFee
<1>2. NoShowRefundCents(t, c, v) \in 0..Fee
  BY <1>1, FeeAssumption DEF NoShowRefundCents
<1>3. CustomerCancellationChargeCents(s, c, time) \in 0..Fee
  BY <1>1, FeeAssumption DEF CustomerCancellationChargeCents
<1>4. CustomerCancellationRefundCents(s, c, time) \in 0..Fee
  BY <1>3, FeeAssumption DEF CustomerCancellationRefundCents
<1>5. RefundForCancellation(t, s) \in 0..Fee
  BY FeeAssumption DEF RefundForCancellation
<1> QED
  BY <1>1, <1>2, <1>4, <1>5

\* Booking a capture on an empty ledger credits the two parties with the fee.
LEMMA FirstCapture ==
    ASSUME NEW l \in Ledgers, NEW isFirst \in BOOLEAN,
           l.types \cap CaptureTypes = {},
           \A t \in CaptureTypes : l.sum[t] = 0
    PROVE  LET n == CaptureEntries(l, ReservationAllocation(Fee, isFirst))
           IN  /\ n \in Ledgers
               /\ CaptureTypes \subseteq n.types
               /\ n.sum["CUSTOMER_CAPTURE"] = Fee
               /\ n.sum["CHIN_CHIN_FEE"] + n.sum["VENUE_SHARE"] = Fee
               /\ n.sum["CHIN_CHIN_FEE"] >= 0 /\ n.sum["VENUE_SHARE"] >= 0
<1> DEFINE a == ReservationAllocation(Fee, isFirst)
           n == CaptureEntries(l, a)
<1>1. /\ a.fee \in Int /\ a.share \in Int
      /\ a.fee >= 0 /\ a.share >= 0 /\ a.fee + a.share = Fee
  <2> DEFINE bps == IF isFirst THEN FirstReservationBps ELSE CommissionBps
  <2>1. bps \in Int /\ 0 <= bps /\ bps <= 10000
    BY BpsAssumption
  <2>2. a = CalculateAllocation(Fee, bps)
    BY DEF ReservationAllocation
  <2> HIDE DEF a, bps
  <2> QED
    BY <2>1, <2>2, AllocationSplits, FeeAssumption
<1> HIDE DEF a
<1>2. CaptureTypes \ l.types = CaptureTypes
  OBVIOUS
<1>3. /\ n.types = l.types \cup CaptureTypes
      /\ n = [types |-> n.types, sum |-> n.sum]
      /\ n.sum \in [EntryTypes -> Int]
      /\ n.sum["CUSTOMER_CAPTURE"] = Fee
      /\ n.sum["CHIN_CHIN_FEE"] = a.fee
      /\ n.sum["VENUE_SHARE"] = a.share
  BY <1>1, <1>2, FeeAssumption DEF CaptureEntries, Ledgers, CaptureTypes, EntryTypes
<1> HIDE DEF n
<1>6. n.types \in SUBSET EntryTypes
  BY <1>3 DEF Ledgers, EntryTypes
<1> QED
  BY <1>1, <1>3, <1>6 DEF Ledgers, a, n

\* Booking it again adds nothing.
LEMMA CaptureBookedOnce ==
    ASSUME NEW l \in Ledgers, NEW a, CaptureTypes \subseteq l.types
    PROVE  CaptureEntries(l, a) = [types |-> l.types, sum |-> [t \in EntryTypes |-> l.sum[t]]]
<1>1. CaptureTypes \ l.types = {}
  OBVIOUS
<1>2. l.types \cup CaptureTypes = l.types
  OBVIOUS
<1> QED
  BY <1>1, <1>2 DEF CaptureEntries

\* An entry of another type leaves the split alone.
LEMMA EntryAdded ==
    ASSUME NEW l \in Ledgers, NEW t \in EntryTypes, NEW cents \in Int
    PROVE  /\ AddEntry(l, t, cents) \in Ledgers
           /\ l.types \subseteq AddEntry(l, t, cents).types
           /\ AddEntry(l, t, cents).types \subseteq l.types \cup {t}
           /\ \A u \in EntryTypes \ {t} : AddEntry(l, t, cents).sum[u] = l.sum[u]
BY DEF AddEntry, Ledgers

\* After a refund the two parties hold what is retained.
LEMMA RefundSplits ==
    ASSUME NEW l \in Ledgers, NEW paid \in Nat, NEW returned \in Nat, returned <= paid,
           l.sum["CHIN_CHIN_FEE"] >= 0, l.sum["VENUE_SHARE"] >= 0
    PROVE  LET n == RefundAllocationEntries(l, paid, returned)
           IN  /\ n \in Ledgers
               /\ l.types \subseteq n.types
               /\ n.sum["CUSTOMER_CAPTURE"] = l.sum["CUSTOMER_CAPTURE"]
               /\ n.sum["CHIN_CHIN_FEE"] + n.sum["VENUE_SHARE"] = paid - returned
               /\ n.sum["CHIN_CHIN_FEE"] >= 0 /\ n.sum["VENUE_SHARE"] >= 0
<1> DEFINE target  == RefundAdjustedAllocation(paid, returned)
           current == CurrentLedgerAllocation(l.sum["CHIN_CHIN_FEE"], l.sum["VENUE_SHARE"])
           delta   == [t \in EntryTypes |-> CASE t = "CHIN_CHIN_FEE" -> target.fee - current.fee
                                              [] t = "VENUE_SHARE"   -> target.share - current.share
                                              [] OTHER               -> 0]
           n == RefundAllocationEntries(l, paid, returned)
<1>1. /\ target.fee \in Int /\ target.share \in Int
      /\ target.fee >= 0 /\ target.share >= 0
      /\ target.fee + target.share = paid - returned
  <2>1. CASE paid - returned <= 0
    BY <2>1 DEF RefundAdjustedAllocation, NoAllocation
  <2>2. CASE paid - returned > 0
    <3>1. paid - returned \in Nat
      BY <2>2
    <3>2. target = CalculateAllocation(paid - returned, CommissionBps)
      BY <2>2 DEF RefundAdjustedAllocation
    <3>3. CommissionBps \in Int /\ 0 <= CommissionBps /\ CommissionBps <= 10000
      BY BpsAssumption
    <3> HIDE DEF target
    <3> QED
      BY <3>1, <3>2, <3>3, AllocationSplits
  <2> QED
    BY <2>1, <2>2
<1>2. /\ l.sum["CHIN_CHIN_FEE"] \in Int /\ l.sum["VENUE_SHARE"] \in Int
      /\ l.sum["CUSTOMER_CAPTURE"] \in Int
  BY DEF Ledgers, EntryTypes, CaptureTypes
<1>3. current.fee = l.sum["CHIN_CHIN_FEE"] /\ current.share = l.sum["VENUE_SHARE"]
  BY <1>2 DEF CurrentLedgerAllocation, NoAllocation
<1>4. n = [types |-> l.types \cup {t \in EntryTypes : delta[t] # 0},
           sum   |-> [t \in EntryTypes |-> l.sum[t] + delta[t]]]
  BY DEF RefundAllocationEntries
<1> HIDE DEF target, current, n
<1>5. delta \in [EntryTypes -> Int]
  BY <1>1, <1>2, <1>3
<1>6. /\ delta["CHIN_CHIN_FEE"] = target.fee - current.fee
      /\ delta["VENUE_SHARE"] = target.share - current.share
      /\ delta["CUSTOMER_CAPTURE"] = 0
  BY DEF EntryTypes, CaptureTypes
<1> HIDE DEF delta
<1>7. n \in Ledgers
  BY <1>4, <1>5 DEF Ledgers
<1>8. /\ n.sum["CHIN_CHIN_FEE"] = target.fee
      /\ n.sum["VENUE_SHARE"] = target.share
      /\ n.sum["CUSTOMER_CAPTURE"] = l.sum["CUSTOMER_CAPTURE"]
  BY <1>1, <1>2, <1>3, <1>4, <1>6 DEF EntryTypes, CaptureTypes
<1> QED
  BY <1>1, <1>4, <1>7, <1>8 DEF n

-----------------------------------------------------------------------------
(* Control: one handler moves, the others stay.                            *)

\* The fields of a frame, one by one.
LEMMA FrameFields ==
    ASSUME NEW f \in Frames
    PROVE  /\ f.op \in AllOps \cup {"none", "cleanup"}
           /\ f.ret \in Labels
           /\ f.pay \in Payments \cup {NoPayment}
           /\ f.event \in Payments \cup {NoPayment}
           /\ f.snap \in 0..Fee
           /\ f.amt \in 0..Fee
           /\ f.target \in Statuses \cup {"none"}
BY DEF Frames

\* A frame stays one when a field is replaced by a value of its range.
LEMMA FrameWith ==
    ASSUME NEW f \in Frames
    PROVE  /\ \A o \in AllOps \cup {"none", "cleanup"} : [f EXCEPT !.op = o] \in Frames
           /\ \A r \in Labels : [f EXCEPT !.ret = r] \in Frames
           /\ \A p \in Payments \cup {NoPayment} : [f EXCEPT !.pay = p] \in Frames
           /\ \A p \in Payments \cup {NoPayment} : [f EXCEPT !.event = p] \in Frames
           /\ \A c \in 0..Fee : [f EXCEPT !.snap = c] \in Frames
           /\ \A c \in 0..Fee : [f EXCEPT !.amt = c] \in Frames
           /\ \A t \in Statuses \cup {"none"} : [f EXCEPT !.target = t] \in Frames
BY DEF Frames

\* A frame that is changed in one field keeps the others.
LEMMA FrameKeeps ==
    ASSUME NEW f \in Frames, NEW v
    PROVE  /\ LET g == [f EXCEPT !.op = v]
              IN  /\ g.op = v /\ g.ret = f.ret /\ g.pay = f.pay /\ g.event = f.event
                  /\ g.snap = f.snap /\ g.amt = f.amt /\ g.target = f.target
           /\ LET g == [f EXCEPT !.ret = v]
              IN  /\ g.op = f.op /\ g.ret = v /\ g.pay = f.pay /\ g.event = f.event
                  /\ g.snap = f.snap /\ g.amt = f.amt /\ g.target = f.target
           /\ LET g == [f EXCEPT !.pay = v]
              IN  /\ g.op = f.op /\ g.ret = f.ret /\ g.pay = v /\ g.event = f.event
                  /\ g.snap = f.snap /\ g.amt = f.amt /\ g.target = f.target
           /\ LET g == [f EXCEPT !.amt = v]
              IN  /\ g.op = f.op /\ g.ret = f.ret /\ g.pay = f.pay /\ g.event = f.event
                  /\ g.snap = f.snap /\ g.amt = v /\ g.target = f.target
BY DEF Frames

\* A handler that is not under way has an empty frame of the right kind.
LEMMA IdleFrameGood ==
    /\ IdleFrame \in Frames
    /\ IdleFrame.op = "none" /\ IdleFrame.ret = "idle" /\ IdleFrame.amt = 0
    /\ IdleFrame.event = NoPayment
    /\ FrameGood("idle", IdleFrame)
<1>1. "idle" \in Labels
  BY DEF Labels
<1>2. IdleFrame \in Frames
  BY <1>1, FeeAssumption DEF IdleFrame, Frames
<1> QED
  BY <1>1, <1>2 DEF FrameGood, IdleFrame, ReturnLabels, CleanupLabels, PayLabels, RefundLabels

\* Whatever handler h is replaced by, if it is good all handlers are.
LEMMA HandlerMoves ==
    ASSUME ControlInv, UNCHANGED captured,
           NEW h \in Handlers, NEW l, NEW f, FrameGood(l, f), RefundGood(l, f, captured),
           pc' = [pc EXCEPT ![h] = l], frame' = [frame EXCEPT ![h] = f]
    PROVE  ControlInv'
<1>1. \A k \in Handlers : pc'[k] = (IF k = h THEN l ELSE pc[k])
                           /\ frame'[k] = (IF k = h THEN f ELSE frame[k])
  BY DEF ControlInv, HandlersTyped
<1>2. \A k \in Handlers : FrameGood(pc'[k], frame'[k])
  BY <1>1 DEF ControlInv, FramesGood
<1>3. \A k \in Handlers : RefundGood(pc'[k], frame'[k], captured')
  BY <1>1 DEF ControlInv, RefundsGood, RefundGood
<1>4. l \in Labels /\ f \in Frames
  BY DEF FrameGood
<1>5. HandlersTyped'
  BY <1>4 DEF ControlInv, HandlersTyped
<1> QED
  BY <1>2, <1>3, <1>5 DEF ControlInv, FramesGood, RefundsGood

\* The handler goes on to a step that needs no more of its frame.
LEMMA HandlerGoes ==
    ASSUME ControlInv, UNCHANGED captured,
           NEW h \in Handlers, NEW l \in Labels, Goto(h, l), UNCHANGED frame,
           l \in CleanupLabels => pc[h] \in CleanupLabels,
           l \in PayLabels => pc[h] \in PayLabels,
           l \in RefundLabels => pc[h] \in RefundLabels,
           l = "recordEvent" => frame[h].op = "notify",
           l # "setStatusWrite"
    PROVE  ControlInv'
<1>1. FrameGood(pc[h], frame[h]) /\ RefundGood(pc[h], frame[h], captured)
  BY DEF ControlInv, FramesGood, RefundsGood
<1>2. FrameGood(l, frame[h])
  BY <1>1 DEF FrameGood
<1>3. RefundGood(l, frame[h], captured)
  BY <1>1 DEF RefundGood
<1>4. frame' = [frame EXCEPT ![h] = frame[h]]
  BY DEF ControlInv, HandlersTyped
<1> QED
  BY <1>2, <1>3, <1>4, HandlerMoves DEF Goto

\* The handler ends.
LEMMA HandlerFinishes ==
    ASSUME ControlInv, UNCHANGED captured, NEW h \in Handlers, Finish(h)
    PROVE  ControlInv'
<1>1. RefundGood("idle", IdleFrame, captured)
  BY DEF RefundGood, RefundLabels
<1> QED
  BY <1>1, IdleFrameGood, HandlerMoves DEF Finish, Goto

\* A shared procedure returns to its caller.
LEMMA HandlerReturns ==
    ASSUME ControlInv, UNCHANGED captured, NEW h \in Handlers, Return(h)
    PROVE  ControlInv'
<1>1. CASE frame[h].ret = "idle"
  BY <1>1, HandlerFinishes DEF Return
<1>2. CASE frame[h].ret # "idle"
  <2> DEFINE e == [IdleFrame EXCEPT !.op = frame[h].op]
             f == [IdleFrame EXCEPT !.op = frame[h].op, !.event = frame[h].event]
  <2>1. FrameGood(pc[h], frame[h])
    BY DEF ControlInv, FramesGood
  <2>2. frame[h] \in Frames
    BY <2>1 DEF FrameGood
  <2>3. frame[h].op \in AllOps \cup {"none", "cleanup"} /\ frame[h].event \in Payments \cup {NoPayment}
    BY <2>2, FrameFields
  <2>4. e \in Frames
    BY <2>3, IdleFrameGood, FrameWith
  <2>5. f = [e EXCEPT !.event = frame[h].event]
    BY IdleFrameGood DEF IdleFrame
  <2>6. f \in Frames
    BY <2>3, <2>4, <2>5, FrameWith
  <2>7. f.op = frame[h].op /\ f.ret = "idle" /\ f.event = frame[h].event
    BY DEF IdleFrame
  <2> HIDE DEF e, f
  <2>8. FrameGood(frame[h].ret, f)
    <3>1. frame[h].ret \in ReturnLabels /\ frame[h].ret \in Labels
      BY <2>1, <2>2, FrameFields DEF FrameGood
    <3>2. /\ frame[h].ret \notin PayLabels
          /\ frame[h].ret \notin {"recordEvent", "setStatusWrite"}
          /\ frame[h].ret \in CleanupLabels => frame[h].ret \in {"arrFind", "nightFind"}
      BY <3>1 DEF ReturnLabels, PayLabels, RefundLabels, CleanupLabels
    <3>3. "idle" \in ReturnLabels
      BY DEF ReturnLabels
    <3> QED
      BY <2>1, <2>6, <2>7, <3>1, <3>2, <3>3 DEF FrameGood
  <2>9. RefundGood(frame[h].ret, f, captured)
    BY <2>1 DEF FrameGood, RefundGood, ReturnLabels, RefundLabels
  <2>10. pc' = [pc EXCEPT ![h] = frame[h].ret] /\ frame' = [frame EXCEPT ![h] = f]
    BY <1>2 DEF Return, Goto, f
  <2> QED
    BY <2>8, <2>9, <2>10, HandlerMoves
<1> QED
  BY <1>1, <1>2

\* The handler has found the payment it goes on with.
LEMMA HandlerTakes ==
    ASSUME ControlInv, UNCHANGED captured,
           NEW h \in Handlers, NEW l \in Labels, NEW p \in Payments,
           l \notin RefundLabels \cup CleanupLabels \cup {"recordEvent", "setStatusWrite"},
           Goto(h, l), frame' = [frame EXCEPT ![h].pay = p]
    PROVE  ControlInv'
<1> DEFINE f == [frame[h] EXCEPT !.pay = p]
<1>1. FrameGood(pc[h], frame[h]) /\ frame[h] \in Frames
  BY DEF ControlInv, FramesGood, FrameGood
<1>2. f \in Frames
  BY <1>1, FrameWith
<1>3. /\ f.op = frame[h].op /\ f.ret = frame[h].ret /\ f.pay = p
      /\ f.event = frame[h].event /\ f.target = frame[h].target
  BY <1>1, FrameKeeps
<1>4. frame' = [frame EXCEPT ![h] = f]
  OBVIOUS
<1> HIDE DEF f
<1>5. FrameGood(l, f)
  BY <1>1, <1>2, <1>3 DEF FrameGood
<1>6. RefundGood(l, f, captured)
  BY DEF RefundGood
<1> QED
  BY <1>4, <1>5, <1>6, HandlerMoves DEF Goto

\* The handler calls a shared procedure and says where to come back to.
LEMMA HandlerCalls ==
    ASSUME ControlInv, UNCHANGED captured,
           NEW h \in Handlers, NEW l \in {"voidFind", "refundFind"}, NEW ret \in ReturnLabels,
           ret \in CleanupLabels => pc[h] \in CleanupLabels,
           Goto(h, l), frame' = [frame EXCEPT ![h] = Call(@, ret)]
    PROVE  ControlInv'
<1> DEFINE f == [frame[h] EXCEPT !.ret = ret]
<1>1. FrameGood(pc[h], frame[h]) /\ frame[h] \in Frames
  BY DEF ControlInv, FramesGood, FrameGood
<1>2. ret \in Labels /\ l \in Labels
  BY DEF ReturnLabels, Labels
<1>3. f \in Frames
  BY <1>1, <1>2, FrameWith
<1>4. /\ f.op = frame[h].op /\ f.ret = ret /\ f.pay = frame[h].pay
      /\ f.event = frame[h].event /\ f.target = frame[h].target
  BY <1>1, FrameKeeps
<1>5. frame' = [frame EXCEPT ![h] = f]
  BY DEF Call
<1> HIDE DEF f
<1>6. l \notin CleanupLabels /\ l \notin PayLabels /\ l \notin RefundLabels
      /\ l # "recordEvent" /\ l # "setStatusWrite"
  BY DEF CleanupLabels, PayLabels, RefundLabels
<1>7. ret \in {"arrFind", "nightFind"} => frame[h].op \in DOMAIN AfterCleanup
  BY <1>1 DEF FrameGood, CleanupLabels
<1>8. FrameGood(l, f)
  BY <1>1, <1>2, <1>3, <1>4, <1>6, <1>7 DEF FrameGood
<1>9. RefundGood(l, f, captured)
  BY <1>6 DEF RefundGood
<1> QED
  BY <1>5, <1>8, <1>9, HandlerMoves DEF Goto

\* A request enters: what it has read so far is in f.
LEMMA HandlerBegins ==
    ASSUME ControlInv, UNCHANGED captured,
           NEW h \in Handlers, NEW o, NEW l \in Labels, NEW f \in Frames, BeginAt(h, o, l, f),
           l \notin PayLabels \cup RefundLabels \cup CleanupLabels \cup {"recordEvent"},
           f.ret \in {"idle", "cancelWrite"},
           o = "notify" => f.event \in Payments,
           l = "setStatusWrite" => f.target \in Statuses
    PROVE  ControlInv'
<1> DEFINE g == [f EXCEPT !.op = o]
<1>1. o \in AllOps
  BY IdentityAssumption DEF BeginAt
<1>2. g \in Frames
  BY <1>1, FrameWith
<1>3. /\ g.op = o /\ g.ret = f.ret /\ g.pay = f.pay
      /\ g.event = f.event /\ g.target = f.target
  BY FrameKeeps
<1>4. pc' = [pc EXCEPT ![h] = l] /\ frame' = [frame EXCEPT ![h] = g]
  BY DEF BeginAt, Goto
<1> HIDE DEF g
<1>5. FrameGood(l, g)
  BY <1>2, <1>3 DEF FrameGood, ReturnLabels
<1>6. RefundGood(l, g, captured)
  BY DEF RefundGood
<1> QED
  BY <1>4, <1>5, <1>6, HandlerMoves

-----------------------------------------------------------------------------
(* Data: what a step leaves alone stays as it was.                         *)

\* The money columns, the provider and the books are not touched.
LEMMA MoneyUntouched ==
    ASSUME DataInv, UNCHANGED <<payVars, provVars, bookVars>>, ReservationTyped'
    PROVE  DataInv' /\ UNCHANGED captured
BY DEF DataInv, PaymentsTyped, ProviderTyped, BooksTyped, Booked, NotBooked, FullyBooked,
       payVars, provVars, bookVars

\* Nothing in the database is touched.
LEMMA AllUntouched ==
    ASSUME DataInv, DatabaseUnchanged
    PROVE  DataInv' /\ UNCHANGED captured
<1>1. ReservationTyped'
  BY DEF DataInv, DatabaseUnchanged, ReservationTyped, bookingVars, resVars
<1> QED
  BY <1>1, MoneyUntouched DEF DatabaseUnchanged

-----------------------------------------------------------------------------
(* Every step preserves the invariant.                                     *)

\* What a handler under way knows.
LEMMA HandlerKnows ==
    ASSUME IInv, NEW h \in Handlers
    PROVE  /\ FrameGood(pc[h], frame[h])
           /\ RefundGood(pc[h], frame[h], captured)
           /\ frame[h] \in Frames
           /\ frame[h].op \in AllOps \cup {"none", "cleanup"}
           /\ frame[h].ret \in Labels
           /\ frame[h].amt \in 0..Fee /\ frame[h].snap \in 0..Fee
           /\ pc[h] \in PayLabels => frame[h].pay \in Payments
<1>1. /\ FrameGood(pc[h], frame[h])
      /\ RefundGood(pc[h], frame[h], captured)
      /\ frame[h] \in Frames
      /\ pc[h] \in PayLabels => frame[h].pay \in Payments
  BY DEF IInv, ControlInv, FramesGood, RefundsGood, FrameGood
<1> QED
  BY <1>1, FrameFields

\* The cleanup ends and its caller goes on.
LEMMA CleanupEnds ==
    ASSUME ControlInv, UNCHANGED captured, NEW h \in Handlers,
           pc[h] \in CleanupLabels, CleanupDone(h)
    PROVE  ControlInv'
<1> DEFINE next == AfterCleanup[frame[h].op]
<1>1. frame[h].op \in DOMAIN AfterCleanup
  BY DEF ControlInv, FramesGood, FrameGood
<1>2. /\ next \in Labels
      /\ next \notin CleanupLabels /\ next \notin PayLabels /\ next \notin RefundLabels
      /\ next # "recordEvent" /\ next # "setStatusWrite"
  BY <1>1 DEF AfterCleanup, Labels, CleanupLabels, PayLabels, RefundLabels
<1>3. CASE next = "idle"
  BY <1>3, HandlerFinishes DEF CleanupDone
<1>4. CASE next # "idle"
  <2>1. Goto(h, next) /\ UNCHANGED frame
    BY <1>4 DEF CleanupDone
  <2> HIDE DEF next
  <2> QED
    BY <1>2, <2>1, HandlerGoes
<1> QED
  BY <1>3, <1>4

\* The scheduled cleanup.
LEMMA CleanupPreserves ==
    ASSUME IInv, NEW h \in Handlers, Cleanup(h)
    PROVE  IInv'
<1> USE DEF IInv
<1>1. CASE ExpireFind(h)
  <2>1. DataInv' /\ UNCHANGED captured
    BY <1>1, AllUntouched DEF ExpireFind
  <2>2. PICK l \in {"expWrite", "arrFind"} : Goto(h, l)
    BY <1>1 DEF ExpireFind
  <2>3. l \in Labels /\ l \in CleanupLabels /\ l \notin PayLabels /\ l \notin RefundLabels
        /\ l # "recordEvent" /\ l # "setStatusWrite"
    BY DEF Labels, CleanupLabels, PayLabels, RefundLabels
  <2>4. pc[h] \in CleanupLabels /\ UNCHANGED frame
    BY <1>1 DEF ExpireFind, CleanupLabels
  <2> QED
    BY <2>1, <2>2, <2>3, <2>4, HandlerGoes
<1>2. CASE ExpireWrite(h)
  <2>1. ReservationTyped'
    BY <1>2 DEF ExpireWrite, DataInv, ReservationTyped, bookingVars, Statuses, Terminal
  <2>2. DataInv' /\ UNCHANGED captured
    BY <1>2, <2>1, MoneyUntouched DEF ExpireWrite
  <2>3. "arrFind" \in ReturnLabels /\ pc[h] \in CleanupLabels
    BY <1>2 DEF ExpireWrite, ReturnLabels, CleanupLabels
  <2> QED
    BY <1>2, <2>2, <2>3, HandlerCalls DEF ExpireWrite
<1>3. CASE ArrivalFind(h)
  <2>1. DataInv' /\ UNCHANGED captured
    BY <1>3, AllUntouched DEF ArrivalFind
  <2>2. pc[h] \in CleanupLabels
    BY <1>3 DEF ArrivalFind, CleanupLabels
  <2>3. CASE ArrivalLockExpired
    <3> DEFINE cents == NoShowRefundCents(type, custIn, venueIn)
               f == [frame[h] EXCEPT !.amt = cents]
    <3>1. cents \in 0..Fee
      BY RefundsWithinFee DEF DataInv, ReservationTyped
    <3>2. pc' = [pc EXCEPT ![h] = "arrWrite"] /\ frame' = [frame EXCEPT ![h] = f]
      BY <1>3, <2>3 DEF ArrivalFind, Goto
    <3>3. f \in Frames
      BY <3>1, HandlerKnows, FrameWith
    <3>4. /\ f.op = frame[h].op /\ f.ret = frame[h].ret /\ f.pay = frame[h].pay
          /\ f.event = frame[h].event /\ f.target = frame[h].target
      BY HandlerKnows, FrameKeeps
    <3> HIDE DEF f
    <3>5. "arrWrite" \in Labels /\ "arrWrite" \in CleanupLabels
          /\ "arrWrite" \notin PayLabels /\ "arrWrite" \notin RefundLabels
      BY DEF Labels, CleanupLabels, PayLabels, RefundLabels
    <3>6. FrameGood("arrWrite", f)
      BY <2>2, <3>3, <3>4, <3>5, HandlerKnows DEF FrameGood
    <3>7. RefundGood("arrWrite", f, captured)
      BY <3>5 DEF RefundGood
    <3> QED
      BY <2>1, <3>2, <3>6, <3>7, HandlerMoves
  <2>4. CASE ~ArrivalLockExpired
    <3>1. Goto(h, "nightFind") /\ UNCHANGED frame
      BY <1>3, <2>4 DEF ArrivalFind
    <3>2. "nightFind" \in Labels /\ "nightFind" \notin PayLabels /\ "nightFind" \notin RefundLabels
      BY DEF Labels, PayLabels, RefundLabels
    <3> QED
      BY <2>1, <2>2, <3>1, <3>2, HandlerGoes
  <2> QED
    BY <2>3, <2>4
<1>4. CASE ArrivalWrite(h)
  <2>1. ReservationTyped'
    BY <1>4, HandlerKnows
       DEF ArrivalWrite, DataInv, ReservationTyped, bookingVars, Statuses, Terminal
  <2>2. DataInv' /\ UNCHANGED captured
    BY <1>4, <2>1, MoneyUntouched DEF ArrivalWrite
  <2>3. "nightFind" \in ReturnLabels /\ pc[h] \in CleanupLabels
    BY <1>4 DEF ArrivalWrite, ReturnLabels, CleanupLabels
  <2> QED
    BY <1>4, <2>2, <2>3, HandlerCalls DEF ArrivalWrite
<1>5. CASE NightFind(h)
  <2>1. DataInv' /\ UNCHANGED captured
    BY <1>5, AllUntouched DEF NightFind
  <2>2. pc[h] \in CleanupLabels
    BY <1>5 DEF NightFind, CleanupLabels
  <2>3. CASE NightLockExpired
    <3>1. Goto(h, "nightWrite") /\ UNCHANGED frame
      BY <1>5, <2>3 DEF NightFind
    <3>2. "nightWrite" \in Labels /\ "nightWrite" \notin PayLabels
          /\ "nightWrite" \notin RefundLabels
      BY DEF Labels, PayLabels, RefundLabels
    <3> QED
      BY <2>1, <2>2, <3>1, <3>2, HandlerGoes
  <2>4. CASE ~NightLockExpired
    BY <1>5, <2>1, <2>2, <2>4, CleanupEnds DEF NightFind
  <2> QED
    BY <2>3, <2>4
<1>6. CASE NightWrite(h)
  <2>1. ReservationTyped'
    BY <1>6 DEF NightWrite, DataInv, ReservationTyped, bookingVars, Statuses, Terminal
  <2>2. DataInv' /\ UNCHANGED captured
    BY <1>6, <2>1, MoneyUntouched DEF NightWrite
  <2>3. pc[h] \in CleanupLabels
    BY <1>6 DEF NightWrite, CleanupLabels
  <2> QED
    BY <1>6, <2>2, <2>3, CleanupEnds DEF NightWrite
<1> QED
  BY <1>1, <1>2, <1>3, <1>4, <1>5, <1>6 DEF Cleanup

\* A step that only decides where its handler goes next, or ends it.
LEMMA ReadPreserves ==
    ASSUME IInv, NEW h \in Handlers, DatabaseUnchanged,
           NEW l \in Labels \ (CleanupLabels \cup PayLabels \cup {"recordEvent", "setStatusWrite"}),
           (Goto(h, l) /\ UNCHANGED frame) \/ Finish(h)
    PROVE  IInv'
<1>1. DataInv' /\ UNCHANGED captured
  BY AllUntouched DEF IInv
<1>2. l \notin RefundLabels
  BY DEF PayLabels
<1> QED
  BY <1>1, <1>2, HandlerGoes, HandlerFinishes DEF IInv

\* Check-ins.
LEMMA CheckInPreserves ==
    ASSUME IInv, NEW h \in Handlers, CheckIn(h)
    PROVE  IInv'
<1>1. ASSUME NEW l, NEW new \in {"CHECKED_IN", "CHECK_IN_PENDING"}, CheckInWrite(h, l, new)
      PROVE  IInv'
  <2>1. ReservationTyped'
    BY <1>1 DEF CheckInWrite, IInv, DataInv, ReservationTyped, bookingVars, Statuses, Accepted,
                Seated, NoTime
  <2> QED
    BY <1>1, <2>1, MoneyUntouched, HandlerFinishes DEF CheckInWrite, IInv
<1>2. ASSUME NEW l, NEW allowed,
             NEW w \in {"checkInWrite", "customerCheckInWrite", "adminCustomerCheckInWrite",
                        "adminVenueCheckInWrite"},
             CheckInIf(h, l, allowed, w)
      PROVE  IInv'
  <2>1. w \in Labels \ (CleanupLabels \cup PayLabels \cup {"recordEvent", "setStatusWrite"})
    BY DEF Labels, CleanupLabels, PayLabels, RefundLabels
  <2>2. DatabaseUnchanged /\ ((Goto(h, w) /\ UNCHANGED frame) \/ Finish(h))
    BY <1>2 DEF CheckInIf
  <2> QED
    BY <2>1, <2>2, ReadPreserves
<1> QED
  BY <1>1, <1>2
     DEF CheckIn, CheckInRead, CustomerCheckInRead, AdminCustomerCheckInRead, AdminVenueCheckInRead

\* Paying back and voiding after a cancellation.
LEMMA PayBackGoes ==
    ASSUME ControlInv, UNCHANGED captured, NEW h \in Handlers, NEW cents, PayBackAndVoid(h, cents)
    PROVE  ControlInv'
<1>1. CASE cents > 0
  <2>1. "voidFind" \in ReturnLabels /\ "voidFind" \notin CleanupLabels
    BY DEF ReturnLabels, CleanupLabels
  <2> QED
    BY <1>1, <2>1, HandlerCalls DEF PayBackAndVoid
<1>2. CASE ~(cents > 0)
  <2>1. /\ "voidFind" \in Labels
        /\ "voidFind" \notin CleanupLabels \cup PayLabels \cup RefundLabels
    BY DEF Labels, CleanupLabels, PayLabels, RefundLabels
  <2> QED
    BY <1>2, <2>1, HandlerGoes DEF PayBackAndVoid
<1> QED
  BY <1>1, <1>2

\* Cancellations, declines, no-show reports and administrative writes.
LEMMA CancelPreserves ==
    ASSUME IInv, NEW h \in Handlers, Cancel(h)
    PROVE  IInv'
<1> USE DEF IInv
<1>1. CASE DeclineWrite(h)
  <2>1. ReservationTyped'
    BY <1>1 DEF DeclineWrite, DataInv, ReservationTyped, bookingVars, Statuses, Terminal
  <2>2. DataInv' /\ UNCHANGED captured
    BY <1>1, <2>1, MoneyUntouched DEF DeclineWrite
  <2>3. /\ "voidFind" \in Labels
        /\ "voidFind" \notin CleanupLabels \cup PayLabels \cup RefundLabels
    BY DEF Labels, CleanupLabels, PayLabels, RefundLabels
  <2> QED
    BY <1>1, <2>2, <2>3, HandlerGoes DEF DeclineWrite
<1>2. CASE CustomerCancelWrite(h)
  <2>1. ReservationTyped'
    BY <1>2, HandlerKnows
       DEF CustomerCancelWrite, DataInv, ReservationTyped, bookingVars, Statuses, Terminal
  <2> QED
    BY <1>2, <2>1, MoneyUntouched, PayBackGoes DEF CustomerCancelWrite
<1>3. CASE VenueCancelWrite(h)
  <2>1. ReservationTyped'
    BY <1>3, FeeAssumption
       DEF VenueCancelWrite, DataInv, ReservationTyped, bookingVars, Statuses, Terminal
  <2> QED
    BY <1>3, <2>1, MoneyUntouched, PayBackGoes DEF VenueCancelWrite
<1>4. CASE NoShowReportWrite(h)
  <2>1. ReservationTyped'
    BY <1>4 DEF NoShowReportWrite, DataInv, ReservationTyped, bookingVars, Statuses, Terminal
  <2> QED
    BY <1>4, <2>1, MoneyUntouched, HandlerFinishes DEF NoShowReportWrite
<1>5. CASE AdminRefundCancel(h)
  <2>1. ReservationTyped'
    BY <1>5 DEF AdminRefundCancel, CancelRow, DataInv, ReservationTyped, bookingVars, Statuses,
                Terminal
  <2> QED
    BY <1>5, <2>1, MoneyUntouched, HandlerFinishes DEF AdminRefundCancel, CancelRow
<1>6. CASE SetStatusWrite(h)
  <2>1. frame[h].target \in Statuses /\ frame[h].amt \in 0..Fee
    BY <1>6, HandlerKnows DEF SetStatusWrite, FrameGood
  <2>2. ReservationTyped'
    BY <1>6, <2>1 DEF SetStatusWrite, DataInv, ReservationTyped, bookingVars
  <2> QED
    BY <1>6, <2>2, MoneyUntouched, HandlerFinishes DEF SetStatusWrite
<1> QED
  BY <1>1, <1>2, <1>3, <1>4, <1>5, <1>6 DEF Cancel

\* The acceptance of a request.
LEMMA AcceptPreserves ==
    ASSUME IInv, NEW h \in Handlers, Accept(h)
    PROVE  IInv'
<1> USE DEF IInv
<1>1. CASE AcceptRead(h)
  <2>1. PICK l \in {"acceptExpire", "captureFind"} :
            DatabaseUnchanged /\ ((Goto(h, l) /\ UNCHANGED frame) \/ Finish(h))
    BY <1>1 DEF AcceptRead
  <2>2. l \in Labels \ (CleanupLabels \cup PayLabels \cup {"recordEvent", "setStatusWrite"})
    BY DEF Labels, CleanupLabels, PayLabels, RefundLabels
  <2> QED
    BY <2>1, <2>2, ReadPreserves
<1>2. CASE AcceptExpire(h)
  <2>1. ReservationTyped'
    BY <1>2 DEF AcceptExpire, DataInv, ReservationTyped, bookingVars, Statuses, Terminal
  <2>2. DataInv' /\ UNCHANGED captured
    BY <1>2, <2>1, MoneyUntouched DEF AcceptExpire
  <2>3. /\ "voidFind" \in Labels
        /\ "voidFind" \notin CleanupLabels \cup PayLabels \cup RefundLabels
    BY DEF Labels, CleanupLabels, PayLabels, RefundLabels
  <2> QED
    BY <1>2, <2>2, <2>3, HandlerGoes DEF AcceptExpire
<1>3. CASE AcceptWrite(h)
  <2>1. ReservationTyped'
    BY <1>3 DEF AcceptWrite, DataInv, ReservationTyped, bookingVars, Statuses, Accepted
  <2> QED
    BY <1>3, <2>1, MoneyUntouched, HandlerFinishes DEF AcceptWrite
<1> QED
  BY <1>1, <1>2, <1>3 DEF Accept

\* A step that changes payment statuses, checkouts or the provider, but no amount.
LEMMA AmountsUntouched ==
    ASSUME DataInv, ReservationTyped', PaymentsTyped', ProviderTyped',
           UNCHANGED <<captured, refunded, bookVars>>
    PROVE  DataInv'
BY DEF DataInv, BooksTyped, Booked, NotBooked, FullyBooked, bookVars

\* Marking a payment row.
LEMMA MarkPreserves ==
    ASSUME IInv, NEW h \in Handlers, NEW l \in PayLabels, NEW st \in PayStatuses, NEW n \in PayLabels,
           SetPayStatus(h, l, st, n), n \in RefundLabels => l \in RefundLabels
    PROVE  IInv'
<1>1. frame[h].pay \in Payments /\ pc[h] = l
  BY HandlerKnows DEF SetPayStatus
<1>2. ReservationTyped' /\ PaymentsTyped' /\ ProviderTyped'
  BY <1>1 DEF SetPayStatus, IInv, DataInv, ReservationTyped, PaymentsTyped, ProviderTyped,
              bookingVars, resVars, provVars
<1>3. DataInv' /\ UNCHANGED captured
  BY <1>2, AmountsUntouched DEF SetPayStatus, IInv
<1>4. n \in Labels /\ n \notin CleanupLabels /\ n # "recordEvent" /\ n # "setStatusWrite"
  BY DEF Labels, CleanupLabels, PayLabels, RefundLabels
<1>5. Goto(h, n) /\ UNCHANGED frame
  BY DEF SetPayStatus
<1> QED
  BY <1>1, <1>3, <1>4, <1>5, HandlerGoes DEF IInv

\* A call of the provider that moves one transaction, or fails.
LEMMA ProviderCallPreserves ==
    ASSUME IInv, NEW h \in Handlers, NEW n \in PayLabels \ {"refundMark"},
           pc[h] \in PayLabels, n \in RefundLabels => pc[h] \in RefundLabels,
           ProviderTyped',
           UNCHANGED <<now, bookingVars, resVars, payVars, bookVars>>,
           (Goto(h, n) /\ UNCHANGED frame) \/ Finish(h)
    PROVE  IInv'
<1>1. ReservationTyped' /\ PaymentsTyped' /\ UNCHANGED captured
  BY DEF IInv, DataInv, ReservationTyped, PaymentsTyped, bookingVars, resVars, payVars
<1>2. DataInv'
  BY <1>1, AmountsUntouched DEF IInv, payVars
<1>3. n \in Labels /\ n \notin CleanupLabels /\ n # "recordEvent" /\ n # "setStatusWrite"
  BY DEF Labels, CleanupLabels, PayLabels, RefundLabels
<1> QED
  BY <1>1, <1>2, <1>3, HandlerGoes, HandlerFinishes DEF IInv

\* The void of an inactive reservation's payment.
LEMMA VoidPreserves ==
    ASSUME IInv, NEW h \in Handlers, Void(h)
    PROVE  IInv'
<1> USE DEF IInv
<1> /\ {"voidLocal", "voidMark", "voidProvider", "voidWrite", "voidLedger"} \subseteq PayLabels
    /\ {"voidLocal", "voidMark", "voidProvider", "voidWrite", "voidLedger"} \cap RefundLabels = {}
  BY DEF PayLabels, RefundLabels
<1>1. CASE VoidFind(h)
  <2> DEFINE p == LatestIn({"AUTH_PENDING", "AUTHORIZED"})
  <2>1. DataInv' /\ UNCHANGED captured
    BY <1>1, AllUntouched DEF VoidFind
  <2>2. CASE p = NoPayment
    BY <1>1, <2>1, <2>2, HandlerReturns DEF VoidFind
  <2>3. CASE p # NoPayment
    <3>1. p \in Payments
      BY <2>3, LatestInFound DEF DataInv, PaymentsTyped
    <3> HIDE DEF p
    <3>2. PICK l \in {"voidLocal", "voidMark"} : Goto(h, l) /\ frame' = [frame EXCEPT ![h].pay = p]
      BY <1>1, <2>3 DEF VoidFind, p
    <3>3. l \in Labels
             /\ l \notin RefundLabels \cup CleanupLabels \cup {"recordEvent", "setStatusWrite"}
      BY DEF Labels, RefundLabels, CleanupLabels
    <3> QED
      BY <2>1, <3>1, <3>2, <3>3, HandlerTakes
  <2> QED
    BY <2>2, <2>3
<1>2. CASE VoidLocal(h) \/ VoidMark(h) \/ VoidWrite(h)
  <2>1. {"VOIDED", "VOID_PENDING"} \subseteq PayStatuses
    BY DEF PayStatuses
  <2> QED
    BY <1>2, <2>1, MarkPreserves DEF VoidLocal, VoidMark, VoidWrite
<1>3. CASE VoidProvider(h)
  <2>1. ProviderTyped'
    BY <1>3 DEF VoidProvider, DataInv, ProviderTyped, ProvStates
  <2>2. pc[h] = "voidProvider" /\ UNCHANGED <<now, bookingVars, resVars, payVars, bookVars>>
        /\ ((Goto(h, "voidWrite") /\ UNCHANGED frame) \/ Finish(h))
    BY <1>3 DEF VoidProvider
  <2>3. "voidWrite" # "refundMark"
    OBVIOUS
  <2> QED
    BY <2>1, <2>2, <2>3, ProviderCallPreserves
<1>4. CASE VoidLedger(h)
  <2> DEFINE p == frame[h].pay
             l == ledger[p]
             n == AddEntry(l, "PAYMENT_VOID", -Fee)
  <2>1. p \in Payments
    BY <1>4, HandlerKnows DEF VoidLedger
  <2>2. l \in Ledgers /\ "PAYMENT_VOID" \in EntryTypes /\ "PAYMENT_VOID" \notin CaptureTypes
        /\ CaptureTypes \subseteq EntryTypes /\ -Fee \in Int
    BY <2>1, FeeAssumption DEF DataInv, BooksTyped, EntryTypes, CaptureTypes
  <2>3. /\ n \in Ledgers
        /\ l.types \subseteq n.types /\ n.types \subseteq l.types \cup {"PAYMENT_VOID"}
        /\ \A t \in CaptureTypes : n.sum[t] = l.sum[t]
    BY <2>2, EntryAdded
  <2>4. ledger' = [ledger EXCEPT ![p] = n]
    BY <1>4 DEF VoidLedger
  <2> HIDE DEF n, l, p
  <2>5. UNCHANGED <<now, bookingVars, resVars, payVars, provVars, invoice, verified>>
    BY <1>4 DEF VoidLedger
  <2>6. ReservationTyped' /\ PaymentsTyped' /\ ProviderTyped' /\ UNCHANGED captured
    BY <2>5 DEF DataInv, ReservationTyped, PaymentsTyped, ProviderTyped,
                bookingVars, resVars, payVars, provVars
  <2>7. BooksTyped'
    BY <2>1, <2>3, <2>4, <2>5 DEF DataInv, BooksTyped
  <2>8. Booked'
    <3> SUFFICES ASSUME NEW q \in Payments
                 PROVE  NotBooked(q)' \/ FullyBooked(q)'
      BY DEF Booked
    <3>1. NotBooked(q) \/ FullyBooked(q)
      BY DEF DataInv, Booked
    <3>2. captured'[q] = captured[q] /\ refunded'[q] = refunded[q] /\ invoice'[q] = invoice[q]
      BY <2>5 DEF payVars
    <3>3. CASE q = p
      <4>1. ledger'[q] = n /\ l = ledger[q]
        BY <2>4, <3>3 DEF DataInv, BooksTyped, l
      <4>2. /\ "CUSTOMER_CAPTURE" \in CaptureTypes /\ "CHIN_CHIN_FEE" \in CaptureTypes
            /\ "VENUE_SHARE" \in CaptureTypes
        BY DEF CaptureTypes
      <4>3. CASE NotBooked(q)
        BY <2>2, <2>3, <3>2, <4>1, <4>3 DEF NotBooked
      <4>4. CASE FullyBooked(q)
        BY <2>2, <2>3, <3>2, <4>1, <4>2, <4>4 DEF FullyBooked
      <4> QED
        BY <3>1, <4>3, <4>4
    <3>4. CASE q # p
      <4>1. ledger'[q] = ledger[q]
        BY <2>4, <3>4 DEF DataInv, BooksTyped
      <4> QED
        BY <3>1, <3>2, <4>1 DEF NotBooked, FullyBooked
    <3> QED
      BY <3>3, <3>4
  <2> QED
    BY <1>4, <2>6, <2>7, <2>8, HandlerReturns DEF VoidLedger, DataInv
<1> QED
  BY <1>1, <1>2, <1>3, <1>4 DEF Void

\* The refund of a captured payment.  Only the transaction that books it moves
\* amounts, and its frame says that the payment was captured in full before.
LEMMA RefundPreserves ==
    ASSUME IInv, NEW h \in Handlers, Refund(h)
    PROVE  IInv'
<1> USE DEF IInv
<1>1. CASE RefundFind(h)
  <2> DEFINE p    == LatestIn({"CAPTURED", "PARTIALLY_REFUNDED"})
             next == SmallerOf(frame[h].amt, captured[p] - refunded[p])
             f    == [frame[h] EXCEPT !.pay = p, !.amt = next, !.snap = refunded[p]]
  <2>1. DataInv' /\ UNCHANGED captured
    BY <1>1, AllUntouched DEF RefundFind
  <2>2. CASE Return(h)
    BY <2>1, <2>2, HandlerReturns
  <2>3. CASE ~Return(h)
    <3>1. p # NoPayment /\ ~(next <= 0)
      BY <1>1, <2>3 DEF RefundFind
    <3>2. p \in Payments
      BY <3>1, LatestInFound DEF DataInv, PaymentsTyped
    <3>3. captured[p] \in 0..Fee /\ refunded[p] \in 0..Fee
      BY <3>2, FeeAssumption DEF DataInv, PaymentsTyped
    <3>4. next \in 0..Fee /\ refunded[p] + next <= captured[p]
      BY <3>1, <3>3, HandlerKnows, FeeAssumption DEF SmallerOf
    <3>5. pc' = [pc EXCEPT ![h] = "refundMark"] /\ frame' = [frame EXCEPT ![h] = f]
      BY <1>1, <2>3 DEF RefundFind, Goto
    <3> HIDE DEF p, next
    <3>6. FrameGood(pc[h], frame[h]) /\ frame[h] \in Frames
      BY HandlerKnows
    <3>7. f \in Frames
      <4> DEFINE a == [frame[h] EXCEPT !.pay = p]
                 b == [a EXCEPT !.amt = next]
      <4>1. a \in Frames
        BY <3>2, <3>6, FrameWith
      <4>2. b \in Frames
        BY <3>4, <4>1, FrameWith
      <4>3. [b EXCEPT !.snap = refunded[p]] \in Frames
        BY <3>3, <4>2, FrameWith
      <4> QED
        BY <4>3
    <3>8. /\ f.op = frame[h].op /\ f.ret = frame[h].ret /\ f.event = frame[h].event
          /\ f.pay = p /\ f.amt = next /\ f.snap = refunded[p]
      BY <3>6 DEF Frames
    <3> HIDE DEF f
    <3>9. "refundMark" \in Labels /\ "refundMark" \notin CleanupLabels
      BY DEF Labels, CleanupLabels
    <3>10. FrameGood("refundMark", f)
      BY <3>2, <3>6, <3>7, <3>8, <3>9 DEF FrameGood
    <3>11. RefundGood("refundMark", f, captured)
      BY <3>1, <3>3, <3>4, <3>8 DEF RefundGood
    <3> QED
      BY <2>1, <3>5, <3>10, <3>11, HandlerMoves
  <2> QED
    BY <2>2, <2>3
<1>2. CASE RefundMark(h)
  <2>1. /\ "refundMark" \in PayLabels /\ "refundProvider" \in PayLabels
        /\ "refundMark" \in RefundLabels /\ "REFUND_PENDING" \in PayStatuses
    BY DEF PayLabels, RefundLabels, PayStatuses
  <2> QED
    BY <1>2, <2>1, MarkPreserves DEF RefundMark
<1>3. CASE RefundProvider(h)
  <2> DEFINE p == frame[h].pay
  <2>1. pc[h] = "refundProvider" /\ "refundTx" \in PayLabels \ {"refundMark"}
        /\ "refundProvider" \in PayLabels /\ "refundProvider" \in RefundLabels
    BY <1>3 DEF RefundProvider, PayLabels, RefundLabels
  <2>2. p \in Payments /\ frame[h].amt \in 0..Fee
    BY <2>1, HandlerKnows
  <2>3. \/ /\ provRefunded[p] + frame[h].amt <= Fee
           /\ provRefunded' = [provRefunded EXCEPT ![p] = @ + frame[h].amt]
        \/ UNCHANGED provRefunded
    BY <1>3 DEF RefundProvider
  <2>4. ProviderTyped'
    BY <1>3, <2>2, <2>3, FeeAssumption DEF RefundProvider, DataInv, ProviderTyped
  <2>5. UNCHANGED <<now, bookingVars, resVars, payVars, bookVars>>
        /\ ((Goto(h, "refundTx") /\ UNCHANGED frame) \/ Finish(h))
    BY <1>3 DEF RefundProvider
  <2> QED
    BY <2>1, <2>4, <2>5, ProviderCallPreserves
<1>4. CASE RefundTx(h)
  <2> DEFINE p     == frame[h].pay
             total == frame[h].snap + frame[h].amt
             l     == ledger[p]
             e     == AddEntry(l, "CUSTOMER_REFUND", -frame[h].amt)
             n     == RefundAllocationEntries(e, captured[p], total)
  <2>1. pc[h] = "refundTx" /\ "refundTx" \in PayLabels /\ "refundTx" \in RefundLabels
    BY <1>4 DEF RefundTx, PayLabels, RefundLabels
  <2>2. /\ p \in Payments /\ frame[h].amt \in 0..Fee /\ frame[h].snap \in 0..Fee
        /\ frame[h].amt > 0 /\ total <= captured[p]
    BY <2>1, HandlerKnows DEF RefundGood
  <2>3. total \in Nat /\ total > 0 /\ captured[p] > 0 /\ Fee > 0 /\ total \in 0..Fee
    <3>1. captured[p] \in {0, Fee}
      BY <2>2 DEF DataInv, PaymentsTyped
    <3>2. total \in Nat /\ total > 0
      BY <2>2, FeeAssumption
    <3> QED
      BY <2>2, <3>1, <3>2, FeeAssumption
  <2>4. FullyBooked(p)
    BY <2>2, <2>3 DEF DataInv, Booked, NotBooked
  <2>5. l \in Ledgers /\ "CUSTOMER_REFUND" \in EntryTypes /\ "CUSTOMER_REFUND" \notin CaptureTypes
        /\ CaptureTypes \subseteq EntryTypes /\ -frame[h].amt \in Int
    BY <2>2 DEF DataInv, BooksTyped, EntryTypes, CaptureTypes
  <2>6. /\ e \in Ledgers /\ l.types \subseteq e.types
        /\ \A t \in CaptureTypes : e.sum[t] = l.sum[t]
    BY <2>5, EntryAdded
  <2>7. /\ e.sum["CUSTOMER_CAPTURE"] = Fee
        /\ e.sum["CHIN_CHIN_FEE"] >= 0 /\ e.sum["VENUE_SHARE"] >= 0
    BY <2>4, <2>6 DEF FullyBooked, CaptureTypes
  <2>8. captured[p] = Fee /\ captured[p] \in Nat
    BY <2>4, FeeAssumption DEF FullyBooked
  <2> HIDE DEF e
  <2>9. /\ n \in Ledgers /\ e.types \subseteq n.types
        /\ n.sum["CUSTOMER_CAPTURE"] = Fee
        /\ n.sum["CHIN_CHIN_FEE"] + n.sum["VENUE_SHARE"] = Fee - total
        /\ n.sum["CHIN_CHIN_FEE"] >= 0 /\ n.sum["VENUE_SHARE"] >= 0
    BY <2>2, <2>3, <2>6, <2>7, <2>8, RefundSplits
  <2>10. /\ ledger' = [ledger EXCEPT ![p] = n]
         /\ refunded' = [refunded EXCEPT ![p] = total]
         /\ payStatus' = [payStatus EXCEPT ![p] =
                            IF total >= captured[p] THEN "REFUNDED" ELSE "PARTIALLY_REFUNDED"]
         /\ invoice' = [invoice EXCEPT ![p] =
                            IF @ = "NONE" THEN @
                            ELSE IF total >= captured[p] THEN "REFUNDED" ELSE "PARTIALLY_REFUNDED"]
         /\ refundCents' = total
         /\ UNCHANGED <<now, bookingVars, status, confirmExp, custIn, venueIn, rows, captured,
                        checkouts, provVars, verified>>
         /\ Return(h)
    BY <1>4 DEF RefundTx, e
  <2>11. invoice'[p] = InvoiceStatus(Fee, total)
    <3>1. invoice[p] # "NONE"
      BY <2>3, <2>4 DEF FullyBooked, InvoiceStatus
    <3>2. invoice'[p] = IF total >= Fee THEN "REFUNDED" ELSE "PARTIALLY_REFUNDED"
      BY <2>2, <2>8, <2>10, <3>1 DEF DataInv, BooksTyped
    <3> QED
      BY <2>3, <3>2 DEF InvoiceStatus
  <2> HIDE DEF n, l, p, total
  <2>12. ReservationTyped'
    BY <2>3, <2>10 DEF DataInv, ReservationTyped, bookingVars
  <2>13. PaymentsTyped'
    BY <2>2, <2>3, <2>10 DEF DataInv, PaymentsTyped, PayStatuses
  <2>14. ProviderTyped'
    BY <2>10 DEF DataInv, ProviderTyped, provVars
  <2>15. BooksTyped'
    BY <2>2, <2>9, <2>10 DEF DataInv, BooksTyped, Invoices
  <2>16. Booked'
    <3> SUFFICES ASSUME NEW q \in Payments
                 PROVE  NotBooked(q)' \/ FullyBooked(q)'
      BY DEF Booked
    <3>1. CASE q = p
      <4>1. /\ ledger'[q] = n /\ refunded'[q] = total /\ captured'[q] = Fee
            /\ invoice'[q] = InvoiceStatus(Fee, total)
        BY <2>2, <2>8, <2>10, <2>11, <3>1 DEF DataInv, BooksTyped, PaymentsTyped
      <4>2. CaptureTypes \subseteq n.types
        BY <2>4, <2>6, <2>9 DEF FullyBooked, l
      <4> QED
        BY <2>9, <4>1, <4>2 DEF FullyBooked
    <3>2. CASE q # p
      <4>1. /\ ledger'[q] = ledger[q] /\ refunded'[q] = refunded[q] /\ captured'[q] = captured[q]
            /\ invoice'[q] = invoice[q]
        BY <2>10, <3>2 DEF DataInv, BooksTyped, PaymentsTyped
      <4> QED
        BY <4>1 DEF NotBooked, FullyBooked, DataInv, Booked
    <3> QED
      BY <3>1, <3>2
  <2> QED
    BY <2>10, <2>12, <2>13, <2>14, <2>15, <2>16, HandlerReturns DEF DataInv
<1> QED
  BY <1>1, <1>2, <1>3, <1>4 DEF Refund

\* The capture for an accepted reservation.  Its transaction books either a
\* payment nothing was booked for, or one that is booked already.
LEMMA CapturePreserves ==
    ASSUME IInv, NEW h \in Handlers, Capture(h)
    PROVE  IInv'
<1> USE DEF IInv
<1> /\ {"captureMark", "captureProvider", "captureTx"} \subseteq PayLabels
    /\ {"captureMark", "captureProvider", "captureTx"} \cap RefundLabels = {}
  BY DEF PayLabels, RefundLabels
<1>1. CASE CaptureFind(h)
  <2> DEFINE p == LatestIn({"AUTHORIZED"})
  <2>1. DatabaseUnchanged /\ DataInv' /\ UNCHANGED captured
    BY <1>1, AllUntouched DEF CaptureFind
  <2>2. CASE p = NoPayment
    <3>1. Goto(h, "acceptWrite") /\ UNCHANGED frame
      BY <1>1, <2>2 DEF CaptureFind
    <3>2. "acceptWrite" \in Labels
             \ (CleanupLabels \cup PayLabels \cup {"recordEvent", "setStatusWrite"})
      BY DEF Labels, CleanupLabels, PayLabels, RefundLabels
    <3> QED
      BY <2>1, <3>1, <3>2, ReadPreserves
  <2>3. CASE p # NoPayment
    <3>1. p \in Payments
      BY <2>3, LatestInFound DEF DataInv, PaymentsTyped
    <3>2. Goto(h, "captureMark") /\ frame' = [frame EXCEPT ![h].pay = p]
      BY <1>1, <2>3 DEF CaptureFind
    <3>3. "captureMark" \in Labels /\ "captureMark" \notin CleanupLabels
      BY DEF Labels, CleanupLabels
    <3> HIDE DEF p
    <3> QED
      BY <2>1, <3>1, <3>2, <3>3, HandlerTakes
  <2> QED
    BY <2>2, <2>3
<1>2. CASE CaptureMark(h)
  BY <1>2, MarkPreserves DEF CaptureMark, PayStatuses
<1>3. CASE CaptureProvider(h)
  <2>1. ProviderTyped'
    BY <1>3 DEF CaptureProvider, DataInv, ProviderTyped, ProvStates
  <2>2. pc[h] = "captureProvider" /\ UNCHANGED <<now, bookingVars, resVars, payVars, bookVars>>
        /\ ((Goto(h, "captureTx") /\ UNCHANGED frame) \/ Finish(h))
    BY <1>3 DEF CaptureProvider
  <2> QED
    BY <2>1, <2>2, ProviderCallPreserves
<1>4. CASE CaptureTx(h)
  <2> DEFINE p == frame[h].pay
             l == ledger[p]
  <2>1. p \in Payments /\ pc[h] = "captureTx"
    BY <1>4, HandlerKnows DEF CaptureTx
  <2>2. PICK isFirst \in BOOLEAN :
            ledger' = [ledger EXCEPT ![p] = CaptureEntries(@, ReservationAllocation(Fee, isFirst))]
    BY <1>4 DEF CaptureTx
  <2> DEFINE n == CaptureEntries(l, ReservationAllocation(Fee, isFirst))
  <2>3. /\ ledger' = [ledger EXCEPT ![p] = n]
        /\ payStatus' = [payStatus EXCEPT ![p] = "CAPTURED"]
        /\ captured' = [captured EXCEPT ![p] = Fee]
        /\ invoice' = [invoice EXCEPT ![p] = IF Fee <= 0 THEN @ ELSE InvoiceStatus(Fee, refunded[p])]
        /\ Goto(h, "acceptWrite")
        /\ UNCHANGED <<frame, now, bookingVars, resVars, rows, refunded, checkouts, provVars, verified>>
    BY <1>4, <2>2 DEF CaptureTx
  <2>4. l \in Ledgers /\ refunded[p] \in 0..Fee /\ captured[p] \in {0, Fee}
    BY <2>1 DEF DataInv, BooksTyped, PaymentsTyped
  <2>5. /\ n \in Ledgers /\ CaptureTypes \subseteq n.types
        /\ n.sum["CUSTOMER_CAPTURE"] = Fee
        /\ n.sum["CHIN_CHIN_FEE"] + n.sum["VENUE_SHARE"] = Fee - refunded[p]
        /\ n.sum["CHIN_CHIN_FEE"] >= 0 /\ n.sum["VENUE_SHARE"] >= 0
    <3>1. CASE NotBooked(p)
      <4>1. /\ n \in Ledgers /\ CaptureTypes \subseteq n.types
            /\ n.sum["CUSTOMER_CAPTURE"] = Fee
            /\ n.sum["CHIN_CHIN_FEE"] + n.sum["VENUE_SHARE"] = Fee
            /\ n.sum["CHIN_CHIN_FEE"] >= 0 /\ n.sum["VENUE_SHARE"] >= 0
        BY <2>4, <3>1, FirstCapture DEF NotBooked
      <4>2. refunded[p] = 0
        BY <3>1 DEF NotBooked
      <4> QED
        BY <4>1, <4>2, FeeAssumption
    <3>2. CASE FullyBooked(p)
      <4>1. n = [types |-> l.types, sum |-> [t \in EntryTypes |-> l.sum[t]]]
        BY <2>4, <3>2, CaptureBookedOnce DEF FullyBooked
      <4>2. n = l
        BY <2>4, <4>1 DEF Ledgers
      <4> HIDE DEF n
      <4> QED
        BY <2>4, <3>2, <4>2 DEF FullyBooked
    <3> QED
      BY <2>1, <3>1, <3>2 DEF DataInv, Booked
  <2> HIDE DEF n, l, p
  <2>6. ReservationTyped' /\ ProviderTyped'
    BY <2>3 DEF DataInv, ReservationTyped, ProviderTyped, bookingVars, resVars, provVars
  <2>7. PaymentsTyped'
    BY <2>1, <2>3 DEF DataInv, PaymentsTyped, PayStatuses
  <2>8. BooksTyped'
    BY <2>1, <2>3, <2>5 DEF DataInv, BooksTyped, Invoices, InvoiceStatus
  <2>9. Booked'
    <3> SUFFICES ASSUME NEW q \in Payments
                 PROVE  NotBooked(q)' \/ FullyBooked(q)'
      BY DEF Booked
    <3>1. CASE q = p
      <4>1. /\ ledger'[q] = n /\ captured'[q] = Fee /\ refunded'[q] = refunded[p]
            /\ Fee > 0 => invoice'[q] = InvoiceStatus(Fee, refunded[p])
        BY <2>1, <2>3, <3>1, FeeAssumption DEF DataInv, BooksTyped, PaymentsTyped
      <4> QED
        BY <2>5, <4>1 DEF FullyBooked
    <3>2. CASE q # p
      <4>1. /\ ledger'[q] = ledger[q] /\ refunded'[q] = refunded[q] /\ captured'[q] = captured[q]
            /\ invoice'[q] = invoice[q]
        BY <2>3, <3>2 DEF DataInv, BooksTyped, PaymentsTyped
      <4> QED
        BY <4>1 DEF NotBooked, FullyBooked, DataInv, Booked
    <3> QED
      BY <3>1, <3>2
  <2>10. ControlInv'
    <3>1. \A k \in Handlers : pc'[k] = (IF k = h THEN "acceptWrite" ELSE pc[k]) /\ frame'[k] = frame[k]
      BY <2>3 DEF Goto, ControlInv, HandlersTyped
    <3>2. "acceptWrite" \in Labels
             \ (CleanupLabels \cup PayLabels \cup RefundLabels \cup {"recordEvent", "setStatusWrite"})
      BY DEF Labels, CleanupLabels, PayLabels, RefundLabels
    <3>3. HandlersTyped'
      BY <2>3, <3>2 DEF Goto, ControlInv, HandlersTyped
    <3>4. FramesGood'
      <4>1. \A k \in Handlers : FrameGood(pc[k], frame[k])
        BY DEF ControlInv, FramesGood
      <4>2. \A k \in Handlers : FrameGood(pc'[k], frame'[k])
        BY <3>1, <3>2, <4>1 DEF FrameGood
      <4> QED
        BY <4>2 DEF FramesGood
    <3>5. RefundsGood'
      <4> SUFFICES ASSUME NEW k \in Handlers, pc'[k] \in RefundLabels
                   PROVE  frame'[k].amt > 0
                          /\ frame'[k].snap + frame'[k].amt <= captured'[frame'[k].pay]
        BY DEF RefundsGood, RefundGood
      <4>1. pc[k] \in RefundLabels /\ frame'[k] = frame[k]
        BY <3>1, <3>2
      <4>2. /\ frame[k].amt > 0 /\ frame[k].snap + frame[k].amt <= captured[frame[k].pay]
            /\ frame[k].amt \in 0..Fee /\ frame[k].snap \in 0..Fee /\ frame[k].pay \in Payments
        BY <4>1, HandlerKnows DEF RefundGood, PayLabels
      <4>3. captured[frame[k].pay] \in {0, Fee}
            /\ captured'[frame[k].pay] \in {captured[frame[k].pay], Fee}
        BY <2>3, <4>2 DEF DataInv, PaymentsTyped
      <4> QED
        BY <4>1, <4>2, <4>3, FeeAssumption
    <3> QED
      BY <3>3, <3>4, <3>5 DEF ControlInv
  <2> QED
    BY <2>6, <2>7, <2>8, <2>9, <2>10 DEF DataInv
<1> QED
  BY <1>1, <1>2, <1>3, <1>4 DEF Capture

\* After an assertion the notification handler records its event.
LEMMA AfterAssertGoes ==
    ASSUME ControlInv, UNCHANGED captured, NEW h \in Handlers, AfterAssert(h)
    PROVE  ControlInv'
<1>1. CASE frame[h].op = "notify"
  <2>1. /\ "recordEvent" \in Labels
        /\ "recordEvent" \notin CleanupLabels \cup PayLabels \cup RefundLabels
    BY DEF Labels, CleanupLabels, PayLabels, RefundLabels
  <2> QED
    BY <1>1, <2>1, HandlerGoes DEF AfterAssert
<1>2. CASE frame[h].op # "notify"
  BY <1>2, HandlerFinishes DEF AfterAssert
<1> QED
  BY <1>1, <1>2

\* Checkouts, assertions and notifications.
LEMMA AuthorizePreserves ==
    ASSUME IInv, NEW h \in Handlers, Authorize(h)
    PROVE  IInv'
<1> USE DEF IInv
<1> /\ {"checkoutCreate", "assertProvider", "claim"} \subseteq PayLabels
    /\ {"checkoutCreate", "assertProvider", "claim"} \cap RefundLabels = {}
    /\ {"checkoutCreate", "assertProvider", "claim"} \subseteq Labels
    /\ {"checkoutCreate", "assertProvider", "claim"} \cap CleanupLabels = {}
  BY DEF PayLabels, RefundLabels, Labels, CleanupLabels
<1>1. CASE CheckoutProvider(h)
  <2>1. ProviderTyped'
    BY <1>1 DEF CheckoutProvider, DataInv, ProviderTyped, ProvStates
  <2>2. UNCHANGED <<now, bookingVars, resVars, payVars, provRefunded, bookVars>>
    BY <1>1 DEF CheckoutProvider
  <2>3. ReservationTyped' /\ PaymentsTyped' /\ UNCHANGED captured
    BY <2>2 DEF DataInv, ReservationTyped, PaymentsTyped, bookingVars, resVars, payVars
  <2>4. DataInv'
    BY <2>1, <2>2, <2>3, AmountsUntouched DEF payVars
  <2>5. CASE Finish(h)
    BY <2>3, <2>4, <2>5, HandlerFinishes
  <2>6. CASE ~Finish(h)
    <3>1. PICK p \in Payments : Goto(h, "checkoutCreate") /\ frame' = [frame EXCEPT ![h].pay = p]
      BY <1>1, <2>6 DEF CheckoutProvider
    <3> QED
      BY <2>3, <2>4, <3>1, HandlerTakes
  <2> QED
    BY <2>5, <2>6
<1>2. CASE CheckoutCreate(h)
  <2>1. frame[h].pay \in Payments /\ pc[h] = "checkoutCreate"
    BY <1>2, HandlerKnows DEF CheckoutCreate
  <2>2. ReservationTyped'
    BY <1>2 DEF CheckoutCreate, DataInv, ReservationTyped, bookingVars, Statuses
  <2>3. PaymentsTyped'
    <3>1. rows' \in Seq(Payments)
      BY <1>2, <2>1 DEF CheckoutCreate, DataInv, PaymentsTyped
    <3>2. payStatus' \in [Payments -> PayStatuses] /\ checkouts' \subseteq Payments
          /\ UNCHANGED <<captured, refunded>>
      BY <1>2, <2>1 DEF CheckoutCreate, DataInv, PaymentsTyped, PayStatuses
    <3> QED
      BY <3>1, <3>2 DEF DataInv, PaymentsTyped
  <2>4. ProviderTyped' /\ UNCHANGED captured
    BY <1>2 DEF CheckoutCreate, DataInv, ProviderTyped, provVars
  <2>5. DataInv'
    BY <1>2, <2>2, <2>3, <2>4, AmountsUntouched DEF CheckoutCreate
  <2>6. (Goto(h, "claim") /\ UNCHANGED frame) \/ Finish(h)
    BY <1>2 DEF CheckoutCreate
  <2> QED
    BY <2>1, <2>4, <2>5, <2>6, HandlerGoes, HandlerFinishes
<1>3. CASE AssertRead(h)
  <2> DEFINE p == LatestIn(PayStatuses)
  <2>1. DataInv' /\ UNCHANGED captured
    BY <1>3, AllUntouched DEF AssertRead
  <2>2. CASE Finish(h) \/ AfterAssert(h)
    BY <2>1, <2>2, HandlerFinishes, AfterAssertGoes
  <2>3. CASE ~(Finish(h) \/ AfterAssert(h))
    <3>1. p # NoPayment /\ Goto(h, "assertProvider") /\ frame' = [frame EXCEPT ![h].pay = p]
      BY <1>3, <2>3 DEF AssertRead
    <3>2. p \in Payments
      BY <3>1, LatestInFound DEF DataInv, PaymentsTyped
    <3> HIDE DEF p
    <3> QED
      BY <2>1, <3>1, <3>2, HandlerTakes
  <2> QED
    BY <2>2, <2>3
<1>4. CASE AssertProvider(h)
  <2>1. DataInv' /\ UNCHANGED captured
    BY <1>4, AllUntouched DEF AssertProvider
  <2>2. pc[h] = "assertProvider" /\ ((Goto(h, "claim") /\ UNCHANGED frame) \/ Finish(h))
    BY <1>4 DEF AssertProvider
  <2> QED
    BY <2>1, <2>2, HandlerGoes, HandlerFinishes
<1>5. CASE Claim(h)
  <2>1. frame[h].pay \in Payments
    BY <1>5, HandlerKnows DEF Claim
  <2>2. ReservationTyped'
    BY <1>5, BoundAssumption
       DEF Claim, DataInv, ReservationTyped, bookingVars, Statuses
  <2>3. PaymentsTyped' /\ ProviderTyped' /\ UNCHANGED captured
    BY <1>5, <2>1
       DEF Claim, DataInv, PaymentsTyped, ProviderTyped, PayStatuses, provVars
  <2>4. DataInv'
    BY <1>5, <2>2, <2>3, AmountsUntouched DEF Claim
  <2> QED
    BY <1>5, <2>3, <2>4, AfterAssertGoes DEF Claim
<1>6. CASE RecordEvent(h)
  <2>1. frame[h].event \in Payments
    BY <1>6, HandlerKnows DEF RecordEvent, FrameGood
  <2>2. ReservationTyped' /\ PaymentsTyped' /\ ProviderTyped' /\ UNCHANGED captured
    BY <1>6 DEF RecordEvent, DataInv, ReservationTyped, PaymentsTyped, ProviderTyped,
                bookingVars, resVars, payVars, provVars
  <2>3. BooksTyped'
    BY <1>6, <2>1 DEF RecordEvent, DataInv, BooksTyped
  <2>4. Booked'
    BY <1>6 DEF RecordEvent, DataInv, Booked, NotBooked, FullyBooked, payVars
  <2> QED
    BY <1>6, <2>2, <2>3, <2>4, HandlerFinishes DEF RecordEvent, DataInv
<1> QED
  BY <1>1, <1>2, <1>3, <1>4, <1>5, <1>6 DEF Authorize

\* A request or the timer begins.
LEMMA BeginPreserves ==
    ASSUME IInv, NEW h \in Handlers, Begin(h)
    PROVE  IInv'
<1> USE DEF IInv
<1> /\ {"checkoutProvider", "assertRead", "declineWrite", "customerCancelWrite", "venueCancelWrite",
        "noShowWrite", "refundFind", "setStatusWrite"} \subseteq Labels
    /\ {"checkoutProvider", "assertRead", "declineWrite", "customerCancelWrite", "venueCancelWrite",
        "noShowWrite", "refundFind", "setStatusWrite"}
          \cap (PayLabels \cup RefundLabels \cup CleanupLabels) = {}
  BY DEF Labels, PayLabels, RefundLabels, CleanupLabels
<1>1. CASE CleanupBegin(h)
  <2>1. DataInv' /\ UNCHANGED captured
    BY <1>1, AllUntouched DEF CleanupBegin
  <2>2. PICK o \in DOMAIN AfterCleanup : frame' = [frame EXCEPT ![h].op = o]
    BY <1>1 DEF CleanupBegin
  <2> DEFINE f == [frame[h] EXCEPT !.op = o]
  <2>3. o \in AllOps \cup {"none", "cleanup"} /\ o # "notify"
    BY DEF AfterCleanup, AllOps
  <2>4. FrameGood(pc[h], frame[h]) /\ frame[h] \in Frames
    BY HandlerKnows
  <2>5. f \in Frames
    BY <2>3, <2>4, FrameWith
  <2>6. /\ f.op = o /\ f.ret = frame[h].ret /\ f.pay = frame[h].pay
        /\ f.event = frame[h].event /\ f.target = frame[h].target
    BY <2>4, FrameKeeps
  <2>7. pc' = [pc EXCEPT ![h] = "expFind"] /\ frame' = [frame EXCEPT ![h] = f]
    BY <1>1, <2>2 DEF CleanupBegin, Goto
  <2> HIDE DEF f
  <2>8. "expFind" \in Labels /\ "expFind" \notin PayLabels \cup RefundLabels
    BY DEF Labels, PayLabels, RefundLabels
  <2>9. FrameGood("expFind", f) /\ RefundGood("expFind", f, captured)
    BY <2>3, <2>4, <2>5, <2>6, <2>8 DEF FrameGood, RefundGood
  <2> QED
    BY <2>1, <2>7, <2>9, HandlerMoves
<1>2. ASSUME DatabaseUnchanged, NEW o \in AllOps \ {"notify"},
             NEW l \in {"checkoutProvider", "assertRead", "declineWrite", "customerCancelWrite",
                        "venueCancelWrite", "noShowWrite"},
             NEW c \in 0..Fee, BeginAt(h, o, l, [IdleFrame EXCEPT !.amt = c])
      PROVE  IInv'
  <2> DEFINE f == [IdleFrame EXCEPT !.amt = c]
  <2>1. f \in Frames
    BY IdleFrameGood, FrameWith
  <2>2. f.ret = "idle"
    BY IdleFrameGood, FrameKeeps
  <2> HIDE DEF f
  <2>3. DataInv' /\ UNCHANGED captured
    BY <1>2, AllUntouched
  <2>4. BeginAt(h, o, l, f)
    BY <1>2 DEF f
  <2> QED
    BY <2>1, <2>2, <2>3, <2>4, HandlerBegins
<1>3. 0 \in 0..Fee /\ Fee \in 0..Fee /\ IdleFrame = [IdleFrame EXCEPT !.amt = 0]
  BY FeeAssumption DEF IdleFrame
<1>4. CASE CheckoutBegin(h, "checkout") \/ CheckoutBegin(h, "payStored")
  <2>1. {"checkout", "payStored"} \subseteq AllOps \ {"notify"}
    BY DEF AllOps
  <2> QED
    BY <1>2, <1>3, <1>4, <2>1 DEF CheckoutBegin
<1>5. CASE AssertBegin(h) \/ DeclineBegin(h) \/ NoShowReportBegin(h)
  <2>1. {"assert", "decline", "noShowReport"} \subseteq AllOps \ {"notify"}
    BY DEF AllOps
  <2> QED
    BY <1>2, <1>3, <1>5, <2>1 DEF AssertBegin, DeclineBegin, NoShowReportBegin
<1>6. CASE CustomerCancelBegin(h)
  <2> DEFINE c == IF status \in {"REQUESTED", "PENDING_VENUE_CONFIRMATION"} THEN 0
                  ELSE CustomerCancellationRefundCents(status, custIn, now)
  <2>1. c \in 0..Fee
    BY <1>3, RefundsWithinFee DEF DataInv, ReservationTyped
  <2>2. DatabaseUnchanged
        /\ BeginAt(h, "cancelByCustomer", "customerCancelWrite", [IdleFrame EXCEPT !.amt = c])
    BY <1>6 DEF CustomerCancelBegin
  <2>3. "cancelByCustomer" \in AllOps \ {"notify"}
    BY DEF AllOps
  <2> HIDE DEF c
  <2> QED
    BY <1>2, <2>1, <2>2, <2>3
<1>7. CASE VenueCancelBegin(h)
  <2>1. "cancelByVenue" \in AllOps \ {"notify"}
    BY DEF AllOps
  <2> QED
    BY <1>2, <1>3, <1>7, <2>1 DEF VenueCancelBegin
<1>8. ASSUME NEW p \in Payments, NotifyBegin(h, p)
      PROVE  IInv'
  <2> DEFINE f == [IdleFrame EXCEPT !.event = p]
  <2>1. f \in Frames
    BY IdleFrameGood, FrameWith
  <2>2. f.ret = "idle" /\ f.event = p
    BY DEF IdleFrame
  <2> HIDE DEF f
  <2>3. DataInv' /\ UNCHANGED captured
    BY <1>8, AllUntouched DEF NotifyBegin
  <2>4. BeginAt(h, "notify", "assertRead", f)
    BY <1>8 DEF NotifyBegin, f
  <2> QED
    BY <2>1, <2>2, <2>3, <2>4, HandlerBegins
<1>9. CASE ProblemResolved(h)
  <2>1. ReservationTyped'
    BY <1>9 DEF ProblemResolved, DataInv, ReservationTyped, bookingVars, Statuses, Terminal
  <2>2. DataInv' /\ UNCHANGED captured /\ UNCHANGED handlerVars
    BY <1>9, <2>1, MoneyUntouched DEF ProblemResolved
  <2> QED
    BY <2>2 DEF ControlInv, HandlersTyped, FramesGood, RefundsGood, handlerVars
<1>10. CASE AdminCancel(h)
  <2>1. ReservationTyped'
    BY <1>10 DEF AdminCancel, CancelRow, DataInv, ReservationTyped, bookingVars, Statuses, Terminal
  <2>2. DataInv' /\ UNCHANGED captured /\ UNCHANGED handlerVars
    BY <1>10, <2>1, MoneyUntouched DEF AdminCancel, CancelRow
  <2> QED
    BY <2>2 DEF ControlInv, HandlersTyped, FramesGood, RefundsGood, handlerVars
<1>11. CASE AdminRefundBegin(h)
  <2> DEFINE p == LatestIn({"CAPTURED", "PARTIALLY_REFUNDED"})
  <2>1. p # NoPayment
    BY <1>11 DEF AdminRefundBegin
  <2>2. p \in Payments
    BY <2>1, LatestInFound DEF DataInv, PaymentsTyped
  <2>3. PICK asked \in RefundAmounts :
            /\ SmallerOf(asked, captured[p] - refunded[p]) > 0
            /\ BeginAt(h, "adminRefund", "refundFind",
                       [IdleFrame EXCEPT !.amt = SmallerOf(asked, captured[p] - refunded[p]),
                                         !.ret = "cancelWrite"])
    BY <1>11 DEF AdminRefundBegin
  <2> DEFINE c == SmallerOf(asked, captured[p] - refunded[p])
             e == [IdleFrame EXCEPT !.amt = c]
             f == [IdleFrame EXCEPT !.amt = c, !.ret = "cancelWrite"]
  <2> HIDE DEF p
  <2>4. captured[p] \in 0..Fee /\ refunded[p] \in 0..Fee /\ asked \in Nat
    BY <2>2, FeeAssumption, BoundAssumption DEF DataInv, PaymentsTyped
  <2>5. c \in 0..Fee
    BY <2>3, <2>4, FeeAssumption DEF SmallerOf
  <2> HIDE DEF c
  <2>6. e \in Frames
    BY <2>5, IdleFrameGood, FrameWith
  <2>7. "cancelWrite" \in Labels
    BY DEF Labels
  <2>8. f \in Frames /\ f.ret = "cancelWrite"
    <3>1. f = [e EXCEPT !.ret = "cancelWrite"]
      OBVIOUS
    <3> HIDE DEF e, f
    <3> QED
      BY <2>6, <2>7, <3>1, FrameWith, FrameKeeps
  <2>9. BeginAt(h, "adminRefund", "refundFind", f)
    BY <2>3 DEF c
  <2>10. DataInv' /\ UNCHANGED captured
    BY <1>11, AllUntouched DEF AdminRefundBegin
  <2> HIDE DEF e, f
  <2> QED
    BY <2>8, <2>9, <2>10, HandlerBegins
<1>12. CASE SetStatusBegin(h)
  <2>1. DataInv' /\ UNCHANGED captured
    BY <1>12, AllUntouched DEF SetStatusBegin
  <2> DEFINE cents(t) == CASE t \in {"CANCELLED", "CANCELLED_BY_USER"} ->
                                RefundForCancellation(type, status)
                           [] t = "NO_SHOW" -> NoShowRefundCents(type, custIn, venueIn)
                           [] OTHER -> 0
  <2>2. PICK target \in AdminTargets :
            BeginAt(h, "setStatus", "setStatusWrite",
                    [IdleFrame EXCEPT !.target = target, !.amt = cents(target)])
    BY <1>12 DEF SetStatusBegin
  <2>3. target \in Statuses
    BY BoundAssumption
  <2>4. cents(target) \in 0..Fee
    BY <1>3, RefundsWithinFee DEF DataInv, ReservationTyped
  <2> HIDE DEF cents
  <2> DEFINE e == [IdleFrame EXCEPT !.target = target]
             f == [IdleFrame EXCEPT !.target = target, !.amt = cents(target)]
  <2>5. e \in Frames
    BY <2>3, IdleFrameGood, FrameWith
  <2>6. e.target = target /\ e.ret = "idle"
    BY DEF IdleFrame
  <2>7. f = [e EXCEPT !.amt = cents(target)]
    OBVIOUS
  <2>8. BeginAt(h, "setStatus", "setStatusWrite", f)
    BY <2>2
  <2> HIDE DEF e, f
  <2>9. f \in Frames /\ f.target = target /\ f.ret = "idle"
    BY <2>4, <2>5, <2>6, <2>7, FrameWith, FrameKeeps
  <2> QED
    BY <2>1, <2>3, <2>8, <2>9, HandlerBegins
<1> QED
  BY <1>1, <1>4, <1>5, <1>6, <1>7, <1>8, <1>9, <1>10, <1>11, <1>12 DEF Begin

-----------------------------------------------------------------------------
(* The invariant holds in every reachable state.                           *)

\* It holds when the reservation has been made.
LEMMA InitInv == Init => IInv
<1> SUFFICES ASSUME Init PROVE IInv
  OBVIOUS
<1>1. ReservationTyped
  <2>1. createdAt \in BookingTimes /\ now = createdAt /\ type \in Types
    BY IdentityAssumption DEF Init
  <2>2. now \in Nat
    BY <2>1, BoundAssumption
  <2>3. status \in Statuses /\ confirmExp = NoTime /\ custIn \in BOOLEAN /\ venueIn \in BOOLEAN
    BY DEF Init, Statuses
  <2>4. refundCents \in 0..Fee
    BY FeeAssumption DEF Init
  <2> QED
    BY <2>1, <2>2, <2>3, <2>4 DEF ReservationTyped
<1>2. PaymentsTyped
  <2>1. rows \in Seq(Payments)
    BY DEF Init
  <2>2. payStatus \in [Payments -> PayStatuses]
    BY DEF Init, PayStatuses
  <2>3. captured \in [Payments -> {0, Fee}] /\ refunded \in [Payments -> 0..Fee]
    BY FeeAssumption DEF Init
  <2> QED
    BY <2>1, <2>2, <2>3 DEF Init, PaymentsTyped
<1>3. ProviderTyped
  BY FeeAssumption DEF Init, ProviderTyped, ProvStates
<1>4. BooksTyped
  <2>1. EmptyLedger \in Ledgers
    BY DEF EmptyLedger, Ledgers
  <2> QED
    BY <2>1 DEF Init, BooksTyped, Invoices
<1>5. Booked
  <2> SUFFICES ASSUME NEW p \in Payments PROVE NotBooked(p)
    BY DEF Booked
  <2>1. ledger[p] = EmptyLedger /\ captured[p] = 0 /\ refunded[p] = 0
    BY DEF Init
  <2>2. EmptyLedger.types = {} /\ \A t \in CaptureTypes : EmptyLedger.sum[t] = 0
    BY DEF EmptyLedger, EntryTypes
  <2> QED
    BY <2>1, <2>2 DEF NotBooked
<1>6. HandlersTyped /\ FramesGood
  BY IdleFrameGood DEF Init, HandlersTyped, FramesGood, FrameGood
<1>7. RefundsGood
  BY DEF Init, RefundsGood, RefundGood, RefundLabels
<1> QED
  BY <1>1, <1>2, <1>3, <1>4, <1>5, <1>6, <1>7 DEF IInv, DataInv, ControlInv

\* Every step of a handler, the guest, the clock or a crash preserves it.
LEMMA NextInv == IInv /\ [Next]_vars => IInv'
<1> SUFFICES ASSUME IInv, [Next]_vars PROVE IInv'
  OBVIOUS
<1>1. ASSUME NEW h \in Handlers, Begin(h) PROVE IInv'
  BY <1>1, BeginPreserves
<1>2. ASSUME NEW h \in Handlers, Step(h) PROVE IInv'
  BY <1>2, CleanupPreserves, AuthorizePreserves, AcceptPreserves, CapturePreserves, VoidPreserves,
     RefundPreserves, CancelPreserves, CheckInPreserves DEF Step
<1>3. ASSUME NEW h \in Handlers, Crash(h) PROVE IInv'
  BY <1>3, AllUntouched, HandlerFinishes DEF Crash, IInv
<1>4. ASSUME NEW p \in Payments, GuestPays(p) PROVE IInv'
  <2>1. ReservationTyped' /\ PaymentsTyped' /\ ProviderTyped' /\ UNCHANGED captured
    BY <1>4 DEF GuestPays, IInv, DataInv, ReservationTyped, PaymentsTyped, ProviderTyped, ProvStates,
                bookingVars, resVars, payVars
  <2>2. DataInv' /\ UNCHANGED handlerVars
    BY <1>4, <2>1, AmountsUntouched DEF GuestPays, IInv, payVars
  <2>3. ControlInv'
    BY <2>1, <2>2 DEF IInv, ControlInv, HandlersTyped, FramesGood, RefundsGood, handlerVars
  <2> QED
    BY <2>2, <2>3 DEF IInv
<1>5. CASE Tick
  <2>1. ReservationTyped'
    BY <1>5 DEF Tick, IInv, DataInv, ReservationTyped, bookingVars, resVars
  <2>2. DataInv' /\ UNCHANGED captured
    BY <1>5, <2>1, MoneyUntouched DEF Tick, IInv
  <2> QED
    BY <1>5, <2>2
       DEF Tick, IInv, ControlInv, HandlersTyped, FramesGood, RefundsGood, handlerVars
<1>6. CASE UNCHANGED vars
  <2>1. DataInv' /\ UNCHANGED captured
    BY <1>6, AllUntouched DEF vars, DatabaseUnchanged, IInv
  <2> QED
    BY <1>6, <2>1
       DEF vars, IInv, ControlInv, HandlersTyped, FramesGood, RefundsGood, handlerVars
<1> QED
  BY <1>1, <1>2, <1>3, <1>4, <1>5, <1>6 DEF Next

\* The inductive invariant holds in every reachable state.
THEOREM Invariance == Spec => []IInv
BY InitInv, NextInv, PTL DEF Spec

\* Every column and every local variable stays in its range: however refunds,
\* no-shows and cancellations interleave, fail and die, no amount exceeds the fee.
THEOREM TypeCorrect == Spec => []TypeOK
<1>1. IInv => TypeOK
  BY DEF IInv, DataInv, ControlInv, TypeOK
<1> QED
  BY <1>1, Invariance, PTL

\* What the ledger credits to Chin-Chin and the venue is what was captured less
\* what was refunded, for every fee and every pair of commissions.
THEOREM LedgerAlwaysBalanced == Spec => []LedgerBalanced
<1>1. IInv => LedgerBalanced
  <2> SUFFICES ASSUME IInv, NEW p \in Payments
               PROVE  /\ ledger[p].sum["CUSTOMER_CAPTURE"] = captured[p]
                      /\ ledger[p].sum["CHIN_CHIN_FEE"] + ledger[p].sum["VENUE_SHARE"]
                            = captured[p] - refunded[p]
                      /\ ledger[p].sum["CHIN_CHIN_FEE"] >= 0 /\ ledger[p].sum["VENUE_SHARE"] >= 0
    BY DEF LedgerBalanced
  <2>1. CASE NotBooked(p)
    BY <2>1 DEF NotBooked, CaptureTypes
  <2>2. CASE FullyBooked(p)
    BY <2>2 DEF FullyBooked
  <2> QED
    BY <2>1, <2>2 DEF IInv, DataInv, Booked
<1> QED
  BY <1>1, Invariance, PTL

\* The customer's invoice always says what the payment row says.
THEOREM InvoiceAlwaysAgrees == Spec => []InvoiceAgrees
<1>1. IInv => InvoiceAgrees
  <2> SUFFICES ASSUME IInv, NEW p \in Payments, captured[p] > 0
               PROVE  invoice[p] = InvoiceStatus(captured[p], refunded[p])
    BY DEF InvoiceAgrees
  <2>1. FullyBooked(p)
    BY DEF IInv, DataInv, Booked, NotBooked
  <2> QED
    BY <2>1 DEF FullyBooked
<1> QED
  BY <1>1, Invariance, PTL
-----------------------------------------------------------------------------
(* No payment row is ahead of Saferpay, and a row is authorized once.      *)
(*                                                                         *)
(* A row only moves forward, from NONE through AUTH_PENDING and AUTHORIZED *)
(* to the rest, and Saferpay's transaction leaves AUTHORIZED only for a    *)
(* row that was marked before the call.  What a handler relies on about    *)
(* its row is kept by every such step of the others.                       *)

(* The inductive invariant BInv, beside IInv.                              *)

Unclaimed == {"NONE", "AUTH_PENDING"}
Unmarked  == {"NONE", "AUTH_PENDING", "AUTHORIZED"}
PaidRow   == {"CAPTURED", "REFUND_PENDING", "PARTIALLY_REFUNDED", "REFUNDED"}

MarkedLabels == {"captureProvider", "captureTx", "voidProvider", "voidWrite"} \cup RefundLabels
HoldLabels   == {"checkoutCreate", "assertProvider", "claim", "captureMark", "voidLocal",
                 "voidMark", "setStatusWrite"} \cup MarkedLabels

\* What a handler at l relies on about its row: status s, Saferpay's v and r.
RowHeld(l, f, s, v, r) ==
    /\ l = "checkoutCreate" => s = "NONE" /\ v # "NONE" /\ (f.op # "checkout" => v = "AUTHORIZED")
    /\ l \in {"assertProvider", "claim", "voidLocal"} => s # "NONE"
    /\ l = "claim" /\ s = "AUTH_PENDING" => v = "AUTHORIZED"
    /\ l \in {"captureMark", "voidMark"} => s \notin Unclaimed
    /\ l \in MarkedLabels => s \notin Unmarked
    /\ l \in {"captureTx"} \cup RefundLabels => v = "CAPTURED"
    /\ l \in RefundLabels => f.snap <= r
    /\ l = "refundTx" => f.snap + f.amt <= r

Held(l, f) ==
    /\ RowHeld(l, f, payStatus[f.pay], prov[f.pay], provRefunded[f.pay])
    /\ l = "setStatusWrite" => f.target \in AdminTargets

\* A row, and Saferpay's side of it: returned is what the row says was refunded.
Backed(s, v, returned, r) ==
    /\ s # "NONE" => v # "NONE"
    /\ s = "AUTHORIZED" => v = "AUTHORIZED"
    /\ s \in PaidRow => v = "CAPTURED"
    /\ returned <= r

RowsBacked == \A p \in Payments : Backed(payStatus[p], prov[p], refunded[p], provRefunded[p])
AllHeld    == \A h \in Handlers : Held(pc[h], frame[h])

\* Two handlers that are about to create a row have transactions of their own.
CreatedOnce ==
    \A h, k \in Handlers :
        h # k /\ pc[h] = "checkoutCreate" /\ pc[k] = "checkoutCreate" => frame[h].pay # frame[k].pay

BInv == RowsBacked /\ AllHeld /\ CreatedOnce

-----------------------------------------------------------------------------
(* What a step may do to a row.                                            *)

Forward(s, v, r, s2, v2, r2) ==
    /\ s # "NONE" => s2 # "NONE"
    /\ s \notin Unclaimed => s2 \notin Unclaimed
    /\ s \notin Unmarked => s2 \notin Unmarked
    /\ s2 = "AUTHORIZED" => s \in {"AUTH_PENDING", "AUTHORIZED"}
    /\ v # "NONE" => v2 # "NONE"
    /\ v = "CAPTURED" => v2 = "CAPTURED"
    /\ v = "AUTHORIZED" /\ s \in Unmarked => v2 = "AUTHORIZED"
    /\ r <= r2

RowsForward ==
    \A p \in Payments :
        Forward(payStatus[p], prov[p], provRefunded[p], payStatus'[p], prov'[p], provRefunded'[p])

OthersStay(h) == \A k \in Handlers \ {h} : pc'[k] = pc[k] /\ frame'[k] = frame[k]

\* The reservation is put before the venue only with a fresh authorization.
AskedWithPayment ==
    status' = "PENDING_VENUE_CONFIRMATION" /\ status # "PENDING_VENUE_CONFIRMATION"
        => \E p \in Payments : payStatus[p] = "AUTH_PENDING" /\ payStatus'[p] = "AUTHORIZED"

RowsStay == UNCHANGED <<payStatus, prov, provRefunded, refunded>>

\* Most steps: no row changes, and the handler relies on nothing afterwards.
Quiet(h) == OthersStay(h) /\ pc'[h] \notin HoldLabels /\ RowsStay

\* What is shown of every step.
Good == BInv' /\ RowsForward

-----------------------------------------------------------------------------
(* Lemmas about rows and handlers.                                         *)

LEMMA RowsStayForward ==
    ASSUME IInv, RowsStay
    PROVE  RowsForward
<1> SUFFICES ASSUME NEW p \in Payments
             PROVE  Forward(payStatus[p], prov[p], provRefunded[p],
                            payStatus'[p], prov'[p], provRefunded'[p])
  BY DEF RowsForward
<1>1. provRefunded[p] \in 0..Fee
  BY DEF IInv, DataInv, ProviderTyped
<1>2. provRefunded[p] <= provRefunded[p]
  BY <1>1, FeeAssumption
<1> QED
  BY <1>2 DEF Forward, RowsStay

\* What a handler relies on survives the steps of the others, unless its row is created.
LEMMA RowHeldKept ==
    ASSUME NEW l, NEW f \in Frames, NEW s, NEW v, NEW r \in Nat, NEW s2, NEW v2, NEW r2 \in Nat,
           RowHeld(l, f, s, v, r), Forward(s, v, r, s2, v2, r2),
           l = "checkoutCreate" => s2 = "NONE"
    PROVE  RowHeld(l, f, s2, v2, r2)
<1>1. f.snap \in Nat /\ f.amt \in Nat
  BY FrameFields, FeeAssumption
<1>2. r <= r2
  BY DEF Forward
<1>3. (f.snap <= r => f.snap <= r2) /\ (f.snap + f.amt <= r => f.snap + f.amt <= r2)
  BY <1>1, <1>2
<1>4. l = "checkoutCreate" => s2 = "NONE" /\ v2 # "NONE" /\ (f.op # "checkout" => v2 = "AUTHORIZED")
  BY DEF RowHeld, Forward, Unmarked
<1>5. l \in {"assertProvider", "claim", "voidLocal"} => s2 # "NONE"
  BY DEF RowHeld, Forward
<1>6. l = "claim" /\ s2 = "AUTH_PENDING" => v2 = "AUTHORIZED"
  BY DEF RowHeld, Forward, Unmarked, Unclaimed
<1>7. l \in {"captureMark", "voidMark"} => s2 \notin Unclaimed
  BY DEF RowHeld, Forward
<1>8. l \in MarkedLabels => s2 \notin Unmarked
  BY DEF RowHeld, Forward
<1>9. l \in {"captureTx"} \cup RefundLabels => v2 = "CAPTURED"
  BY DEF RowHeld, Forward
<1>10. (l \in RefundLabels => f.snap <= r2) /\ (l = "refundTx" => f.snap + f.amt <= r2)
  BY <1>3 DEF RowHeld
<1> QED
  BY <1>4, <1>5, <1>6, <1>7, <1>8, <1>9, <1>10 DEF RowHeld

\* A handler outside HoldLabels relies on nothing.
LEMMA NothingHeld ==
    ASSUME NEW l, NEW f, l \notin HoldLabels
    PROVE  Held(l, f)
BY DEF Held, RowHeld, HoldLabels, MarkedLabels, RefundLabels

\* One handler moves to where its own row is as it needs it; no row is created but its own.
LEMMA OneMoves ==
    ASSUME IInv, IInv', BInv, NEW h \in Handlers, OthersStay(h), RowsForward, RowsBacked',
           Held(pc[h], frame[h])',
           pc'[h] = "checkoutCreate" => \A k \in Handlers \ {h} :
               pc[k] = "checkoutCreate" => frame[k].pay # frame'[h].pay,
           \A p \in Payments : payStatus[p] = "NONE" /\ payStatus'[p] # "NONE"
                                   => pc[h] = "checkoutCreate" /\ p = frame[h].pay
    PROVE  BInv'
<1>1. ASSUME NEW k \in Handlers PROVE Held(pc[k], frame[k])'
  <2>1. CASE k = h
    BY <2>1
  <2>2. CASE k # h
    <3>1. pc'[k] = pc[k] /\ frame'[k] = frame[k]
      BY <2>2 DEF OthersStay
    <3>2. Held(pc[k], frame[k])
      BY DEF BInv, AllHeld
    <3>3. frame[k] \in Frames /\ (pc[k] \in PayLabels => frame[k].pay \in Payments)
      BY DEF IInv, ControlInv, FramesGood, FrameGood
    <3>4. CASE pc[k] \in HoldLabels \ {"setStatusWrite"}
      <4> DEFINE p == frame[k].pay
      <4>1. p \in Payments
        BY <3>3, <3>4 DEF HoldLabels, MarkedLabels, PayLabels
      <4>2. provRefunded[p] \in Nat /\ provRefunded'[p] \in Nat
        BY <4>1, FeeAssumption DEF IInv, DataInv, ProviderTyped
      <4>3. Forward(payStatus[p], prov[p], provRefunded[p],
                    payStatus'[p], prov'[p], provRefunded'[p])
        BY <4>1 DEF RowsForward
      <4>4. RowHeld(pc[k], frame[k], payStatus[p], prov[p], provRefunded[p])
        BY <3>2 DEF Held
      <4>5. pc[k] = "checkoutCreate" => payStatus'[p] = "NONE"
        BY <2>2, <4>1, <4>4 DEF RowHeld, BInv, CreatedOnce
      <4>6. RowHeld(pc[k], frame[k], payStatus'[p], prov'[p], provRefunded'[p])
        BY <3>3, <4>2, <4>3, <4>4, <4>5, RowHeldKept
      <4> QED
        BY <3>1, <3>4, <4>6 DEF Held
    <3>5. CASE pc[k] = "setStatusWrite"
      BY <3>1, <3>2, <3>5 DEF Held, RowHeld, MarkedLabels, RefundLabels
    <3>6. CASE pc[k] \notin HoldLabels
      BY <3>1, <3>6 DEF Held, RowHeld, HoldLabels, MarkedLabels, RefundLabels
    <3> QED
      BY <3>4, <3>5, <3>6
  <2> QED
    BY <2>1, <2>2
<1>2. CreatedOnce'
  BY DEF CreatedOnce, BInv, OthersStay
<1> QED
  BY <1>1, <1>2 DEF BInv, AllHeld

\* The rows are as backed as they were if none of their columns changed.
LEMMA RowsStayBacked ==
    ASSUME BInv, RowsStay
    PROVE  RowsBacked'
BY DEF BInv, RowsBacked, RowsStay

LEMMA QuietGood ==
    ASSUME IInv, IInv', BInv, NEW h \in Handlers, Quiet(h)
    PROVE  Good
<1>1. RowsForward /\ RowsBacked'
  BY RowsStayForward, RowsStayBacked DEF Quiet
<1>2. Held(pc[h], frame[h])'
  BY DEF Quiet, Held, RowHeld, HoldLabels, MarkedLabels, RefundLabels
<1>3. pc'[h] # "checkoutCreate"
  BY DEF Quiet, HoldLabels
<1> QED
  BY <1>1, <1>2, <1>3, OneMoves DEF Quiet, RowsStay, Good

\* No row changes, and the handler finds its row as it needs it.
LEMMA FindGood ==
    ASSUME IInv, IInv', BInv, NEW h \in Handlers, OthersStay(h), RowsStay,
           pc'[h] # "checkoutCreate", Held(pc'[h], frame'[h])
    PROVE  Good
<1>1. RowsForward /\ RowsBacked'
  BY RowsStayForward, RowsStayBacked
<1>2. Held(pc[h], frame[h])'
  BY DEF Held, RowsStay
<1> QED
  BY <1>1, <1>2, OneMoves DEF RowsStay, Good

-----------------------------------------------------------------------------
(* Where a handler goes.                                                   *)

LEMMA GoesOn ==
    ASSUME IInv, NEW h \in Handlers, NEW l, Goto(h, l), UNCHANGED frame
    PROVE  OthersStay(h) /\ pc'[h] = l /\ frame'[h] = frame[h]
BY DEF IInv, ControlInv, HandlersTyped, Goto, OthersStay

LEMMA MovesOn ==
    ASSUME IInv, NEW h \in Handlers, NEW l, NEW f, Goto(h, l), frame' = [frame EXCEPT ![h] = f]
    PROVE  OthersStay(h) /\ pc'[h] = l /\ frame'[h] = f
BY DEF IInv, ControlInv, HandlersTyped, Goto, OthersStay

LEMMA Ends ==
    ASSUME IInv, NEW h \in Handlers, Finish(h)
    PROVE  OthersStay(h) /\ pc'[h] = "idle"
BY MovesOn DEF Finish

LEMMA Returns ==
    ASSUME IInv, NEW h \in Handlers, Return(h)
    PROVE  OthersStay(h) /\ pc'[h] \in ReturnLabels
<1>1. frame[h].ret \in ReturnLabels
  BY DEF IInv, ControlInv, FramesGood, FrameGood
<1>2. CASE frame[h].ret = "idle"
  BY <1>2, Ends DEF Return, ReturnLabels
<1>3. CASE frame[h].ret # "idle"
  <2> DEFINE f == [IdleFrame EXCEPT !.op = frame[h].op, !.event = frame[h].event]
  <2>1. Goto(h, frame[h].ret) /\ frame' = [frame EXCEPT ![h] = f]
    BY <1>3 DEF Return
  <2> HIDE DEF f
  <2> QED
    BY <1>1, <2>1, MovesOn
<1> QED
  BY <1>2, <1>3

LEMMA ReturnHoldsNothing == ReturnLabels \cap HoldLabels = {} /\ CleanupLabels \cap HoldLabels = {}
BY DEF ReturnLabels, CleanupLabels, HoldLabels, MarkedLabels, RefundLabels

\* The cleanup goes on to a read of its caller.
LEMMA CleanupHoldsNothing ==
    ASSUME IInv, NEW h \in Handlers, pc[h] \in CleanupLabels, CleanupDone(h)
    PROVE  OthersStay(h) /\ pc'[h] \notin HoldLabels
<1> DEFINE next == AfterCleanup[frame[h].op]
<1>1. frame[h].op \in DOMAIN AfterCleanup
  BY DEF IInv, ControlInv, FramesGood, FrameGood
<1>2. next \notin HoldLabels
  BY <1>1 DEF AfterCleanup, HoldLabels, MarkedLabels, RefundLabels
<1>3. CASE next = "idle"
  BY <1>3, <1>2, Ends DEF CleanupDone
<1>4. CASE next # "idle"
  <2>1. Goto(h, next) /\ UNCHANGED frame
    BY <1>4 DEF CleanupDone
  <2> HIDE DEF next
  <2> QED
    BY <1>2, <2>1, GoesOn
<1> QED
  BY <1>3, <1>4

-----------------------------------------------------------------------------
(* Steps that change no row.                                               *)

LEMMA BeginsQuiet ==
    ASSUME IInv, NEW h \in Handlers, NEW o, NEW l, NEW f, BeginAt(h, o, l, f), l \notin HoldLabels,
           RowsStay
    PROVE  Quiet(h)
<1> DEFINE g == [f EXCEPT !.op = o]
<1>1. Goto(h, l) /\ frame' = [frame EXCEPT ![h] = g]
  BY DEF BeginAt
<1> HIDE DEF g
<1> QED
  BY <1>1, MovesOn DEF Quiet

LEMMA DatabaseKeepsRows ==
    ASSUME DatabaseUnchanged
    PROVE  RowsStay /\ status' = status
BY DEF DatabaseUnchanged, RowsStay, payVars, provVars, resVars

LEMMA BeginGood ==
    ASSUME IInv, IInv', BInv, NEW h \in Handlers, Begin(h)
    PROVE  Good
<1>1. CASE CleanupBegin(h)
  <2>1. RowsStay /\ Goto(h, "expFind")
    BY <1>1, DatabaseKeepsRows DEF CleanupBegin
  <2>2. PICK o \in DOMAIN AfterCleanup : frame' = [frame EXCEPT ![h].op = o]
    BY <1>1 DEF CleanupBegin
  <2>3. OthersStay(h) /\ pc'[h] = "expFind"
    BY <2>1, <2>2 DEF IInv, ControlInv, HandlersTyped, Goto, OthersStay
  <2> QED
    BY <2>1, <2>3, QuietGood DEF Quiet, HoldLabels, MarkedLabels, RefundLabels
<1>2. CASE CheckoutBegin(h, "checkout") \/ CheckoutBegin(h, "payStored")
  <2>1. PICK o : BeginAt(h, o, "checkoutProvider", IdleFrame) /\ RowsStay
    BY <1>2, DatabaseKeepsRows DEF CheckoutBegin
  <2> QED
    BY <2>1, BeginsQuiet, QuietGood DEF HoldLabels, MarkedLabels, RefundLabels
<1>3. CASE AssertBegin(h) \/ \E p \in Payments : NotifyBegin(h, p)
  <2>1. PICK o, f : BeginAt(h, o, "assertRead", f) /\ RowsStay
    BY <1>3, DatabaseKeepsRows DEF AssertBegin, NotifyBegin
  <2> QED
    BY <2>1, BeginsQuiet, QuietGood DEF HoldLabels, MarkedLabels, RefundLabels
<1>4. CASE DeclineBegin(h) \/ CustomerCancelBegin(h) \/ VenueCancelBegin(h) \/ NoShowReportBegin(h)
  <2>1. PICK l \in {"declineWrite", "customerCancelWrite", "venueCancelWrite", "noShowWrite"} :
            (\E o, f : BeginAt(h, o, l, f)) /\ RowsStay
    BY <1>4, DatabaseKeepsRows
       DEF DeclineBegin, CustomerCancelBegin, VenueCancelBegin, NoShowReportBegin
  <2> QED
    BY <2>1, BeginsQuiet, QuietGood DEF HoldLabels, MarkedLabels, RefundLabels
<1>5. CASE AdminRefundBegin(h)
  <2>1. PICK f : BeginAt(h, "adminRefund", "refundFind", f) /\ RowsStay
    BY <1>5, DatabaseKeepsRows DEF AdminRefundBegin
  <2> QED
    BY <2>1, BeginsQuiet, QuietGood DEF HoldLabels, MarkedLabels, RefundLabels
<1>6. CASE ProblemResolved(h) \/ AdminCancel(h)
  <2>1. pc[h] = "idle" /\ UNCHANGED handlerVars /\ RowsStay
    BY <1>6 DEF ProblemResolved, AdminCancel, CancelRow, MayBegin, Idle, RowsStay, payVars, provVars
  <2> QED
    BY <2>1, QuietGood DEF Quiet, OthersStay, handlerVars, HoldLabels, MarkedLabels, RefundLabels
<1>7. CASE SetStatusBegin(h)
  <2> DEFINE cents(t) == CASE t \in {"CANCELLED", "CANCELLED_BY_USER"} ->
                                RefundForCancellation(type, status)
                           [] t = "NO_SHOW" -> NoShowRefundCents(type, custIn, venueIn)
                           [] OTHER -> 0
  <2>1. PICK target \in AdminTargets :
            BeginAt(h, "setStatus", "setStatusWrite",
                    [IdleFrame EXCEPT !.target = target, !.amt = cents(target)])
    BY <1>7 DEF SetStatusBegin
  <2> HIDE DEF cents
  <2> DEFINE f == [[IdleFrame EXCEPT !.target = target, !.amt = cents(target)] EXCEPT !.op = "setStatus"]
  <2>2. f.target = target
    BY DEF IdleFrame
  <2>3. Goto(h, "setStatusWrite") /\ frame' = [frame EXCEPT ![h] = f]
    BY <2>1 DEF BeginAt
  <2> HIDE DEF f
  <2>4. OthersStay(h) /\ pc'[h] = "setStatusWrite" /\ frame'[h] = f
    BY <2>3, MovesOn
  <2>5. Held(pc'[h], frame'[h])
    BY <2>2, <2>4 DEF Held, RowHeld, MarkedLabels, RefundLabels
  <2> QED
    BY <1>7, <2>4, <2>5, DatabaseKeepsRows, FindGood DEF SetStatusBegin
<1> QED
  BY <1>1, <1>2, <1>3, <1>4, <1>5, <1>6, <1>7 DEF Begin

\* Only the reservation row changes, or nothing does.
LEMMA CleanupQuiet ==
    ASSUME IInv, NEW h \in Handlers, Cleanup(h)
    PROVE  Quiet(h)
<1>1. RowsStay
  BY DEF Cleanup, ExpireFind, ExpireWrite, ArrivalFind, ArrivalWrite, NightFind, NightWrite,
         DatabaseUnchanged, RowsStay, payVars, provVars
<1>2. pc[h] \in CleanupLabels
  BY DEF Cleanup, ExpireFind, ExpireWrite, ArrivalFind, ArrivalWrite, NightFind, NightWrite,
         CleanupLabels
<1>3. CASE ExpireFind(h)
  <2>1. PICK l \in {"expWrite", "arrFind"} : Goto(h, l) /\ UNCHANGED frame
    BY <1>3 DEF ExpireFind
  <2> QED
    BY <1>1, <2>1, GoesOn DEF Quiet, HoldLabels, MarkedLabels, RefundLabels
<1>4. CASE ExpireWrite(h) \/ ArrivalWrite(h)
  <2>1. PICK l \in {"voidFind", "refundFind"}, r \in ReturnLabels :
            Goto(h, l) /\ frame' = [frame EXCEPT ![h] = Call(@, r)]
    BY <1>4 DEF ExpireWrite, ArrivalWrite, ReturnLabels
  <2> QED
    BY <1>1, <2>1, MovesOn DEF Quiet, HoldLabels, MarkedLabels, RefundLabels
<1>5. CASE ArrivalFind(h)
  <2>1. CASE ArrivalLockExpired
    <3> DEFINE f == [frame[h] EXCEPT !.amt = NoShowRefundCents(type, custIn, venueIn)]
    <3>1. Goto(h, "arrWrite") /\ frame' = [frame EXCEPT ![h] = f]
      BY <1>5, <2>1 DEF ArrivalFind
    <3> HIDE DEF f
    <3>2. OthersStay(h) /\ pc'[h] = "arrWrite"
      BY <3>1, MovesOn
    <3> QED
      BY <1>1, <3>2 DEF Quiet, HoldLabels, MarkedLabels, RefundLabels
  <2>2. CASE ~ArrivalLockExpired
    BY <1>1, <1>5, <2>2, GoesOn DEF ArrivalFind, Quiet, HoldLabels, MarkedLabels, RefundLabels
  <2> QED
    BY <2>1, <2>2
<1>6. CASE NightFind(h) \/ NightWrite(h)
  <2>1. (Goto(h, "nightWrite") /\ UNCHANGED frame) \/ CleanupDone(h)
    BY <1>6 DEF NightFind, NightWrite
  <2>2. CASE Goto(h, "nightWrite") /\ UNCHANGED frame
    BY <1>1, <2>2, GoesOn DEF Quiet, HoldLabels, MarkedLabels, RefundLabels
  <2>3. CASE CleanupDone(h)
    BY <1>1, <1>2, <2>3, CleanupHoldsNothing DEF Quiet
  <2> QED
    BY <2>1, <2>2, <2>3
<1> QED
  BY <1>3, <1>4, <1>5, <1>6 DEF Cleanup

LEMMA AcceptQuiet ==
    ASSUME IInv, NEW h \in Handlers, Accept(h)
    PROVE  Quiet(h)
<1>1. RowsStay
  BY DEF Accept, AcceptRead, AcceptExpire, AcceptWrite, DatabaseUnchanged, RowsStay, payVars, provVars
<1>2. Finish(h) \/ \E l \in {"acceptExpire", "captureFind", "voidFind"} : Goto(h, l) /\ UNCHANGED frame
  BY DEF Accept, AcceptRead, AcceptExpire, AcceptWrite
<1> QED
  BY <1>1, <1>2, GoesOn, Ends DEF Quiet, HoldLabels, MarkedLabels, RefundLabels

LEMMA CancelQuiet ==
    ASSUME IInv, NEW h \in Handlers, Cancel(h)
    PROVE  Quiet(h)
<1>1. RowsStay
  BY DEF Cancel, DeclineWrite, CustomerCancelWrite, VenueCancelWrite, NoShowReportWrite,
         AdminRefundCancel, CancelRow, SetStatusWrite, RowsStay, payVars, provVars
<1>2. \/ Finish(h)
      \/ Goto(h, "voidFind") /\ UNCHANGED frame
      \/ Goto(h, "refundFind") /\ frame' = [frame EXCEPT ![h] = Call(@, "voidFind")]
  BY DEF Cancel, DeclineWrite, CustomerCancelWrite, VenueCancelWrite, NoShowReportWrite,
         AdminRefundCancel, SetStatusWrite, PayBackAndVoid
<1>3. CASE Finish(h)
  BY <1>1, <1>3, Ends DEF Quiet, HoldLabels, MarkedLabels, RefundLabels
<1>4. CASE Goto(h, "voidFind") /\ UNCHANGED frame
  BY <1>1, <1>4, GoesOn DEF Quiet, HoldLabels, MarkedLabels, RefundLabels
<1>5. CASE Goto(h, "refundFind") /\ frame' = [frame EXCEPT ![h] = Call(@, "voidFind")]
  <2> DEFINE f == Call(frame[h], "voidFind")
  <2>1. Goto(h, "refundFind") /\ frame' = [frame EXCEPT ![h] = f]
    BY <1>5
  <2> HIDE DEF f
  <2>2. OthersStay(h) /\ pc'[h] = "refundFind"
    BY <2>1, MovesOn
  <2> QED
    BY <1>1, <2>2 DEF Quiet, HoldLabels, MarkedLabels, RefundLabels
<1> QED
  BY <1>2, <1>3, <1>4, <1>5

LEMMA CheckInQuiet ==
    ASSUME IInv, NEW h \in Handlers, CheckIn(h)
    PROVE  Quiet(h)
<1>1. RowsStay
  BY DEF CheckIn, CheckInRead, CustomerCheckInRead, AdminCustomerCheckInRead, AdminVenueCheckInRead,
         CheckInIf, CheckInWrite, DatabaseUnchanged, RowsStay, payVars, provVars
<1>2. \/ Finish(h)
      \/ \E l \in {"checkInWrite", "customerCheckInWrite", "adminCustomerCheckInWrite",
                   "adminVenueCheckInWrite"} : Goto(h, l) /\ UNCHANGED frame
  BY DEF CheckIn, CheckInRead, CustomerCheckInRead, AdminCustomerCheckInRead, AdminVenueCheckInRead,
         CheckInIf, CheckInWrite
<1> QED
  BY <1>1, <1>2, GoesOn, Ends DEF Quiet, HoldLabels, MarkedLabels, RefundLabels

-----------------------------------------------------------------------------
(* Steps that change one row.                                              *)

OnlyRow(p) ==
    \A q \in Payments \ {p} :
        /\ payStatus'[q] = payStatus[q] /\ prov'[q] = prov[q]
        /\ refunded'[q] = refunded[q] /\ provRefunded'[q] = provRefunded[q]

LEMMA RowMoves ==
    ASSUME IInv, IInv', BInv, NEW h \in Handlers, NEW p \in Payments, OthersStay(h), OnlyRow(p),
           Forward(payStatus[p], prov[p], provRefunded[p],
                   payStatus'[p], prov'[p], provRefunded'[p]),
           Backed(payStatus'[p], prov'[p], refunded'[p], provRefunded'[p]),
           Held(pc[h], frame[h])', pc'[h] # "checkoutCreate",
           payStatus[p] = "NONE" /\ payStatus'[p] # "NONE"
               => pc[h] = "checkoutCreate" /\ p = frame[h].pay
    PROVE  Good
<1>1. RowsForward
  <2> SUFFICES ASSUME NEW q \in Payments
               PROVE  Forward(payStatus[q], prov[q], provRefunded[q],
                              payStatus'[q], prov'[q], provRefunded'[q])
    BY DEF RowsForward
  <2>1. provRefunded[q] \in 0..Fee
    BY DEF IInv, DataInv, ProviderTyped
  <2>2. CASE q # p
    BY <2>1, <2>2, FeeAssumption DEF OnlyRow, Forward
  <2> QED
    BY <2>2
<1>2. RowsBacked'
  BY DEF BInv, RowsBacked, OnlyRow
<1>3. \A q \in Payments : payStatus[q] = "NONE" /\ payStatus'[q] # "NONE"
                              => pc[h] = "checkoutCreate" /\ q = frame[h].pay
  BY DEF OnlyRow
<1> QED
  BY <1>1, <1>2, <1>3, OneMoves DEF Good

\* "update where id" of a row that is past its authorization.
LEMMA MarkGood ==
    ASSUME IInv, IInv', BInv, NEW h \in Handlers, NEW label, NEW new, NEW next,
           SetPayStatus(h, label, new, next), label \in PayLabels, new \notin Unmarked,
           payStatus[frame[h].pay] # "NONE",
           new \in PaidRow => prov[frame[h].pay] = "CAPTURED",
           next \in {"captureProvider", "voidProvider", "voidLedger", "refundProvider"},
           next = "refundProvider" => /\ prov[frame[h].pay] = "CAPTURED"
                                      /\ frame[h].snap <= provRefunded[frame[h].pay]
    PROVE  Good
<1> DEFINE p == frame[h].pay
<1>1. p \in Payments
  BY DEF SetPayStatus, IInv, ControlInv, FramesGood, FrameGood
<1>2. OthersStay(h) /\ pc'[h] = next /\ frame'[h] = frame[h]
  BY GoesOn DEF SetPayStatus
<1>3. /\ payStatus'[p] = new /\ prov' = prov /\ refunded' = refunded /\ provRefunded' = provRefunded
      /\ OnlyRow(p)
  BY <1>1 DEF SetPayStatus, provVars, OnlyRow, IInv, DataInv, PaymentsTyped
<1>4. Backed(payStatus[p], prov[p], refunded[p], provRefunded[p])
  BY <1>1 DEF BInv, RowsBacked
<1>5. Backed(payStatus'[p], prov'[p], refunded'[p], provRefunded'[p])
  BY <1>3, <1>4 DEF Backed, Unmarked
<1>6. provRefunded[p] \in 0..Fee
  BY <1>1 DEF IInv, DataInv, ProviderTyped
<1>7. Forward(payStatus[p], prov[p], provRefunded[p], payStatus'[p], prov'[p], provRefunded'[p])
  BY <1>3, <1>6, FeeAssumption DEF Forward, Unmarked, Unclaimed
<1>8. Held(next, frame[h])'
  BY <1>2, <1>3 DEF Held, RowHeld, Unmarked, MarkedLabels, RefundLabels
<1>9. next # "checkoutCreate"
  OBVIOUS
<1> QED
  BY <1>1, <1>2, <1>3, <1>5, <1>7, <1>8, <1>9, RowMoves

\* A call that Saferpay carries out for a row that was marked before.
LEMMA ProviderGood ==
    ASSUME IInv, IInv', BInv, NEW h \in Handlers, pc[h] \in PayLabels, OthersStay(h),
           UNCHANGED <<payStatus, refunded, provRefunded>>, NEW new,
           prov[frame[h].pay] = "AUTHORIZED", payStatus[frame[h].pay] \notin Unmarked,
           new # "NONE", prov' = [prov EXCEPT ![frame[h].pay] = new],
           \/ pc'[h] \notin HoldLabels
           \/ frame'[h].pay = frame[h].pay /\ pc'[h] = "captureTx" /\ new = "CAPTURED"
           \/ frame'[h].pay = frame[h].pay /\ pc'[h] = "voidWrite"
    PROVE  Good
<1> DEFINE p == frame[h].pay
<1>1. p \in Payments
  BY DEF IInv, ControlInv, FramesGood, FrameGood
<1>2. prov'[p] = new /\ OnlyRow(p)
  BY <1>1 DEF OnlyRow, IInv, DataInv, ProviderTyped
<1>3. Backed(payStatus[p], prov[p], refunded[p], provRefunded[p])
  BY <1>1 DEF BInv, RowsBacked
<1>4. Backed(payStatus'[p], prov'[p], refunded'[p], provRefunded'[p])
  BY <1>2, <1>3 DEF Backed, Unmarked
<1>5. provRefunded[p] \in 0..Fee
  BY <1>1 DEF IInv, DataInv, ProviderTyped
<1>6. Forward(payStatus[p], prov[p], provRefunded[p], payStatus'[p], prov'[p], provRefunded'[p])
  BY <1>2, <1>5, FeeAssumption DEF Forward, Unmarked
<1>7. Held(pc[h], frame[h])' /\ pc'[h] # "checkoutCreate"
  BY <1>2 DEF Held, RowHeld, Unmarked, HoldLabels, MarkedLabels, RefundLabels
<1> QED
  BY <1>1, <1>2, <1>4, <1>6, <1>7, RowMoves DEF Unmarked

\* What the handler knows of its row.
LEMMA RowKnown ==
    ASSUME IInv, BInv, NEW h \in Handlers
    PROVE  /\ RowHeld(pc[h], frame[h], payStatus[frame[h].pay], prov[frame[h].pay],
                      provRefunded[frame[h].pay])
           /\ pc[h] \in PayLabels =>
                 /\ frame[h].pay \in Payments
                 /\ Backed(payStatus[frame[h].pay], prov[frame[h].pay], refunded[frame[h].pay],
                           provRefunded[frame[h].pay])
BY DEF BInv, AllHeld, Held, RowsBacked, IInv, ControlInv, FramesGood, FrameGood

LEMMA EndsQuiet ==
    ASSUME IInv, NEW h \in Handlers, RowsStay, Finish(h) \/ Return(h)
    PROVE  Quiet(h)
<1>1. OthersStay(h) /\ pc'[h] \notin HoldLabels
  BY Ends, Returns, ReturnHoldsNothing DEF HoldLabels, MarkedLabels, RefundLabels
<1> QED
  BY <1>1 DEF Quiet

\* findFirst, and on to a step that relies on what it found.
LEMMA FindsGood ==
    ASSUME IInv, IInv', BInv, NEW h \in Handlers, RowsStay, NEW p \in Payments, NEW l,
           l # "checkoutCreate", l # "setStatusWrite", Goto(h, l),
           frame' = [frame EXCEPT ![h].pay = p],
           RowHeld(l, frame'[h], payStatus[p], prov[p], provRefunded[p])
    PROVE  Good
<1> DEFINE f == [frame[h] EXCEPT !.pay = p]
<1>1. frame[h] \in Frames
  BY DEF IInv, ControlInv, FramesGood, FrameGood
<1>2. f.pay = p
  BY <1>1, FrameKeeps
<1>3. frame' = [frame EXCEPT ![h] = f]
  OBVIOUS
<1> HIDE DEF f
<1>4. OthersStay(h) /\ pc'[h] = l /\ frame'[h] = f
  BY <1>3, MovesOn
<1>5. Held(pc'[h], frame'[h])
  BY <1>2, <1>4 DEF Held
<1> QED
  BY <1>4, <1>5, FindGood

LEMMA CaptureGood ==
    ASSUME IInv, IInv', BInv, NEW h \in Handlers, Capture(h)
    PROVE  Good
<1> DEFINE p == frame[h].pay
<1>1. CASE CaptureFind(h)
  <2> DEFINE q == LatestIn({"AUTHORIZED"})
  <2>1. RowsStay
    BY <1>1, DatabaseKeepsRows DEF CaptureFind
  <2>2. CASE q = NoPayment
    <3>1. OthersStay(h) /\ pc'[h] = "acceptWrite"
      BY <1>1, <2>2, GoesOn DEF CaptureFind
    <3> QED
      BY <2>1, <3>1, QuietGood DEF Quiet, HoldLabels, MarkedLabels, RefundLabels
  <2>3. CASE q # NoPayment
    <3>1. q \in Payments /\ payStatus[q] = "AUTHORIZED"
      BY <2>3, LatestInFound DEF IInv, DataInv, PaymentsTyped
    <3>2. Goto(h, "captureMark") /\ frame' = [frame EXCEPT ![h].pay = q]
      BY <1>1, <2>3 DEF CaptureFind
    <3> HIDE DEF q
    <3>3. RowHeld("captureMark", frame'[h], payStatus[q], prov[q], provRefunded[q])
      BY <3>1 DEF RowHeld, Unclaimed, MarkedLabels, RefundLabels
    <3> QED
      BY <2>1, <3>1, <3>2, <3>3, FindsGood
  <2> QED
    BY <2>2, <2>3
<1>2. CASE CaptureMark(h)
  <2>1. pc[h] = "captureMark"
    BY <1>2 DEF CaptureMark, SetPayStatus
  <2>2. payStatus[p] # "NONE"
    BY <2>1, RowKnown DEF RowHeld, Unclaimed
  <2>3. "captureMark" \in PayLabels /\ "CAPTURE_PENDING" \notin Unmarked \cup PaidRow
    BY DEF PayLabels, Unmarked, PaidRow
  <2> QED
    BY <1>2, <2>2, <2>3, MarkGood DEF CaptureMark
<1>3. CASE CaptureProvider(h)
  <2>1. pc[h] = "captureProvider" /\ UNCHANGED <<payStatus, refunded, provRefunded>>
    BY <1>3 DEF CaptureProvider, payVars
  <2>2. payStatus[p] \notin Unmarked
    BY <2>1, RowKnown DEF RowHeld, MarkedLabels
  <2>3. CASE Finish(h) /\ UNCHANGED prov
    BY <2>1, <2>3, EndsQuiet, QuietGood DEF RowsStay
  <2>4. CASE /\ prov[p] = "AUTHORIZED" /\ prov' = [prov EXCEPT ![p] = "CAPTURED"]
             /\ (Goto(h, "captureTx") /\ UNCHANGED frame) \/ Finish(h)
    <3>1. \/ OthersStay(h) /\ pc'[h] = "captureTx" /\ frame'[h] = frame[h]
          \/ OthersStay(h) /\ pc'[h] = "idle"
      BY <2>4, GoesOn, Ends
    <3>2. "idle" \notin HoldLabels /\ "captureProvider" \in PayLabels
      BY DEF HoldLabels, MarkedLabels, RefundLabels, PayLabels
    <3> QED
      BY <2>1, <2>2, <2>4, <3>1, <3>2, ProviderGood
  <2> QED
    BY <1>3, <2>3, <2>4 DEF CaptureProvider
<1>4. CASE CaptureTx(h)
  <2>1. pc[h] = "captureTx"
    BY <1>4 DEF CaptureTx
  <2>2. p \in Payments /\ payStatus[p] \notin Unmarked /\ prov[p] = "CAPTURED"
        /\ Backed(payStatus[p], prov[p], refunded[p], provRefunded[p])
    BY <2>1, RowKnown DEF RowHeld, MarkedLabels, PayLabels
  <2>3. OthersStay(h) /\ pc'[h] = "acceptWrite"
    BY <1>4, GoesOn DEF CaptureTx
  <2>4. payStatus' = [payStatus EXCEPT ![p] = "CAPTURED"] /\ UNCHANGED <<refunded, prov, provRefunded>>
    BY <1>4 DEF CaptureTx, provVars
  <2>5. payStatus'[p] = "CAPTURED" /\ OnlyRow(p)
    BY <2>2, <2>4 DEF OnlyRow, IInv, DataInv, PaymentsTyped
  <2>6. Backed(payStatus'[p], prov'[p], refunded'[p], provRefunded'[p])
    BY <2>2, <2>4, <2>5 DEF Backed
  <2>7. provRefunded[p] \in 0..Fee
    BY <2>2 DEF IInv, DataInv, ProviderTyped
  <2>8. Forward(payStatus[p], prov[p], provRefunded[p], payStatus'[p], prov'[p], provRefunded'[p])
    BY <2>2, <2>4, <2>5, <2>7, FeeAssumption DEF Forward, Unmarked, Unclaimed
  <2>9. Held(pc[h], frame[h])' /\ pc'[h] # "checkoutCreate"
    BY <2>3 DEF Held, RowHeld, MarkedLabels, RefundLabels
  <2> QED
    BY <2>2, <2>3, <2>5, <2>6, <2>8, <2>9, RowMoves DEF Unmarked
<1> QED
  BY <1>1, <1>2, <1>3, <1>4 DEF Capture

LEMMA VoidGood ==
    ASSUME IInv, IInv', BInv, NEW h \in Handlers, Void(h)
    PROVE  Good
<1> DEFINE p == frame[h].pay
<1>1. CASE VoidFind(h)
  <2> DEFINE q == LatestIn({"AUTH_PENDING", "AUTHORIZED"})
             l == IF payStatus[q] = "AUTH_PENDING" THEN "voidLocal" ELSE "voidMark"
  <2>1. RowsStay
    BY <1>1, DatabaseKeepsRows DEF VoidFind
  <2>2. CASE q = NoPayment
    BY <1>1, <2>1, <2>2, EndsQuiet, QuietGood DEF VoidFind
  <2>3. CASE q # NoPayment
    <3>1. q \in Payments /\ payStatus[q] \in {"AUTH_PENDING", "AUTHORIZED"}
      BY <2>3, LatestInFound DEF IInv, DataInv, PaymentsTyped
    <3>2. Goto(h, l) /\ frame' = [frame EXCEPT ![h].pay = q]
      BY <1>1, <2>3 DEF VoidFind
    <3> HIDE DEF q
    <3>3. RowHeld(l, frame'[h], payStatus[q], prov[q], provRefunded[q])
      BY <3>1 DEF RowHeld, Unclaimed, MarkedLabels, RefundLabels
    <3>4. l # "checkoutCreate" /\ l # "setStatusWrite"
      OBVIOUS
    <3> HIDE DEF l
    <3> QED
      BY <2>1, <3>1, <3>2, <3>3, <3>4, FindsGood
  <2> QED
    BY <2>2, <2>3
<1>2. CASE VoidLocal(h) \/ VoidMark(h) \/ VoidWrite(h)
  <2>1. /\ pc[h] \in {"voidLocal", "voidMark", "voidWrite"}
        /\ \E new \in {"VOIDED", "VOID_PENDING"}, next \in {"voidLedger", "voidProvider"} :
              SetPayStatus(h, pc[h], new, next)
    BY <1>2 DEF VoidLocal, VoidMark, VoidWrite, SetPayStatus
  <2>2. payStatus[p] # "NONE"
    BY <2>1, RowKnown DEF RowHeld, Unclaimed, Unmarked, MarkedLabels
  <2>3. pc[h] \in PayLabels /\ {"VOIDED", "VOID_PENDING"} \cap (Unmarked \cup PaidRow) = {}
    BY <2>1 DEF PayLabels, Unmarked, PaidRow
  <2> QED
    BY <2>1, <2>2, <2>3, MarkGood
<1>3. CASE VoidProvider(h)
  <2>1. pc[h] = "voidProvider" /\ UNCHANGED <<payStatus, refunded, provRefunded>>
    BY <1>3 DEF VoidProvider, payVars
  <2>2. payStatus[p] \notin Unmarked
    BY <2>1, RowKnown DEF RowHeld, MarkedLabels
  <2>3. CASE Finish(h) /\ UNCHANGED prov
    BY <2>1, <2>3, EndsQuiet, QuietGood DEF RowsStay
  <2>4. CASE /\ prov[p] = "AUTHORIZED" /\ prov' = [prov EXCEPT ![p] = "CANCELLED"]
             /\ (Goto(h, "voidWrite") /\ UNCHANGED frame) \/ Finish(h)
    <3>1. \/ OthersStay(h) /\ pc'[h] = "voidWrite" /\ frame'[h] = frame[h]
          \/ OthersStay(h) /\ pc'[h] = "idle"
      BY <2>4, GoesOn, Ends
    <3>2. "idle" \notin HoldLabels /\ "voidProvider" \in PayLabels
      BY DEF HoldLabels, MarkedLabels, RefundLabels, PayLabels
    <3> QED
      BY <2>1, <2>2, <2>4, <3>1, <3>2, ProviderGood
  <2> QED
    BY <1>3, <2>3, <2>4 DEF VoidProvider
<1>4. CASE VoidLedger(h)
  <2>1. RowsStay /\ Return(h)
    BY <1>4 DEF VoidLedger, RowsStay, payVars, provVars
  <2> QED
    BY <2>1, EndsQuiet, QuietGood
<1> QED
  BY <1>1, <1>2, <1>3, <1>4 DEF Void

LEMMA RefundGoodStep ==
    ASSUME IInv, IInv', BInv, NEW h \in Handlers, Refund(h)
    PROVE  Good
<1> DEFINE p == frame[h].pay
<1>1. CASE RefundFind(h)
  <2> DEFINE q    == LatestIn({"CAPTURED", "PARTIALLY_REFUNDED"})
             next == SmallerOf(frame[h].amt, captured[q] - refunded[q])
  <2>1. RowsStay
    BY <1>1, DatabaseKeepsRows DEF RefundFind
  <2>2. CASE frame[h].amt <= 0 \/ q = NoPayment \/ next <= 0
    BY <1>1, <2>1, <2>2, EndsQuiet, QuietGood DEF RefundFind
  <2>3. CASE ~(frame[h].amt <= 0 \/ q = NoPayment \/ next <= 0)
    <3>1. q \in Payments /\ payStatus[q] \in {"CAPTURED", "PARTIALLY_REFUNDED"}
      BY <2>3, LatestInFound DEF IInv, DataInv, PaymentsTyped
    <3>2. Goto(h, "refundMark") /\
          frame' = [frame EXCEPT ![h] = [@ EXCEPT !.pay = q, !.amt = next, !.snap = refunded[q]]]
      BY <1>1, <2>3 DEF RefundFind
    <3> HIDE DEF q, next
    <3> DEFINE f == [frame[h] EXCEPT !.pay = q, !.amt = next, !.snap = refunded[q]]
    <3>3. frame[h] \in Frames
      BY DEF IInv, ControlInv, FramesGood, FrameGood
    <3>4. f.pay = q /\ f.snap = refunded[q]
      BY <3>3 DEF Frames
    <3>5. frame' = [frame EXCEPT ![h] = f]
      BY <3>2
    <3> HIDE DEF f
    <3>6. OthersStay(h) /\ pc'[h] = "refundMark" /\ frame'[h] = f
      BY <3>2, <3>5, MovesOn
    <3>7. Backed(payStatus[q], prov[q], refunded[q], provRefunded[q])
      BY <3>1 DEF BInv, RowsBacked
    <3>8. prov[q] = "CAPTURED" /\ refunded[q] <= provRefunded[q]
      BY <3>1, <3>7 DEF Backed, PaidRow
    <3>9. Held("refundMark", f)
      BY <3>1, <3>4, <3>8 DEF Held, RowHeld, Unmarked, MarkedLabels, RefundLabels
    <3> QED
      BY <2>1, <3>6, <3>9, FindGood
  <2> QED
    BY <2>2, <2>3
<1>2. CASE RefundMark(h)
  <2>1. pc[h] = "refundMark"
    BY <1>2 DEF RefundMark, SetPayStatus
  <2>2. payStatus[p] \notin Unmarked /\ prov[p] = "CAPTURED" /\ frame[h].snap <= provRefunded[p]
    BY <2>1, RowKnown DEF RowHeld, MarkedLabels, RefundLabels
  <2>3. "refundMark" \in PayLabels /\ "REFUND_PENDING" \notin Unmarked /\ "NONE" \in Unmarked
    BY DEF PayLabels, RefundLabels, Unmarked
  <2> QED
    BY <1>2, <2>2, <2>3, MarkGood DEF RefundMark
<1>3. CASE RefundProvider(h)
  <2>1. pc[h] = "refundProvider" /\ UNCHANGED <<payStatus, refunded, prov>>
    BY <1>3 DEF RefundProvider, payVars
  <2>2. CASE Finish(h) /\ UNCHANGED provRefunded
    BY <2>1, <2>2, EndsQuiet, QuietGood DEF RowsStay
  <2>3. CASE /\ provRefunded' = [provRefunded EXCEPT ![p] = @ + frame[h].amt]
             /\ (Goto(h, "refundTx") /\ UNCHANGED frame) \/ Finish(h)
    <3>1. \/ OthersStay(h) /\ pc'[h] = "refundTx" /\ frame'[h] = frame[h]
          \/ OthersStay(h) /\ pc'[h] = "idle"
      BY <2>3, GoesOn, Ends
    <3>2. /\ p \in Payments /\ payStatus[p] \notin Unmarked /\ prov[p] = "CAPTURED"
          /\ frame[h].snap <= provRefunded[p]
          /\ Backed(payStatus[p], prov[p], refunded[p], provRefunded[p])
      BY <2>1, RowKnown DEF RowHeld, MarkedLabels, RefundLabels, PayLabels
    <3>3. /\ provRefunded[p] \in 0..Fee /\ refunded[p] \in 0..Fee
          /\ frame[h].amt \in 0..Fee /\ frame[h].snap \in 0..Fee
      BY <3>2, HandlerKnows DEF IInv, DataInv, PaymentsTyped, ProviderTyped
    <3>4. provRefunded'[p] = provRefunded[p] + frame[h].amt /\ OnlyRow(p)
      BY <2>1, <2>3, <3>2 DEF OnlyRow, IInv, DataInv, ProviderTyped
    <3>5. /\ provRefunded[p] <= provRefunded'[p] /\ refunded[p] <= provRefunded'[p]
          /\ frame[h].snap <= provRefunded'[p] /\ frame[h].snap + frame[h].amt <= provRefunded'[p]
      BY <3>2, <3>3, <3>4, FeeAssumption DEF Backed
    <3>6. Backed(payStatus'[p], prov'[p], refunded'[p], provRefunded'[p])
      BY <2>1, <3>2, <3>5 DEF Backed
    <3>7. Forward(payStatus[p], prov[p], provRefunded[p], payStatus'[p], prov'[p], provRefunded'[p])
      BY <2>1, <3>2, <3>5 DEF Forward, Unmarked
    <3>8. Held(pc[h], frame[h])' /\ pc'[h] # "checkoutCreate"
      BY <2>1, <3>1, <3>2, <3>5 DEF Held, RowHeld, MarkedLabels, RefundLabels
    <3> QED
      BY <2>1, <3>1, <3>2, <3>4, <3>6, <3>7, <3>8, RowMoves DEF Unmarked
  <2> QED
    BY <1>3, <2>2, <2>3 DEF RefundProvider
<1>4. CASE RefundTx(h)
  <2> DEFINE total == frame[h].snap + frame[h].amt
             new   == IF total >= captured[p] THEN "REFUNDED" ELSE "PARTIALLY_REFUNDED"
  <2>1. pc[h] = "refundTx"
    BY <1>4 DEF RefundTx
  <2>2. /\ p \in Payments /\ payStatus[p] \notin Unmarked /\ prov[p] = "CAPTURED"
        /\ total <= provRefunded[p]
        /\ Backed(payStatus[p], prov[p], refunded[p], provRefunded[p])
    BY <2>1, RowKnown DEF RowHeld, MarkedLabels, RefundLabels, PayLabels
  <2>3. OthersStay(h) /\ pc'[h] \notin HoldLabels
    BY <1>4, Returns, ReturnHoldsNothing DEF RefundTx
  <2>4. /\ payStatus' = [payStatus EXCEPT ![p] = new] /\ refunded' = [refunded EXCEPT ![p] = total]
        /\ UNCHANGED <<prov, provRefunded>>
    BY <1>4 DEF RefundTx, provVars
  <2>5. new \in {"REFUNDED", "PARTIALLY_REFUNDED"}
    OBVIOUS
  <2> HIDE DEF new, total
  <2>6. payStatus'[p] = new /\ refunded'[p] = total /\ OnlyRow(p)
    BY <2>2, <2>4 DEF OnlyRow, IInv, DataInv, PaymentsTyped
  <2>7. Backed(payStatus'[p], prov'[p], refunded'[p], provRefunded'[p])
    BY <2>2, <2>4, <2>5, <2>6 DEF Backed
  <2>8. provRefunded[p] \in 0..Fee
    BY <2>2 DEF IInv, DataInv, ProviderTyped
  <2>9. Forward(payStatus[p], prov[p], provRefunded[p], payStatus'[p], prov'[p], provRefunded'[p])
    BY <2>2, <2>4, <2>5, <2>6, <2>8, FeeAssumption DEF Forward, Unmarked, Unclaimed
  <2>10. Held(pc[h], frame[h])' /\ pc'[h] # "checkoutCreate"
    BY <2>3 DEF Held, RowHeld, HoldLabels, MarkedLabels, RefundLabels
  <2> QED
    BY <2>2, <2>3, <2>6, <2>7, <2>9, <2>10, RowMoves DEF Unmarked
<1> QED
  BY <1>1, <1>2, <1>3, <1>4 DEF Refund

LEMMA AfterAssertQuiet ==
    ASSUME IInv, NEW h \in Handlers, AfterAssert(h)
    PROVE  OthersStay(h) /\ pc'[h] \notin HoldLabels
BY GoesOn, Ends DEF AfterAssert, HoldLabels, MarkedLabels, RefundLabels

\* Saferpay opens a transaction that no row refers to yet.
LEMMA CheckoutProviderGood ==
    ASSUME IInv, IInv', BInv, NEW h \in Handlers, CheckoutProvider(h)
    PROVE  Good
<1>1. UNCHANGED <<payStatus, refunded, provRefunded>>
  BY DEF CheckoutProvider, payVars
<1>2. CASE Finish(h) /\ UNCHANGED prov
  BY <1>1, <1>2, EndsQuiet, QuietGood DEF RowsStay
<1>3. ASSUME NEW p \in Payments, prov[p] = "NONE",
             prov' = [prov EXCEPT ![p] = IF frame[h].op = "checkout" THEN "OPEN" ELSE "AUTHORIZED"],
             \/ Goto(h, "checkoutCreate") /\ frame' = [frame EXCEPT ![h].pay = p]
             \/ Finish(h)
      PROVE  Good
  <2>1. /\ prov'[p] = IF frame[h].op = "checkout" THEN "OPEN" ELSE "AUTHORIZED"
        /\ \A q \in Payments \ {p} : prov'[q] = prov[q]
    BY <1>3 DEF IInv, DataInv, ProviderTyped
  <2>2. Backed(payStatus[p], prov[p], refunded[p], provRefunded[p])
    BY DEF BInv, RowsBacked
  <2>3. payStatus[p] = "NONE" /\ payStatus'[p] = "NONE"
    BY <1>1, <1>3, <2>2 DEF Backed
  <2>4. RowsBacked'
    <3> SUFFICES ASSUME NEW q \in Payments
                 PROVE  Backed(payStatus'[q], prov'[q], refunded'[q], provRefunded'[q])
      BY DEF RowsBacked
    <3>1. CASE q = p
      BY <1>1, <2>1, <2>2, <2>3, <3>1 DEF Backed, PaidRow
    <3>2. CASE q # p
      BY <1>1, <2>1, <3>2 DEF BInv, RowsBacked
    <3> QED
      BY <3>1, <3>2
  <2>5. RowsForward
    <3> SUFFICES ASSUME NEW q \in Payments
                 PROVE  Forward(payStatus[q], prov[q], provRefunded[q],
                                payStatus'[q], prov'[q], provRefunded'[q])
      BY DEF RowsForward
    <3>1. provRefunded[q] \in 0..Fee /\ provRefunded'[q] = provRefunded[q]
      BY <1>1 DEF IInv, DataInv, ProviderTyped
    <3>2. prov[q] = "NONE" \/ prov'[q] = prov[q]
      BY <1>3, <2>1
    <3>3. payStatus'[q] = payStatus[q]
      BY <1>1
    <3> QED
      BY <3>1, <3>2, <3>3, FeeAssumption DEF Forward
  <2>6. CASE Finish(h)
    <3>1. OthersStay(h) /\ pc'[h] = "idle"
      BY <2>6, Ends
    <3>2. Held(pc[h], frame[h])'
      BY <3>1 DEF Held, RowHeld, MarkedLabels, RefundLabels
    <3> QED
      BY <1>1, <2>4, <2>5, <3>1, <3>2, OneMoves DEF Good
  <2>7. CASE Goto(h, "checkoutCreate") /\ frame' = [frame EXCEPT ![h].pay = p]
    <3> DEFINE f == [frame[h] EXCEPT !.pay = p]
    <3>1. frame[h] \in Frames
      BY DEF IInv, ControlInv, FramesGood, FrameGood
    <3>2. f.pay = p /\ f.op = frame[h].op
      BY <3>1, FrameKeeps
    <3>3. frame' = [frame EXCEPT ![h] = f]
      BY <2>7
    <3> HIDE DEF f
    <3>4. OthersStay(h) /\ pc'[h] = "checkoutCreate" /\ frame'[h] = f
      BY <2>7, <3>3, MovesOn
    <3>5. Held(pc[h], frame[h])'
      BY <2>1, <2>3, <3>2, <3>4 DEF Held, RowHeld, MarkedLabels, RefundLabels
    <3>6. ASSUME NEW k \in Handlers \ {h}, pc[k] = "checkoutCreate"
          PROVE  frame[k].pay # p
      BY <1>3, <3>6, RowKnown DEF RowHeld
    <3> QED
      BY <1>1, <2>4, <2>5, <3>2, <3>4, <3>5, <3>6, OneMoves DEF Good
  <2> QED
    BY <1>3, <2>6, <2>7
<1> QED
  BY <1>2, <1>3 DEF CheckoutProvider

LEMMA CheckoutCreateGood ==
    ASSUME IInv, IInv', BInv, NEW h \in Handlers, CheckoutCreate(h)
    PROVE  Good
<1> DEFINE p == frame[h].pay
<1>1. pc[h] = "checkoutCreate"
  BY DEF CheckoutCreate
<1>2. /\ p \in Payments /\ payStatus[p] = "NONE" /\ prov[p] # "NONE"
      /\ frame[h].op # "checkout" => prov[p] = "AUTHORIZED"
      /\ Backed(payStatus[p], prov[p], refunded[p], provRefunded[p])
  BY <1>1, RowKnown DEF RowHeld, PayLabels
<1>3. payStatus' = [payStatus EXCEPT ![p] = "AUTH_PENDING"] /\ UNCHANGED <<refunded, prov, provRefunded>>
  BY DEF CheckoutCreate, provVars
<1>4. payStatus'[p] = "AUTH_PENDING" /\ OnlyRow(p)
  BY <1>2, <1>3 DEF OnlyRow, IInv, DataInv, PaymentsTyped
<1>5. /\ OthersStay(h)
      /\ \/ pc'[h] = "idle"
         \/ pc'[h] = "claim" /\ frame'[h] = frame[h] /\ frame[h].op # "checkout"
  <2>1. Finish(h) \/ (Goto(h, "claim") /\ UNCHANGED frame /\ frame[h].op # "checkout")
    BY DEF CheckoutCreate
  <2> QED
    BY <2>1, GoesOn, Ends
<1>6. Backed(payStatus'[p], prov'[p], refunded'[p], provRefunded'[p])
  BY <1>2, <1>3, <1>4 DEF Backed, PaidRow
<1>7. provRefunded[p] \in 0..Fee
  BY <1>2 DEF IInv, DataInv, ProviderTyped
<1>8. Forward(payStatus[p], prov[p], provRefunded[p], payStatus'[p], prov'[p], provRefunded'[p])
  BY <1>2, <1>3, <1>4, <1>7, FeeAssumption DEF Forward, Unmarked, Unclaimed
<1>9. Held(pc[h], frame[h])' /\ pc'[h] # "checkoutCreate"
  BY <1>2, <1>3, <1>4, <1>5 DEF Held, RowHeld, MarkedLabels, RefundLabels
<1> QED
  BY <1>1, <1>2, <1>4, <1>5, <1>6, <1>8, <1>9, RowMoves

LEMMA ClaimGood ==
    ASSUME IInv, IInv', BInv, NEW h \in Handlers, Claim(h)
    PROVE  Good
<1> DEFINE p == frame[h].pay
<1>1. pc[h] = "claim" /\ UNCHANGED <<refunded, prov, provRefunded>>
  BY DEF Claim, provVars
<1>2. OthersStay(h) /\ pc'[h] \notin HoldLabels
  BY AfterAssertQuiet DEF Claim
<1>3. CASE payStatus[p] = "AUTH_PENDING"
  <2>1. /\ p \in Payments /\ prov[p] = "AUTHORIZED"
        /\ Backed(payStatus[p], prov[p], refunded[p], provRefunded[p])
    BY <1>1, <1>3, RowKnown DEF RowHeld, PayLabels
  <2>2. payStatus' = [payStatus EXCEPT ![p] = "AUTHORIZED"]
    BY <1>3 DEF Claim
  <2>3. payStatus'[p] = "AUTHORIZED" /\ OnlyRow(p)
    BY <1>1, <2>1, <2>2 DEF OnlyRow, IInv, DataInv, PaymentsTyped
  <2>4. Backed(payStatus'[p], prov'[p], refunded'[p], provRefunded'[p])
    BY <1>1, <2>1, <2>3 DEF Backed, PaidRow
  <2>5. provRefunded[p] \in 0..Fee
    BY <2>1 DEF IInv, DataInv, ProviderTyped
  <2>6. Forward(payStatus[p], prov[p], provRefunded[p], payStatus'[p], prov'[p], provRefunded'[p])
    BY <1>1, <1>3, <2>1, <2>3, <2>5, FeeAssumption DEF Forward, Unmarked, Unclaimed
  <2>7. Held(pc[h], frame[h])' /\ pc'[h] # "checkoutCreate"
    BY <1>2 DEF Held, RowHeld, HoldLabels, MarkedLabels, RefundLabels
  <2> QED
    BY <1>2, <1>3, <2>1, <2>3, <2>4, <2>6, <2>7, RowMoves
<1>4. CASE payStatus[p] # "AUTH_PENDING"
  <2>1. UNCHANGED payStatus
    BY <1>4 DEF Claim
  <2> QED
    BY <1>1, <1>2, <2>1, QuietGood DEF Quiet, RowsStay
<1> QED
  BY <1>3, <1>4

LEMMA AuthorizeGood ==
    ASSUME IInv, IInv', BInv, NEW h \in Handlers, Authorize(h)
    PROVE  Good
<1>1. CASE AssertRead(h)
  <2> DEFINE q == LatestIn(PayStatuses)
  <2>1. RowsStay
    BY <1>1, DatabaseKeepsRows DEF AssertRead
  <2>2. CASE Finish(h)
    BY <2>1, <2>2, EndsQuiet, QuietGood
  <2>3. CASE AfterAssert(h)
    BY <2>1, <2>3, AfterAssertQuiet, QuietGood DEF Quiet
  <2>4. CASE ~Finish(h) /\ ~AfterAssert(h)
    <3>1. /\ q # NoPayment /\ payStatus[q] = "AUTH_PENDING"
          /\ Goto(h, "assertProvider") /\ frame' = [frame EXCEPT ![h].pay = q]
      BY <1>1, <2>4 DEF AssertRead
    <3>2. q \in Payments
      BY <3>1, LatestInFound DEF IInv, DataInv, PaymentsTyped
    <3> HIDE DEF q
    <3>3. RowHeld("assertProvider", frame'[h], payStatus[q], prov[q], provRefunded[q])
      BY <3>1 DEF RowHeld, MarkedLabels, RefundLabels
    <3> QED
      BY <2>1, <3>1, <3>2, <3>3, FindsGood
  <2> QED
    BY <2>2, <2>3, <2>4
<1>2. CASE AssertProvider(h)
  <2>1. RowsStay /\ pc[h] = "assertProvider"
    BY <1>2, DatabaseKeepsRows DEF AssertProvider
  <2>2. CASE Finish(h)
    BY <2>1, <2>2, EndsQuiet, QuietGood
  <2>3. CASE prov[frame[h].pay] = "AUTHORIZED" /\ Goto(h, "claim") /\ UNCHANGED frame
    <3>1. OthersStay(h) /\ pc'[h] = "claim" /\ frame'[h] = frame[h]
      BY <2>3, GoesOn
    <3>2. payStatus[frame[h].pay] # "NONE"
      BY <2>1, RowKnown DEF RowHeld
    <3>3. Held(pc'[h], frame'[h])
      BY <2>3, <3>1, <3>2 DEF Held, RowHeld, MarkedLabels, RefundLabels
    <3> QED
      BY <2>1, <3>1, <3>3, FindGood
  <2> QED
    BY <1>2, <2>2, <2>3 DEF AssertProvider
<1>3. CASE RecordEvent(h)
  <2>1. RowsStay /\ Finish(h)
    BY <1>3 DEF RecordEvent, RowsStay, payVars, provVars
  <2> QED
    BY <2>1, EndsQuiet, QuietGood
<1> QED
  BY <1>1, <1>2, <1>3, CheckoutProviderGood, CheckoutCreateGood, ClaimGood DEF Authorize

-----------------------------------------------------------------------------
(* The invariant holds in every reachable state.                           *)

LEMMA InitBacked == Init => BInv
<1> SUFFICES ASSUME Init PROVE BInv
  OBVIOUS
<1>1. RowsBacked
  BY FeeAssumption DEF Init, RowsBacked, Backed, PaidRow
<1>2. AllHeld
  BY NothingHeld DEF Init, AllHeld, HoldLabels, MarkedLabels, RefundLabels
<1>3. CreatedOnce
  BY DEF Init, CreatedOnce
<1> QED
  BY <1>1, <1>2, <1>3 DEF BInv

LEMMA StepGood ==
    ASSUME IInv, IInv', BInv, NEW h \in Handlers, Step(h)
    PROVE  Good
<1>1. CASE Cleanup(h) \/ Accept(h) \/ Cancel(h) \/ CheckIn(h)
  BY <1>1, CleanupQuiet, AcceptQuiet, CancelQuiet, CheckInQuiet, QuietGood
<1>2. CASE Authorize(h) \/ Capture(h) \/ Void(h) \/ Refund(h)
  BY <1>2, AuthorizeGood, CaptureGood, VoidGood, RefundGoodStep
<1> QED
  BY <1>1, <1>2 DEF Step

\* The guest, who pays whatever became of the reservation.
LEMMA GuestPaysGood ==
    ASSUME IInv, IInv', BInv, NEW p \in Payments, GuestPays(p)
    PROVE  Good
<1>1. /\ prov[p] = "OPEN" /\ prov'[p] = "AUTHORIZED"
      /\ \A q \in Payments \ {p} : prov'[q] = prov[q]
      /\ UNCHANGED <<payStatus, refunded, provRefunded, handlerVars>>
  BY DEF GuestPays, payVars, IInv, DataInv, ProviderTyped
<1>2. RowsBacked'
  BY <1>1 DEF BInv, RowsBacked, Backed, PaidRow
<1>3. RowsForward
  <2> SUFFICES ASSUME NEW q \in Payments
               PROVE  Forward(payStatus[q], prov[q], provRefunded[q],
                              payStatus'[q], prov'[q], provRefunded'[q])
    BY DEF RowsForward
  <2>1. provRefunded[q] \in 0..Fee
    BY DEF IInv, DataInv, ProviderTyped
  <2>2. \/ prov'[q] = prov[q]
        \/ prov[q] = "OPEN" /\ prov'[q] = "AUTHORIZED"
    BY <1>1
  <2> QED
    BY <1>1, <2>1, <2>2, FeeAssumption DEF Forward
<1>4. PICK h \in Handlers : TRUE
  BY DEF Handlers
<1>5. OthersStay(h) /\ pc'[h] = pc[h] /\ frame'[h] = frame[h]
  BY <1>1 DEF OthersStay, handlerVars
<1>6. Held(pc[h], frame[h])'
  <2>1. Held(pc[h], frame[h])
    BY DEF BInv, AllHeld
  <2>2. CASE pc[h] \in PayLabels
    <3>1. frame[h].pay \in Payments
      BY <2>2, RowKnown
    <3>2. \/ prov'[frame[h].pay] = prov[frame[h].pay]
          \/ prov[frame[h].pay] = "OPEN" /\ prov'[frame[h].pay] = "AUTHORIZED"
      BY <1>1, <3>1
    <3> QED
      BY <1>1, <1>5, <2>1, <3>2 DEF Held, RowHeld
  <2>3. CASE pc[h] \notin PayLabels
    BY <1>5, <2>1, <2>3 DEF Held, RowHeld, PayLabels, MarkedLabels, RefundLabels
  <2> QED
    BY <2>2, <2>3
<1>7. ASSUME NEW k \in Handlers \ {h}, pc[h] = "checkoutCreate", pc[k] = "checkoutCreate"
      PROVE  frame[k].pay # frame[h].pay
  BY <1>7 DEF BInv, CreatedOnce
<1> QED
  BY <1>1, <1>2, <1>3, <1>5, <1>6, <1>7, OneMoves DEF Good

\* A step that touches neither rows nor handlers.
LEMMA NothingGood ==
    ASSUME IInv, BInv, RowsStay, UNCHANGED handlerVars
    PROVE  Good
<1>1. AllHeld' /\ CreatedOnce'
  BY DEF BInv, AllHeld, Held, CreatedOnce, RowsStay, handlerVars
<1> QED
  BY <1>1, RowsStayForward, RowsStayBacked DEF Good, BInv

LEMMA NextGood ==
    ASSUME IInv, IInv', BInv, [Next]_vars
    PROVE  Good
<1>1. ASSUME NEW h \in Handlers, Begin(h) \/ Step(h) PROVE Good
  BY <1>1, BeginGood, StepGood
<1>2. ASSUME NEW h \in Handlers, Crash(h) PROVE Good
  BY <1>2, DatabaseKeepsRows, EndsQuiet, QuietGood DEF Crash
<1>3. ASSUME NEW p \in Payments, GuestPays(p) PROVE Good
  BY <1>3, GuestPaysGood
<1>4. CASE Tick \/ UNCHANGED vars
  <2>1. RowsStay /\ UNCHANGED handlerVars
    BY <1>4 DEF Tick, vars, RowsStay, payVars, provVars, handlerVars
  <2> QED
    BY <2>1, NothingGood
<1> QED
  BY <1>1, <1>2, <1>3, <1>4 DEF Next

\* What each handler relies on about its row and its transaction is kept by all the others.
THEOREM BackingInvariance == Spec => [](IInv /\ BInv)
<1>1. Init => IInv /\ BInv
  BY InitInv, InitBacked
<1>2. IInv /\ BInv /\ [Next]_vars => IInv' /\ BInv'
  BY NextInv, NextGood DEF Good
<1> QED
  BY <1>1, <1>2, PTL DEF Spec

\* No row is ahead of Saferpay, whatever is refused, lost or interleaved.
THEOREM RowsBackedByProvider == Spec => []BackedByProvider
<1>1. BInv => BackedByProvider
  BY DEF BInv, RowsBacked, Backed, PaidRow, BackedByProvider
<1> QED
  BY <1>1, BackingInvariance, PTL

-----------------------------------------------------------------------------
(* The venue is asked only with a fresh authorization.                     *)

LEMMA AskedByClaim ==
    ASSUME IInv, BInv, "PENDING_VENUE_CONFIRMATION" \notin AdminTargets, [Next]_vars
    PROVE  AskedWithPayment
<1> USE DEF DatabaseUnchanged, resVars
<1>1. ASSUME NEW h \in Handlers, Begin(h) PROVE AskedWithPayment
  BY <1>1 DEF Begin, CleanupBegin, CheckoutBegin, AssertBegin, NotifyBegin, DeclineBegin,
              CustomerCancelBegin, VenueCancelBegin, NoShowReportBegin, ProblemResolved,
              AdminRefundBegin, AdminCancel, CancelRow, SetStatusBegin, AskedWithPayment
<1>2. ASSUME NEW h \in Handlers, Cleanup(h) \/ Accept(h) \/ CheckIn(h) PROVE AskedWithPayment
  <2>1. \/ status' = status
        \/ status' \in {"EXPIRED", "NO_SHOW", "COMPLETED", "CHECK_IN_PENDING", "CONFIRMED",
                        "CHECKED_IN"}
    BY <1>2 DEF Cleanup, ExpireFind, ExpireWrite, ArrivalFind, ArrivalWrite, NightFind, NightWrite,
                Accept, AcceptRead, AcceptExpire, AcceptWrite, CheckIn, CheckInRead,
                CustomerCheckInRead, AdminCustomerCheckInRead, AdminVenueCheckInRead, CheckInIf,
                CheckInWrite
  <2> QED
    BY <2>1 DEF AskedWithPayment
<1>3. ASSUME NEW h \in Handlers, Capture(h) \/ Void(h) \/ Refund(h) PROVE status' = status
  BY <1>3 DEF Capture, CaptureFind, CaptureMark, CaptureProvider, CaptureTx, Void, VoidFind,
              VoidLocal, VoidMark, VoidProvider, VoidWrite, VoidLedger, Refund, RefundFind,
              RefundMark, RefundProvider, RefundTx, SetPayStatus
<1>4. ASSUME NEW h \in Handlers, Cancel(h) PROVE AskedWithPayment
  <2>1. CASE SetStatusWrite(h)
    <3>1. frame[h].target \in AdminTargets /\ status' = frame[h].target
      BY <2>1 DEF SetStatusWrite, BInv, AllHeld, Held
    <3> QED
      BY <3>1 DEF AskedWithPayment
  <2>2. CASE ~SetStatusWrite(h)
    <3>1. status' = status \/ status' \in {"DECLINED", "CANCELLED_BY_USER", "CANCELLED", "NO_SHOW"}
      BY <1>4, <2>2 DEF Cancel, DeclineWrite, CustomerCancelWrite, VenueCancelWrite,
                        NoShowReportWrite, AdminRefundCancel, CancelRow
    <3> QED
      BY <3>1 DEF AskedWithPayment
  <2> QED
    BY <2>1, <2>2
<1>5. ASSUME NEW h \in Handlers, Claim(h) PROVE AskedWithPayment
  <2>1. frame[h].pay \in Payments
    BY <1>5, RowKnown DEF Claim, PayLabels
  <2>2. CASE payStatus[frame[h].pay] = "AUTH_PENDING"
    <3>1. payStatus' = [payStatus EXCEPT ![frame[h].pay] = "AUTHORIZED"]
      BY <1>5, <2>2 DEF Claim
    <3>2. payStatus'[frame[h].pay] = "AUTHORIZED"
      BY <2>1, <3>1 DEF IInv, DataInv, PaymentsTyped
    <3> QED
      BY <2>1, <2>2, <3>2 DEF AskedWithPayment
  <2>3. CASE payStatus[frame[h].pay] # "AUTH_PENDING"
    BY <1>5, <2>3 DEF Claim, AskedWithPayment
  <2> QED
    BY <2>2, <2>3
<1>6. ASSUME NEW h \in Handlers, Authorize(h), ~Claim(h) PROVE status' \in {status, "REQUESTED"}
  BY <1>6 DEF Authorize, CheckoutProvider, CheckoutCreate, AssertRead, AssertProvider, RecordEvent
<1>7. ASSUME NEW h \in Handlers, Step(h) PROVE AskedWithPayment
  BY <1>2, <1>3, <1>4, <1>5, <1>6, <1>7 DEF Step, AskedWithPayment
<1>8. ASSUME NEW h \in Handlers, Crash(h) PROVE status' = status
  BY <1>8 DEF Crash
<1>9. ASSUME NEW p \in Payments, GuestPays(p) PROVE status' = status
  BY <1>9 DEF GuestPays
<1>10. CASE Tick \/ UNCHANGED vars
  BY <1>10 DEF Tick, vars, AskedWithPayment
<1> QED
  BY <1>1, <1>7, <1>8, <1>9, <1>10 DEF Next, AskedWithPayment

\* Whatever is replayed or overlaps, a row is authorized once, and the venue is asked
\* again only with a fresh authorization, unless an administrator is allowed to ask it.
THEOREM RowsAuthorizedOnce ==
    "PENDING_VENUE_CONFIRMATION" \notin AdminTargets => (Spec => AuthorizedOnce)
<1> SUFFICES ASSUME "PENDING_VENUE_CONFIRMATION" \notin AdminTargets PROVE Spec => AuthorizedOnce
  OBVIOUS
<1> DEFINE A == /\ \A p \in Payments :
                      payStatus'[p] = "AUTHORIZED" => payStatus[p] \in {"AUTH_PENDING", "AUTHORIZED"}
                /\ \A p \in Payments :
                      payStatus'[p] = "AUTH_PENDING" => payStatus[p] \in {"NONE", "AUTH_PENDING"}
                /\ status' = "PENDING_VENUE_CONFIRMATION" /\ status # "PENDING_VENUE_CONFIRMATION"
                      => \E p \in Payments : payStatus[p] = "AUTH_PENDING"
                                             /\ payStatus'[p] = "AUTHORIZED"
<1>1. ASSUME IInv, IInv', BInv, [Next]_vars PROVE [A]_vars
  <2>1. RowsForward
    BY <1>1, NextGood DEF Good
  <2>2. AskedWithPayment
    BY <1>1, AskedByClaim
  <2> QED
    BY <2>1, <2>2 DEF RowsForward, Forward, Unclaimed, AskedWithPayment
<1>2. IInv /\ BInv /\ [Next]_vars => [A]_vars
  BY <1>1, NextInv
<1>3. (Spec => [](IInv /\ BInv)) => (Spec => [][A]_vars)
  BY <1>2, PTL DEF Spec
<1> QED
  BY <1>3, BackingInvariance DEF AuthorizedOnce

-----------------------------------------------------------------------------
(* Where the money of a row is.                                            *)

RowLabels == HoldLabels \ {"setStatusWrite"}

\* Row status s, Saferpay's v, captured c, refunded r, Saferpay's refunds v2.
Lifecycle(s, v, c, r, v2) ==
    /\ s \notin PaidRow => c = 0 /\ r = 0 /\ v2 = 0
    /\ s \in PaidRow => c = Fee /\ v = "CAPTURED"
    /\ s = "CAPTURED" => r = 0
    /\ s \in PaidRow \ {"REFUND_PENDING"} => r = v2
    /\ s = "NONE" => v \in {"NONE", "OPEN", "AUTHORIZED"}
    /\ s = "AUTH_PENDING" => v \in {"OPEN", "AUTHORIZED"}
    /\ s = "AUTHORIZED" => v = "AUTHORIZED"
    /\ s = "CAPTURE_PENDING" => v \in {"AUTHORIZED", "CAPTURED"}
    /\ s = "VOID_PENDING" => v \in {"AUTHORIZED", "CANCELLED"}
    /\ s = "VOIDED" => v \in {"OPEN", "AUTHORIZED", "CANCELLED"}

RowRight(p) ==
    /\ Lifecycle(payStatus[p], prov[p], captured[p], refunded[p], provRefunded[p])
    /\ ledger[p].sum["CUSTOMER_REFUND"] = -refunded[p]

\* What the handler at l knows of its row.
RowAt(l, f, s, v, r, v2) ==
    /\ l = "checkoutCreate" => s = "NONE" /\ v # "NONE" /\ (f.op # "checkout" => v = "AUTHORIZED")
    /\ l \in {"assertProvider", "claim", "voidLocal"} => s = "AUTH_PENDING"
    /\ l = "claim" => v = "AUTHORIZED"
    /\ l \in {"captureMark", "voidMark"} => s = "AUTHORIZED"
    /\ l \in {"captureProvider", "captureTx"} => s = "CAPTURE_PENDING"
    /\ l \in {"voidProvider", "voidWrite"} => s = "VOID_PENDING"
    /\ l \in {"captureProvider", "voidProvider"} => v = "AUTHORIZED"
    /\ l = "captureTx" => v = "CAPTURED"
    /\ l = "voidWrite" => v = "CANCELLED"
    /\ l = "refundMark" => s \in {"CAPTURED", "PARTIALLY_REFUNDED"}
    /\ l \in {"refundProvider", "refundTx"} => s = "REFUND_PENDING"
    /\ l \in RefundLabels => f.snap = r
    /\ l = "refundProvider" => v2 = r
    /\ l = "refundTx" => v2 = r + f.amt

Knows(l, f) == RowAt(l, f, payStatus[f.pay], prov[f.pay], refunded[f.pay], provRefunded[f.pay])

\* Every row is listed, once.
RowsListed ==
    /\ \A p \in Payments : payStatus[p] # "NONE" <=> \E i \in DOMAIN rows : rows[i] = p
    /\ \A i, j \in DOMAIN rows : rows[i] = rows[j] => i = j

RowsAt(l, f) ==
    /\ \A p \in Payments : RowRight(p)
    /\ RowsListed
    /\ Knows(l, f)

OthersIdle(h) == \A k \in Handlers \ {h} : pc[k] = "idle"

RowsInv == \E h \in Handlers : OthersIdle(h) /\ RowsAt(pc[h], frame[h])

-----------------------------------------------------------------------------
(* One handler at a time.                                                  *)

\* A handler begins only when none is under way.
LEMMA BeginsAlone ==
    ASSUME MaxActive = 1, NEW w \in Handlers, OthersIdle(w), NEW h \in Handlers, MayBegin(h)
    PROVE  \A k \in Handlers : pc[k] = "idle"
<1>1. Active \subseteq {w}
  BY DEF Active, OthersIdle
<1>2. IsFiniteSet(Active)
  BY <1>1, FS_Subset, FS_Singleton
<1>3. Cardinality(Active) \in Nat /\ Cardinality(Active) < 1
  BY <1>2, FS_CardinalityType DEF MayBegin
<1>4. Active = {}
  BY <1>2, <1>3, FS_EmptySet
<1> QED
  BY <1>4 DEF Active

\* Every step but the first belongs to a handler that is under way.
LEMMA StepUnderWay ==
    ASSUME NEW h \in Handlers, Step(h) \/ Crash(h)
    PROVE  pc[h] # "idle"
<1>1. CASE Crash(h)
  BY <1>1 DEF Crash, Idle
<1>2. CASE Cleanup(h) \/ Authorize(h)
  BY <1>2 DEF Cleanup, ExpireFind, ExpireWrite, ArrivalFind, ArrivalWrite, NightFind, NightWrite,
     Authorize, CheckoutProvider, CheckoutCreate, AssertRead, AssertProvider, Claim, RecordEvent
<1>3. CASE Accept(h) \/ Capture(h)
  BY <1>3 DEF Accept, AcceptRead, AcceptExpire, AcceptWrite, Capture, CaptureFind, CaptureMark,
     CaptureProvider, CaptureTx, SetPayStatus
<1>4. CASE Void(h) \/ Refund(h)
  BY <1>4 DEF Void, VoidFind, VoidLocal, VoidMark, VoidProvider, VoidWrite, VoidLedger,
     Refund, RefundFind, RefundMark, RefundProvider, RefundTx, SetPayStatus
<1>5. CASE Cancel(h) \/ CheckIn(h)
  BY <1>5 DEF Cancel, DeclineWrite, CustomerCancelWrite, VenueCancelWrite, NoShowReportWrite,
     AdminRefundCancel, SetStatusWrite, CheckIn, CheckInRead, CustomerCheckInRead,
     AdminCustomerCheckInRead, AdminVenueCheckInRead, CheckInIf, CheckInWrite
<1> QED
  BY <1>1, <1>2, <1>3, <1>4, <1>5 DEF Step

LEMMA BeginMay ==
    ASSUME NEW h \in Handlers, Begin(h)
    PROVE  MayBegin(h)
BY DEF Begin, CleanupBegin, CheckoutBegin, AssertBegin, NotifyBegin, DeclineBegin,
       CustomerCancelBegin, VenueCancelBegin, NoShowReportBegin, ProblemResolved,
       AdminRefundBegin, AdminCancel, SetStatusBegin, BeginAt

LEMMA NothingKnown ==
    ASSUME NEW l, NEW f, l \notin RowLabels
    PROVE  Knows(l, f)
BY DEF Knows, RowAt, RowLabels, HoldLabels, MarkedLabels, RefundLabels

\* Whoever acts, the others are idle and the rows are as the actor knows them.
LEMMA ActsAlone ==
    ASSUME MaxActive = 1, RowsInv, NEW h \in Handlers, Begin(h) \/ Step(h) \/ Crash(h)
    PROVE  OthersIdle(h) /\ RowsAt(pc[h], frame[h])
<1>1. PICK w \in Handlers : OthersIdle(w) /\ RowsAt(pc[w], frame[w])
  BY DEF RowsInv
<1>2. CASE Begin(h)
  <2>1. \A k \in Handlers : pc[k] = "idle"
    BY <1>1, <1>2, BeginMay, BeginsAlone
  <2>2. "idle" \notin RowLabels
    BY DEF RowLabels, HoldLabels, MarkedLabels, RefundLabels
  <2>3. Knows(pc[h], frame[h])
    BY <2>1, <2>2, NothingKnown
  <2> QED
    BY <1>1, <2>1, <2>3 DEF OthersIdle, RowsAt
<1>3. CASE Step(h) \/ Crash(h)
  <2>1. h = w
    BY <1>1, <1>3, StepUnderWay DEF OthersIdle
  <2> QED
    BY <1>1, <2>1
<1> QED
  BY <1>2, <1>3

-----------------------------------------------------------------------------
(* Steps and rows.                                                         *)

BooksStay == UNCHANGED <<rows, captured, ledger>>

\* Nothing happens to the rows, and the handler goes where it needs none.
LEMMA QuietRows ==
    ASSUME NEW h \in Handlers, NEW f, RowsAt(pc[h], f), RowsStay, BooksStay,
           pc'[h] \notin RowLabels
    PROVE  RowsAt(pc[h], frame[h])'
<1>1. (\A p \in Payments : RowRight(p))'
  BY DEF RowsAt, RowRight, RowsStay, BooksStay
<1>2. RowsListed'
  BY DEF RowsAt, RowsListed, RowsStay, BooksStay
<1>3. Knows(pc[h], frame[h])'
  BY DEF Knows, RowAt, RowLabels, HoldLabels, MarkedLabels, RefundLabels
<1> QED
  BY <1>1, <1>2, <1>3 DEF RowsAt

\* Nothing happens to the rows, and the handler finds one as it needs it.
LEMMA FindsRow ==
    ASSUME NEW h \in Handlers, RowsAt(pc[h], frame[h]), RowsStay, BooksStay,
           Knows(pc'[h], frame'[h])
    PROVE  RowsAt(pc[h], frame[h])'
<1>1. (\A p \in Payments : RowRight(p))'
  BY DEF RowsAt, RowRight, RowsStay, BooksStay
<1>2. RowsListed'
  BY DEF RowsAt, RowsListed, RowsStay, BooksStay
<1>3. Knows(pc[h], frame[h])'
  BY DEF Knows, RowsStay
<1> QED
  BY <1>1, <1>2, <1>3 DEF RowsAt

\* One row changes, and no row is created.
OneRow(p) ==
    /\ OnlyRow(p)
    /\ \A q \in Payments \ {p} : captured'[q] = captured[q] /\ ledger'[q] = ledger[q]

LEMMA RowChanges ==
    ASSUME NEW h \in Handlers, RowsAt(pc[h], frame[h]), NEW p \in Payments, OneRow(p), RowRight(p)',
           rows' = rows, payStatus[p] # "NONE" <=> payStatus'[p] # "NONE", Knows(pc[h], frame[h])'
    PROVE  RowsAt(pc[h], frame[h])'
<1>1. (\A q \in Payments : RowRight(q))'
  BY DEF RowsAt, RowRight, OneRow, OnlyRow
<1>2. RowsListed'
  BY DEF RowsAt, RowsListed, OneRow, OnlyRow
<1> QED
  BY <1>1, <1>2 DEF RowsAt

-----------------------------------------------------------------------------
(* Steps that change no row.                                               *)

LEMMA RowsUntouched ==
    ASSUME NEW h \in Handlers, Cleanup(h) \/ Accept(h) \/ Cancel(h) \/ CheckIn(h)
    PROVE  BooksStay
<1> USE DEF BooksStay, DatabaseUnchanged, payVars, bookVars
<1>1. CASE Cleanup(h) \/ Accept(h)
  BY <1>1 DEF Cleanup, ExpireFind, ExpireWrite, ArrivalFind, ArrivalWrite, NightFind, NightWrite,
              Accept, AcceptRead, AcceptExpire, AcceptWrite
<1>2. CASE Cancel(h) \/ CheckIn(h)
  BY <1>2 DEF Cancel, DeclineWrite, CustomerCancelWrite, VenueCancelWrite, NoShowReportWrite,
              AdminRefundCancel, CancelRow, SetStatusWrite, CheckIn, CheckInRead,
              CustomerCheckInRead, AdminCustomerCheckInRead, AdminVenueCheckInRead, CheckInIf,
              CheckInWrite
<1> QED
  BY <1>1, <1>2

LEMMA UntouchedRows ==
    ASSUME IInv, NEW h \in Handlers, RowsAt(pc[h], frame[h]),
           Cleanup(h) \/ Accept(h) \/ Cancel(h) \/ CheckIn(h)
    PROVE  OthersStay(h) /\ RowsAt(pc[h], frame[h])'
<1>1. Quiet(h)
  BY CleanupQuiet, AcceptQuiet, CancelQuiet, CheckInQuiet
<1> QED
  BY <1>1, RowsUntouched, QuietRows DEF Quiet, RowLabels

LEMMA DatabaseKeepsBooks ==
    ASSUME DatabaseUnchanged
    PROVE  RowsStay /\ BooksStay
BY DatabaseKeepsRows DEF DatabaseUnchanged, BooksStay, payVars, bookVars

\* A request begins with a read or with a write of the reservation.
LEMMA BeginsAtNoRow ==
    ASSUME IInv, NEW h \in Handlers, NEW o, NEW l, NEW f, BeginAt(h, o, l, f), l \notin RowLabels
    PROVE  OthersStay(h) /\ pc'[h] \notin RowLabels
<1> DEFINE g == [f EXCEPT !.op = o]
<1>1. Goto(h, l) /\ frame' = [frame EXCEPT ![h] = g]
  BY DEF BeginAt
<1> HIDE DEF g
<1> QED
  BY <1>1, MovesOn

LEMMA BeginRows ==
    ASSUME IInv, NEW h \in Handlers, RowsAt(pc[h], frame[h]), Begin(h)
    PROVE  OthersStay(h) /\ RowsAt(pc[h], frame[h])'
<1>1. RowsStay /\ BooksStay
  <2>1. CASE ProblemResolved(h) \/ AdminCancel(h)
    BY <2>1 DEF ProblemResolved, AdminCancel, CancelRow, RowsStay, BooksStay, payVars, provVars,
                bookVars
  <2>2. CASE ~(ProblemResolved(h) \/ AdminCancel(h))
    BY <2>2, DatabaseKeepsBooks
       DEF Begin, CleanupBegin, CheckoutBegin, AssertBegin, NotifyBegin, DeclineBegin,
           CustomerCancelBegin, VenueCancelBegin, NoShowReportBegin, AdminRefundBegin, SetStatusBegin
  <2> QED
    BY <2>1, <2>2
<1>2. OthersStay(h) /\ pc'[h] \notin RowLabels
  <2>1. CASE CleanupBegin(h)
    <3>1. PICK o : Goto(h, "expFind") /\ frame' = [frame EXCEPT ![h].op = o]
      BY <2>1 DEF CleanupBegin
    <3>2. OthersStay(h) /\ pc'[h] = "expFind"
      BY <3>1 DEF IInv, ControlInv, HandlersTyped, Goto, OthersStay
    <3> QED
      BY <3>2 DEF RowLabels, HoldLabels, MarkedLabels, RefundLabels
  <2>2. CASE ProblemResolved(h) \/ AdminCancel(h)
    BY <2>2 DEF ProblemResolved, AdminCancel, MayBegin, Idle, OthersStay, handlerVars, RowLabels,
                HoldLabels, MarkedLabels, RefundLabels
  <2>3. ASSUME NEW o, NEW f,
               NEW l \in {"checkoutProvider", "assertRead", "declineWrite", "customerCancelWrite",
                          "venueCancelWrite", "noShowWrite", "refundFind", "setStatusWrite"},
               BeginAt(h, o, l, f)
        PROVE  OthersStay(h) /\ pc'[h] \notin RowLabels
    <3>1. l \notin RowLabels
      BY DEF RowLabels, HoldLabels, MarkedLabels, RefundLabels
    <3> QED
      BY <2>3, <3>1, BeginsAtNoRow
  <2>4. CASE CheckoutBegin(h, "checkout") \/ CheckoutBegin(h, "payStored")
    BY <2>3, <2>4 DEF CheckoutBegin
  <2>5. CASE AssertBegin(h) \/ \E p \in Payments : NotifyBegin(h, p)
    BY <2>3, <2>5 DEF AssertBegin, NotifyBegin
  <2>6. CASE DeclineBegin(h) \/ CustomerCancelBegin(h) \/ VenueCancelBegin(h) \/ NoShowReportBegin(h)
    BY <2>3, <2>6 DEF DeclineBegin, CustomerCancelBegin, VenueCancelBegin, NoShowReportBegin
  <2>7. CASE AdminRefundBegin(h)
    <3>1. PICK f : BeginAt(h, "adminRefund", "refundFind", f)
      BY <2>7 DEF AdminRefundBegin
    <3> QED
      BY <2>3, <3>1
  <2>8. CASE SetStatusBegin(h)
    <3>1. PICK f : BeginAt(h, "setStatus", "setStatusWrite", f)
      BY <2>8, Zenon DEF SetStatusBegin
    <3> QED
      BY <2>3, <3>1
  <2> QED
    BY <2>1, <2>2, <2>4, <2>5, <2>6, <2>7, <2>8 DEF Begin
<1> QED
  BY <1>1, <1>2, QuietRows

-----------------------------------------------------------------------------
(* Where the other steps take the handler, and what they do to its row.    *)

LEMMA Finishes ==
    ASSUME IInv, NEW h \in Handlers, Finish(h)
    PROVE  OthersStay(h) /\ pc'[h] = "idle" /\ frame'[h] = IdleFrame
BY MovesOn DEF Finish

\* A shared procedure leaves its caller an empty frame.
LEMMA ReturnsTo ==
    ASSUME IInv, NEW h \in Handlers, Return(h)
    PROVE  /\ OthersStay(h) /\ pc'[h] = frame[h].ret /\ frame[h].ret \in ReturnLabels
           /\ frame'[h].ret = "idle" /\ frame'[h].op \in {"none", frame[h].op}
<1>1. frame[h].ret \in ReturnLabels
  BY DEF IInv, ControlInv, FramesGood, FrameGood
<1>2. CASE frame[h].ret = "idle"
  BY <1>1, <1>2, Finishes, IdleFrameGood DEF Return
<1>3. CASE frame[h].ret # "idle"
  <2> DEFINE f == [IdleFrame EXCEPT !.op = frame[h].op, !.event = frame[h].event]
  <2>1. Goto(h, frame[h].ret) /\ frame' = [frame EXCEPT ![h] = f]
    BY <1>3 DEF Return
  <2>2. f.ret = "idle" /\ f.op = frame[h].op
    BY DEF IdleFrame
  <2> HIDE DEF f
  <2> QED
    BY <1>1, <2>1, <2>2, MovesOn
<1> QED
  BY <1>2, <1>3

\* It found row p, and goes on at l.
TookRow(h, l, p) == Goto(h, l) /\ frame' = [frame EXCEPT ![h].pay = p]

\* The handler takes the row it found.
LEMMA TakesRow ==
    ASSUME IInv, NEW h \in Handlers, NEW l, NEW p, TookRow(h, l, p)
    PROVE  /\ OthersStay(h) /\ pc'[h] = l
           /\ frame'[h].pay = p /\ frame'[h].op = frame[h].op /\ frame'[h].ret = frame[h].ret
           /\ frame'[h].amt = frame[h].amt /\ frame'[h].snap = frame[h].snap
<1> DEFINE f == [frame[h] EXCEPT !.pay = p]
<1>1. frame[h] \in Frames
  BY DEF IInv, ControlInv, FramesGood, FrameGood
<1>2. f.pay = p /\ f.op = frame[h].op /\ f.ret = frame[h].ret /\ f.amt = frame[h].amt
      /\ f.snap = frame[h].snap
  BY <1>1, FrameKeeps
<1>3. Goto(h, l) /\ frame' = [frame EXCEPT ![h] = f]
  BY DEF TookRow
<1> HIDE DEF f
<1>4. OthersStay(h) /\ pc'[h] = l /\ frame'[h] = f
  BY <1>3, MovesOn
<1> QED
  BY <1>2, <1>4

\* "update where id" of a payment row.
LEMMA MarksRow ==
    ASSUME IInv, NEW h \in Handlers, NEW label, NEW new, NEW next,
           SetPayStatus(h, label, new, next), label \in PayLabels
    PROVE  /\ pc[h] = label /\ frame[h].pay \in Payments
           /\ OthersStay(h) /\ pc'[h] = next /\ frame'[h] = frame[h]
           /\ payStatus'[frame[h].pay] = new /\ OneRow(frame[h].pay)
           /\ UNCHANGED <<rows, captured, refunded, prov, provRefunded, ledger, status, refundCents>>
<1> DEFINE p == frame[h].pay
<1>1. p \in Payments /\ pc[h] = label
  BY DEF SetPayStatus, IInv, ControlInv, FramesGood, FrameGood
<1>2. UNCHANGED <<rows, captured, refunded, prov, provRefunded, ledger, status, refundCents>>
  BY DEF SetPayStatus, provVars, bookVars, resVars
<1>3. payStatus'[p] = new /\ OneRow(p)
  BY <1>1, <1>2 DEF SetPayStatus, OneRow, OnlyRow, IInv, DataInv, PaymentsTyped
<1>4. OthersStay(h) /\ pc'[h] = next /\ frame'[h] = frame[h]
  BY GoesOn DEF SetPayStatus
<1> QED
  BY <1>1, <1>2, <1>3, <1>4

LEMMA CaptureProviderDoes ==
    ASSUME IInv, NEW h \in Handlers, CaptureProvider(h)
    PROVE  LET p == frame[h].pay
           IN  /\ pc[h] = "captureProvider" /\ p \in Payments /\ OthersStay(h) /\ OneRow(p)
               /\ UNCHANGED <<payStatus, refunded, provRefunded, rows, captured, ledger, status,
                              refundCents>>
               /\ \/ /\ prov[p] = "AUTHORIZED" /\ prov'[p] = "CAPTURED"
                     /\ \/ pc'[h] = "captureTx" /\ frame'[h] = frame[h]
                        \/ Faults # {} /\ pc'[h] = "idle" /\ frame'[h] = IdleFrame
                  \/ /\ prov'[p] = prov[p] /\ (prov[p] # "AUTHORIZED" \/ Faults # {})
                     /\ pc'[h] = "idle" /\ frame'[h] = IdleFrame
<1> DEFINE p == frame[h].pay
<1>1. pc[h] = "captureProvider" /\ p \in Payments
  BY DEF CaptureProvider, PayLabels, IInv, ControlInv, FramesGood, FrameGood
<1>2. UNCHANGED <<payStatus, refunded, provRefunded, rows, captured, ledger, status, refundCents>>
  BY DEF CaptureProvider, payVars, bookVars, resVars
<1>3. CASE /\ prov[p] = "AUTHORIZED" /\ prov' = [prov EXCEPT ![p] = "CAPTURED"]
           /\ (Goto(h, "captureTx") /\ UNCHANGED frame) \/ ("timeout" \in Faults /\ Finish(h))
  <2>1. prov'[p] = "CAPTURED" /\ OneRow(p)
    BY <1>1, <1>2, <1>3 DEF OneRow, OnlyRow, IInv, DataInv, ProviderTyped
  <2> QED
    BY <1>1, <1>2, <1>3, <2>1, GoesOn, Finishes
<1>4. CASE (prov[p] # "AUTHORIZED" \/ "reject" \in Faults) /\ Finish(h) /\ UNCHANGED prov
  BY <1>1, <1>2, <1>4, Finishes DEF OneRow, OnlyRow
<1> QED
  BY <1>3, <1>4 DEF CaptureProvider

LEMMA VoidProviderDoes ==
    ASSUME IInv, NEW h \in Handlers, VoidProvider(h)
    PROVE  LET p == frame[h].pay
           IN  /\ pc[h] = "voidProvider" /\ p \in Payments /\ OthersStay(h) /\ OneRow(p)
               /\ UNCHANGED <<payStatus, refunded, provRefunded, rows, captured, ledger, status,
                              refundCents>>
               /\ \/ /\ prov[p] = "AUTHORIZED" /\ prov'[p] = "CANCELLED"
                     /\ \/ pc'[h] = "voidWrite" /\ frame'[h] = frame[h]
                        \/ Faults # {} /\ pc'[h] = "idle" /\ frame'[h] = IdleFrame
                  \/ /\ prov'[p] = prov[p] /\ (prov[p] # "AUTHORIZED" \/ Faults # {})
                     /\ pc'[h] = "idle" /\ frame'[h] = IdleFrame
<1> DEFINE p == frame[h].pay
<1>1. pc[h] = "voidProvider" /\ p \in Payments
  BY DEF VoidProvider, PayLabels, IInv, ControlInv, FramesGood, FrameGood
<1>2. UNCHANGED <<payStatus, refunded, provRefunded, rows, captured, ledger, status, refundCents>>
  BY DEF VoidProvider, payVars, bookVars, resVars
<1>3. CASE /\ prov[p] = "AUTHORIZED" /\ prov' = [prov EXCEPT ![p] = "CANCELLED"]
           /\ (Goto(h, "voidWrite") /\ UNCHANGED frame) \/ ("timeout" \in Faults /\ Finish(h))
  <2>1. prov'[p] = "CANCELLED" /\ OneRow(p)
    BY <1>1, <1>2, <1>3 DEF OneRow, OnlyRow, IInv, DataInv, ProviderTyped
  <2> QED
    BY <1>1, <1>2, <1>3, <2>1, GoesOn, Finishes
<1>4. CASE (prov[p] # "AUTHORIZED" \/ "reject" \in Faults) /\ Finish(h) /\ UNCHANGED prov
  BY <1>1, <1>2, <1>4, Finishes DEF OneRow, OnlyRow
<1> QED
  BY <1>3, <1>4 DEF VoidProvider

LEMMA CaptureTxDoes ==
    ASSUME IInv, NEW h \in Handlers, CaptureTx(h)
    PROVE  LET p == frame[h].pay
           IN  /\ pc[h] = "captureTx" /\ p \in Payments /\ OthersStay(h) /\ OneRow(p)
               /\ pc'[h] = "acceptWrite" /\ frame'[h] = frame[h]
               /\ payStatus'[p] = "CAPTURED" /\ captured'[p] = Fee
               /\ ledger'[p].sum["CUSTOMER_REFUND"] = ledger[p].sum["CUSTOMER_REFUND"]
               /\ UNCHANGED <<refunded, prov, provRefunded, rows, status, refundCents>>
<1> DEFINE p == frame[h].pay
<1>1. pc[h] = "captureTx" /\ p \in Payments
  BY DEF CaptureTx, PayLabels, IInv, ControlInv, FramesGood, FrameGood
<1>2. /\ payStatus' = [payStatus EXCEPT ![p] = "CAPTURED"] /\ captured' = [captured EXCEPT ![p] = Fee]
      /\ UNCHANGED <<refunded, prov, provRefunded, rows, status, refundCents>>
  BY DEF CaptureTx, provVars, resVars
<1>3. PICK isFirst \in BOOLEAN :
          ledger' = [ledger EXCEPT ![p] = CaptureEntries(@, ReservationAllocation(Fee, isFirst))]
  BY DEF CaptureTx
<1>4. payStatus'[p] = "CAPTURED" /\ captured'[p] = Fee /\ OneRow(p)
  BY <1>1, <1>2, <1>3 DEF OneRow, OnlyRow, IInv, DataInv, PaymentsTyped, BooksTyped
<1>5. ledger'[p] = CaptureEntries(ledger[p], ReservationAllocation(Fee, isFirst))
  BY <1>1, <1>3 DEF IInv, DataInv, BooksTyped
<1>6. ledger'[p].sum["CUSTOMER_REFUND"] = ledger[p].sum["CUSTOMER_REFUND"]
  BY <1>5 DEF CaptureEntries, EntryTypes, CaptureTypes
<1>7. OthersStay(h) /\ pc'[h] = "acceptWrite" /\ frame'[h] = frame[h]
  BY GoesOn DEF CaptureTx
<1> QED
  BY <1>1, <1>2, <1>4, <1>6, <1>7

LEMMA VoidLedgerDoes ==
    ASSUME IInv, NEW h \in Handlers, VoidLedger(h)
    PROVE  LET p == frame[h].pay
           IN  /\ pc[h] = "voidLedger" /\ p \in Payments /\ OthersStay(h) /\ OneRow(p)
               /\ pc'[h] = frame[h].ret /\ frame[h].ret \in ReturnLabels
               /\ frame'[h].ret = "idle" /\ frame'[h].op \in {"none", frame[h].op}
               /\ ledger'[p].sum["CUSTOMER_REFUND"] = ledger[p].sum["CUSTOMER_REFUND"]
               /\ UNCHANGED <<payStatus, captured, refunded, prov, provRefunded, rows, status,
                              refundCents>>
<1> DEFINE p == frame[h].pay
<1>1. pc[h] = "voidLedger" /\ p \in Payments
  BY DEF VoidLedger, PayLabels, IInv, ControlInv, FramesGood, FrameGood
<1>2. UNCHANGED <<payStatus, captured, refunded, prov, provRefunded, rows, status, refundCents>>
  BY DEF VoidLedger, payVars, provVars, resVars
<1>3. ledger'[p] = AddEntry(ledger[p], "PAYMENT_VOID", -Fee) /\ OneRow(p)
  BY <1>1, <1>2 DEF VoidLedger, OneRow, OnlyRow, IInv, DataInv, BooksTyped
<1>4. ledger[p] \in Ledgers
  BY <1>1 DEF IInv, DataInv, BooksTyped
<1>5. ledger'[p].sum["CUSTOMER_REFUND"] = ledger[p].sum["CUSTOMER_REFUND"]
  <2>1. "PAYMENT_VOID" \in EntryTypes /\ "CUSTOMER_REFUND" \in EntryTypes \ {"PAYMENT_VOID"}
    BY DEF EntryTypes, CaptureTypes
  <2>2. -Fee \in Int
    BY FeeAssumption
  <2> QED
    BY <1>3, <1>4, <2>1, <2>2, EntryAdded
<1> QED
  BY <1>1, <1>2, <1>3, <1>5, ReturnsTo DEF VoidLedger

\* The entries that correct the split leave the refunds alone.
LEMMA SplitKeepsRefund ==
    ASSUME NEW l \in Ledgers, NEW paid, NEW returned
    PROVE  RefundAllocationEntries(l, paid, returned).sum["CUSTOMER_REFUND"]
               = l.sum["CUSTOMER_REFUND"]
<1> DEFINE target  == RefundAdjustedAllocation(paid, returned)
           current == CurrentLedgerAllocation(l.sum["CHIN_CHIN_FEE"], l.sum["VENUE_SHARE"])
           delta   == [t \in EntryTypes |-> CASE t = "CHIN_CHIN_FEE" -> target.fee - current.fee
                                              [] t = "VENUE_SHARE"   -> target.share - current.share
                                              [] OTHER               -> 0]
<1>1. RefundAllocationEntries(l, paid, returned).sum = [t \in EntryTypes |-> l.sum[t] + delta[t]]
  BY DEF RefundAllocationEntries
<1> HIDE DEF target, current
<1>2. delta["CUSTOMER_REFUND"] = 0
  BY DEF EntryTypes, CaptureTypes
<1> HIDE DEF delta
<1>3. "CUSTOMER_REFUND" \in EntryTypes /\ l.sum["CUSTOMER_REFUND"] \in Int
  BY DEF Ledgers, EntryTypes, CaptureTypes
<1> QED
  BY <1>1, <1>2, <1>3

LEMMA RefundProviderDoes ==
    ASSUME IInv, NEW h \in Handlers, RefundProvider(h)
    PROVE  LET p == frame[h].pay
           IN  /\ pc[h] = "refundProvider" /\ p \in Payments /\ OthersStay(h) /\ OneRow(p)
               /\ UNCHANGED <<payStatus, refunded, prov, rows, captured, ledger, status, refundCents>>
               /\ \/ /\ provRefunded'[p] = provRefunded[p] + frame[h].amt
                     /\ \/ pc'[h] = "refundTx" /\ frame'[h] = frame[h]
                        \/ Faults # {} /\ pc'[h] = "idle" /\ frame'[h] = IdleFrame
                  \/ /\ provRefunded'[p] = provRefunded[p]
                     /\ \/ ~(prov[p] = "CAPTURED" /\ provRefunded[p] + frame[h].amt <= Fee)
                        \/ Faults # {}
                     /\ pc'[h] = "idle" /\ frame'[h] = IdleFrame
<1> DEFINE p == frame[h].pay
           allowed == prov[p] = "CAPTURED" /\ provRefunded[p] + frame[h].amt <= Fee
<1>1. pc[h] = "refundProvider" /\ p \in Payments
  BY DEF RefundProvider, PayLabels, RefundLabels, IInv, ControlInv, FramesGood, FrameGood
<1>2. UNCHANGED <<payStatus, refunded, prov, rows, captured, ledger, status, refundCents>>
  BY DEF RefundProvider, payVars, bookVars, resVars
<1>3. CASE /\ provRefunded' = [provRefunded EXCEPT ![p] = @ + frame[h].amt]
           /\ (Goto(h, "refundTx") /\ UNCHANGED frame) \/ ("timeout" \in Faults /\ Finish(h))
  <2>1. provRefunded'[p] = provRefunded[p] + frame[h].amt /\ OneRow(p)
    BY <1>1, <1>2, <1>3 DEF OneRow, OnlyRow, IInv, DataInv, ProviderTyped
  <2> QED
    BY <1>1, <1>2, <1>3, <2>1, GoesOn, Finishes
<1>4. CASE (~allowed \/ "reject" \in Faults) /\ Finish(h) /\ UNCHANGED provRefunded
  BY <1>1, <1>2, <1>4, Finishes DEF OneRow, OnlyRow
<1> QED
  BY <1>3, <1>4 DEF RefundProvider

LEMMA RefundTxDoes ==
    ASSUME IInv, NEW h \in Handlers, RefundTx(h)
    PROVE  LET p     == frame[h].pay
               total == frame[h].snap + frame[h].amt
           IN  /\ pc[h] = "refundTx" /\ p \in Payments /\ OthersStay(h) /\ OneRow(p)
               /\ pc'[h] = frame[h].ret /\ frame[h].ret \in ReturnLabels
               /\ frame'[h].ret = "idle" /\ frame'[h].op \in {"none", frame[h].op}
               /\ payStatus'[p] \in {"REFUNDED", "PARTIALLY_REFUNDED"} /\ refunded'[p] = total
               /\ ledger'[p].sum["CUSTOMER_REFUND"] = ledger[p].sum["CUSTOMER_REFUND"] - frame[h].amt
               /\ refundCents' = total
               /\ UNCHANGED <<captured, prov, provRefunded, rows, status>>
<1> DEFINE p     == frame[h].pay
           total == frame[h].snap + frame[h].amt
           new   == IF total >= captured[p] THEN "REFUNDED" ELSE "PARTIALLY_REFUNDED"
           l     == AddEntry(ledger[p], "CUSTOMER_REFUND", -frame[h].amt)
<1>1. /\ pc[h] = "refundTx" /\ p \in Payments /\ frame[h].amt \in 0..Fee
  BY HandlerKnows DEF RefundTx, PayLabels, RefundLabels
<1>2. /\ payStatus' = [payStatus EXCEPT ![p] = new] /\ refunded' = [refunded EXCEPT ![p] = total]
      /\ ledger' = [ledger EXCEPT ![p] = RefundAllocationEntries(l, captured[p], total)]
      /\ refundCents' = total
      /\ UNCHANGED <<captured, prov, provRefunded, rows, status>>
  <2>1. ledger' = [ledger EXCEPT ![p] = RefundAllocationEntries(
                       AddEntry(@, "CUSTOMER_REFUND", -frame[h].amt), captured[p], total)]
    BY DEF RefundTx
  <2>2. ledger' = [ledger EXCEPT ![p] = RefundAllocationEntries(l, captured[p], total)]
    BY <2>1
  <2> QED
    BY <2>2 DEF RefundTx, provVars
<1>3. new \in {"REFUNDED", "PARTIALLY_REFUNDED"}
  OBVIOUS
<1>4. ledger[p] \in Ledgers /\ -frame[h].amt \in Int
  BY <1>1, FeeAssumption DEF IInv, DataInv, BooksTyped
<1>5. l \in Ledgers /\ l.sum["CUSTOMER_REFUND"] = ledger[p].sum["CUSTOMER_REFUND"] - frame[h].amt
  <2>1. "CUSTOMER_REFUND" \in EntryTypes
    BY DEF EntryTypes
  <2>2. l \in Ledgers
    BY <1>4, <2>1, EntryAdded
  <2>3. l.sum = [ledger[p].sum EXCEPT !["CUSTOMER_REFUND"] = @ + (-frame[h].amt)]
    BY DEF AddEntry
  <2>4. ledger[p].sum \in [EntryTypes -> Int] /\ frame[h].amt \in Int
    BY <1>1, <1>4, FeeAssumption DEF Ledgers
  <2> HIDE DEF l
  <2> QED
    BY <2>1, <2>2, <2>3, <2>4
<1> HIDE DEF new, total, l
<1>6. /\ payStatus'[p] = new /\ refunded'[p] = total /\ OneRow(p)
      /\ ledger'[p] = RefundAllocationEntries(l, captured[p], total)
  BY <1>1, <1>2 DEF OneRow, OnlyRow, IInv, DataInv, PaymentsTyped, BooksTyped
<1>7. ledger'[p].sum["CUSTOMER_REFUND"] = ledger[p].sum["CUSTOMER_REFUND"] - frame[h].amt
  BY <1>5, <1>6, SplitKeepsRefund
<1>8. Return(h)
  BY DEF RefundTx
<1> QED
  BY <1>1, <1>2, <1>3, <1>6, <1>7, <1>8, ReturnsTo DEF total

LEMMA RefundFindDoes ==
    ASSUME IInv, NEW h \in Handlers, RefundFind(h)
    PROVE  LET q    == LatestIn({"CAPTURED", "PARTIALLY_REFUNDED"})
               next == SmallerOf(frame[h].amt, captured[q] - refunded[q])
           IN  /\ pc[h] = "refundFind" /\ OthersStay(h) /\ DatabaseUnchanged
               /\ \/ /\ frame[h].amt <= 0 \/ q = NoPayment \/ next <= 0
                     /\ pc'[h] = frame[h].ret /\ frame[h].ret \in ReturnLabels
                     /\ frame'[h].ret = "idle" /\ frame'[h].op \in {"none", frame[h].op}
                  \/ /\ frame[h].amt > 0 /\ next > 0 /\ q \in Payments
                     /\ payStatus[q] \in {"CAPTURED", "PARTIALLY_REFUNDED"}
                     /\ pc'[h] = "refundMark"
                     /\ frame'[h].pay = q /\ frame'[h].amt = next /\ frame'[h].snap = refunded[q]
                     /\ frame'[h].ret = frame[h].ret /\ frame'[h].op = frame[h].op
<1> DEFINE q    == LatestIn({"CAPTURED", "PARTIALLY_REFUNDED"})
           next == SmallerOf(frame[h].amt, captured[q] - refunded[q])
<1>1. pc[h] = "refundFind" /\ DatabaseUnchanged
  BY DEF RefundFind
<1>2. CASE frame[h].amt <= 0 \/ q = NoPayment \/ next <= 0
  BY <1>1, <1>2, ReturnsTo DEF RefundFind
<1>3. CASE ~(frame[h].amt <= 0 \/ q = NoPayment \/ next <= 0)
  <2>1. q \in Payments /\ payStatus[q] \in {"CAPTURED", "PARTIALLY_REFUNDED"}
    BY <1>3, LatestInFound DEF IInv, DataInv, PaymentsTyped
  <2>2. Goto(h, "refundMark") /\
        frame' = [frame EXCEPT ![h] = [@ EXCEPT !.pay = q, !.amt = next, !.snap = refunded[q]]]
    BY <1>3 DEF RefundFind
  <2>3. /\ frame[h] \in Frames /\ frame[h].amt \in 0..Fee
        /\ captured[q] \in {0, Fee} /\ refunded[q] \in 0..Fee
    BY <2>1, HandlerKnows DEF IInv, DataInv, PaymentsTyped
  <2>4. frame[h].amt > 0 /\ next > 0
    BY <1>3, <2>3, FeeAssumption DEF SmallerOf
  <2> HIDE DEF q, next
  <2> DEFINE f == [frame[h] EXCEPT !.pay = q, !.amt = next, !.snap = refunded[q]]
  <2>5. /\ f.pay = q /\ f.amt = next /\ f.snap = refunded[q] /\ f.ret = frame[h].ret
        /\ f.op = frame[h].op
    BY <2>3 DEF Frames
  <2>6. frame' = [frame EXCEPT ![h] = f]
    BY <2>2
  <2> HIDE DEF f
  <2>7. OthersStay(h) /\ pc'[h] = "refundMark" /\ frame'[h] = f
    BY <2>2, <2>6, MovesOn
  <2> QED
    BY <1>1, <2>1, <2>4, <2>5, <2>7 DEF q, next
<1> QED
  BY <1>2, <1>3

LEMMA VoidFindDoes ==
    ASSUME IInv, NEW h \in Handlers, VoidFind(h)
    PROVE  LET q == LatestIn({"AUTH_PENDING", "AUTHORIZED"})
           IN  /\ pc[h] = "voidFind" /\ OthersStay(h) /\ DatabaseUnchanged
               /\ \/ /\ q = NoPayment
                     /\ pc'[h] = frame[h].ret /\ frame[h].ret \in ReturnLabels
                     /\ frame'[h].ret = "idle" /\ frame'[h].op \in {"none", frame[h].op}
                  \/ /\ q \in Payments
                     /\ \/ payStatus[q] = "AUTH_PENDING" /\ pc'[h] = "voidLocal"
                        \/ payStatus[q] = "AUTHORIZED" /\ pc'[h] = "voidMark"
                     /\ frame'[h].pay = q /\ frame'[h].ret = frame[h].ret
                     /\ frame'[h].op = frame[h].op
<1> DEFINE q == LatestIn({"AUTH_PENDING", "AUTHORIZED"})
           l == IF payStatus[q] = "AUTH_PENDING" THEN "voidLocal" ELSE "voidMark"
<1>1. pc[h] = "voidFind" /\ DatabaseUnchanged
  BY DEF VoidFind
<1>2. CASE q = NoPayment
  BY <1>1, <1>2, ReturnsTo DEF VoidFind
<1>3. CASE q # NoPayment
  <2>1. q \in Payments /\ payStatus[q] \in {"AUTH_PENDING", "AUTHORIZED"}
    BY <1>3, LatestInFound DEF IInv, DataInv, PaymentsTyped
  <2>2. TookRow(h, l, q)
    BY <1>3 DEF VoidFind, TookRow
  <2> HIDE DEF q, l
  <2>3. /\ OthersStay(h) /\ frame'[h].pay = q /\ frame'[h].ret = frame[h].ret
        /\ frame'[h].op = frame[h].op
        /\ pc'[h] = l
    BY <2>2, TakesRow
  <2> QED
    BY <1>1, <2>1, <2>3 DEF q, l
<1> QED
  BY <1>2, <1>3

LEMMA CaptureFindDoes ==
    ASSUME IInv, NEW h \in Handlers, CaptureFind(h)
    PROVE  LET q == LatestIn({"AUTHORIZED"})
           IN  /\ pc[h] = "captureFind" /\ OthersStay(h) /\ DatabaseUnchanged
               /\ \/ q = NoPayment /\ pc'[h] = "acceptWrite" /\ frame'[h] = frame[h]
                  \/ /\ q \in Payments /\ payStatus[q] = "AUTHORIZED" /\ pc'[h] = "captureMark"
                     /\ frame'[h].pay = q /\ frame'[h].ret = frame[h].ret
                     /\ frame'[h].op = frame[h].op
<1> DEFINE q == LatestIn({"AUTHORIZED"})
<1>1. pc[h] = "captureFind" /\ DatabaseUnchanged
  BY DEF CaptureFind
<1>2. CASE q = NoPayment
  BY <1>1, <1>2, GoesOn DEF CaptureFind
<1>3. CASE q # NoPayment
  <2>1. q \in Payments /\ payStatus[q] = "AUTHORIZED"
    BY <1>3, LatestInFound DEF IInv, DataInv, PaymentsTyped
  <2>2. TookRow(h, "captureMark", q)
    BY <1>3 DEF CaptureFind, TookRow
  <2> HIDE DEF q
  <2>3. /\ OthersStay(h) /\ frame'[h].pay = q /\ frame'[h].ret = frame[h].ret
        /\ frame'[h].op = frame[h].op
        /\ pc'[h] = "captureMark"
    BY <2>2, TakesRow
  <2> QED
    BY <1>1, <2>1, <2>3 DEF q
<1> QED
  BY <1>2, <1>3

\* After the assertion: the event is recorded, or the handler ends.
LEMMA AfterAssertDoes ==
    ASSUME IInv, NEW h \in Handlers, AfterAssert(h)
    PROVE  /\ OthersStay(h) /\ pc'[h] \in {"recordEvent", "idle"}
           /\ frame'[h] \in {frame[h], IdleFrame}
BY GoesOn, Finishes DEF AfterAssert

LEMMA AssertReadDoes ==
    ASSUME IInv, NEW h \in Handlers, AssertRead(h)
    PROVE  LET q == LatestIn(PayStatuses)
           IN  /\ pc[h] = "assertRead" /\ OthersStay(h) /\ DatabaseUnchanged
               /\ \/ pc'[h] \in {"recordEvent", "idle"} /\ frame'[h] \in {frame[h], IdleFrame}
                  \/ /\ q \in Payments /\ payStatus[q] = "AUTH_PENDING" /\ pc'[h] = "assertProvider"
                     /\ frame'[h].pay = q /\ frame'[h].ret = frame[h].ret
                     /\ frame'[h].op = frame[h].op
<1> DEFINE q == LatestIn(PayStatuses)
<1>1. pc[h] = "assertRead" /\ DatabaseUnchanged
  BY DEF AssertRead
<1>2. CASE Finish(h) \/ AfterAssert(h)
  BY <1>1, <1>2, Finishes, AfterAssertDoes
<1>3. CASE ~Finish(h) /\ ~AfterAssert(h)
  <2>1. q # NoPayment /\ payStatus[q] = "AUTH_PENDING"
    BY <1>3 DEF AssertRead
  <2>2. TookRow(h, "assertProvider", q)
    BY <1>3 DEF AssertRead, TookRow
  <2>3. q \in Payments
    BY <2>1, LatestInFound DEF IInv, DataInv, PaymentsTyped
  <2> HIDE DEF q
  <2>4. /\ OthersStay(h) /\ frame'[h].pay = q /\ frame'[h].ret = frame[h].ret
        /\ frame'[h].op = frame[h].op
        /\ pc'[h] = "assertProvider"
    BY <2>2, TakesRow
  <2> QED
    BY <1>1, <2>1, <2>3, <2>4 DEF q
<1> QED
  BY <1>2, <1>3

LEMMA CheckoutProviderDoes ==
    ASSUME IInv, NEW h \in Handlers, CheckoutProvider(h)
    PROVE  /\ pc[h] = "checkoutProvider" /\ OthersStay(h)
           /\ UNCHANGED <<payStatus, refunded, provRefunded, rows, captured, ledger, status,
                          refundCents>>
           /\ \/ prov' = prov /\ pc'[h] = "idle" /\ frame'[h] = IdleFrame
              \/ \E p \in Payments :
                    /\ prov[p] = "NONE" /\ OneRow(p)
                    /\ prov'[p] = IF frame[h].op = "checkout" THEN "OPEN" ELSE "AUTHORIZED"
                    /\ \/ /\ pc'[h] = "checkoutCreate" /\ frame'[h].pay = p
                          /\ frame'[h].op = frame[h].op /\ frame'[h].ret = frame[h].ret
                       \/ pc'[h] = "idle" /\ frame'[h] = IdleFrame
<1>1. /\ pc[h] = "checkoutProvider"
      /\ UNCHANGED <<payStatus, refunded, provRefunded, rows, captured, ledger, status, refundCents>>
  BY DEF CheckoutProvider, payVars, bookVars, resVars
<1>2. CASE Finish(h) /\ UNCHANGED prov
  BY <1>1, <1>2, Finishes
<1>3. ASSUME NEW p \in Payments, prov[p] = "NONE",
             prov' = [prov EXCEPT ![p] = IF frame[h].op = "checkout" THEN "OPEN" ELSE "AUTHORIZED"],
             \/ Goto(h, "checkoutCreate") /\ frame' = [frame EXCEPT ![h].pay = p]
             \/ Finish(h)
      PROVE  /\ OthersStay(h) /\ OneRow(p)
             /\ prov'[p] = IF frame[h].op = "checkout" THEN "OPEN" ELSE "AUTHORIZED"
             /\ \/ /\ pc'[h] = "checkoutCreate" /\ frame'[h].pay = p
                   /\ frame'[h].op = frame[h].op /\ frame'[h].ret = frame[h].ret
                \/ pc'[h] = "idle" /\ frame'[h] = IdleFrame
  <2>1. /\ prov'[p] = IF frame[h].op = "checkout" THEN "OPEN" ELSE "AUTHORIZED"
        /\ OneRow(p)
    BY <1>1, <1>3 DEF OneRow, OnlyRow, IInv, DataInv, ProviderTyped
  <2>2. CASE Goto(h, "checkoutCreate") /\ frame' = [frame EXCEPT ![h].pay = p]
    <3>1. TookRow(h, "checkoutCreate", p)
      BY <2>2 DEF TookRow
    <3> QED
      BY <2>1, <3>1, TakesRow
  <2>3. CASE Finish(h)
    BY <2>1, <2>3, Finishes
  <2> QED
    BY <1>3, <2>2, <2>3
<1> QED
  BY <1>1, <1>2, <1>3 DEF CheckoutProvider

LEMMA CheckoutCreateDoes ==
    ASSUME IInv, NEW h \in Handlers, CheckoutCreate(h)
    PROVE  LET p == frame[h].pay
           IN  /\ pc[h] = "checkoutCreate" /\ p \in Payments /\ OthersStay(h) /\ OneRow(p)
               /\ rows' = Append(rows, p) /\ payStatus'[p] = "AUTH_PENDING"
               /\ status' = "REQUESTED"
               /\ UNCHANGED <<captured, refunded, prov, provRefunded, ledger, refundCents>>
               /\ \/ pc'[h] = "idle" /\ frame'[h] = IdleFrame
                  \/ pc'[h] = "claim" /\ frame'[h] = frame[h] /\ frame[h].op # "checkout"
<1> DEFINE p == frame[h].pay
<1>1. pc[h] = "checkoutCreate" /\ p \in Payments
  BY DEF CheckoutCreate, PayLabels, IInv, ControlInv, FramesGood, FrameGood
<1>2. /\ rows' = Append(rows, p) /\ payStatus' = [payStatus EXCEPT ![p] = "AUTH_PENDING"]
      /\ status' = "REQUESTED"
      /\ UNCHANGED <<captured, refunded, prov, provRefunded, ledger, refundCents>>
  BY DEF CheckoutCreate, provVars, bookVars
<1>3. payStatus'[p] = "AUTH_PENDING" /\ OneRow(p)
  BY <1>1, <1>2 DEF OneRow, OnlyRow, IInv, DataInv, PaymentsTyped
<1>4. Finish(h) \/ (Goto(h, "claim") /\ UNCHANGED frame /\ frame[h].op # "checkout")
  BY DEF CheckoutCreate
<1> QED
  BY <1>1, <1>2, <1>3, <1>4, GoesOn, Finishes

LEMMA ClaimDoes ==
    ASSUME IInv, NEW h \in Handlers, Claim(h)
    PROVE  LET p == frame[h].pay
           IN  /\ pc[h] = "claim" /\ p \in Payments /\ OthersStay(h) /\ OneRow(p)
               /\ pc'[h] \in {"recordEvent", "idle"} /\ frame'[h] \in {frame[h], IdleFrame}
               /\ payStatus[p] = "AUTH_PENDING" =>
                     payStatus'[p] = "AUTHORIZED" /\ status' = "PENDING_VENUE_CONFIRMATION"
               /\ payStatus[p] # "AUTH_PENDING" => UNCHANGED <<payStatus, status>>
               /\ UNCHANGED <<captured, refunded, prov, provRefunded, ledger, refundCents, rows>>
<1> DEFINE p == frame[h].pay
<1>1. pc[h] = "claim" /\ p \in Payments
  BY DEF Claim, PayLabels, IInv, ControlInv, FramesGood, FrameGood
<1>2. UNCHANGED <<captured, refunded, prov, provRefunded, ledger, refundCents, rows>>
  BY DEF Claim, provVars, bookVars
<1>3. OthersStay(h) /\ pc'[h] \in {"recordEvent", "idle"} /\ frame'[h] \in {frame[h], IdleFrame}
  BY AfterAssertDoes DEF Claim
<1>4. CASE payStatus[p] = "AUTH_PENDING"
  <2>1. payStatus' = [payStatus EXCEPT ![p] = "AUTHORIZED"] /\ status' = "PENDING_VENUE_CONFIRMATION"
    BY <1>4 DEF Claim
  <2>2. payStatus'[p] = "AUTHORIZED" /\ OneRow(p)
    BY <1>1, <1>2, <2>1 DEF OneRow, OnlyRow, IInv, DataInv, PaymentsTyped
  <2> QED
    BY <1>1, <1>2, <1>3, <1>4, <2>1, <2>2
<1>5. CASE payStatus[p] # "AUTH_PENDING"
  <2>1. UNCHANGED <<payStatus, status>>
    BY <1>5 DEF Claim
  <2> QED
    BY <1>1, <1>2, <1>3, <1>5, <2>1 DEF OneRow, OnlyRow
<1> QED
  BY <1>4, <1>5

-----------------------------------------------------------------------------
(* Every step keeps the rows right.                                        *)

\* What is known of the row of a handler under way.
LEMMA RowInHand ==
    ASSUME IInv, NEW h \in Handlers, RowsAt(pc[h], frame[h]), pc[h] \in PayLabels
    PROVE  LET p == frame[h].pay
           IN  /\ p \in Payments /\ RowRight(p)
               /\ RowAt(pc[h], frame[h], payStatus[p], prov[p], refunded[p], provRefunded[p])
               /\ refunded[p] \in Nat /\ provRefunded[p] \in Nat /\ captured[p] \in {0, Fee}
               /\ frame[h].amt \in Nat /\ frame[h].snap \in Nat
               /\ ledger[p].sum["CUSTOMER_REFUND"] \in Int
<1> DEFINE p == frame[h].pay
<1>1. p \in Payments /\ frame[h].amt \in 0..Fee /\ frame[h].snap \in 0..Fee
  BY HandlerKnows
<1>2. RowRight(p) /\ RowAt(pc[h], frame[h], payStatus[p], prov[p], refunded[p], provRefunded[p])
  BY <1>1 DEF RowsAt, Knows
<1>3. refunded[p] \in 0..Fee /\ provRefunded[p] \in 0..Fee /\ captured[p] \in {0, Fee}
  BY <1>1 DEF IInv, DataInv, PaymentsTyped, ProviderTyped
<1>4. ledger[p].sum["CUSTOMER_REFUND"] \in Int
  BY <1>1 DEF IInv, DataInv, BooksTyped, Ledgers, EntryTypes
<1> QED
  BY <1>1, <1>2, <1>3, <1>4, FeeAssumption

LEMMA CaptureRows ==
    ASSUME IInv, NEW h \in Handlers, RowsAt(pc[h], frame[h]), Capture(h)
    PROVE  OthersStay(h) /\ RowsAt(pc[h], frame[h])'
<1> USE DEF RowAt, RefundLabels
<1>1. CASE CaptureFind(h)
  <2>1. RowsStay /\ BooksStay /\ OthersStay(h)
    BY <1>1, CaptureFindDoes, DatabaseKeepsBooks
  <2>2. Knows(pc'[h], frame'[h])
    BY <1>1, CaptureFindDoes DEF Knows
  <2> QED
    BY <2>1, <2>2, FindsRow
<1>2. CASE CaptureMark(h)
  <2>1. SetPayStatus(h, "captureMark", "CAPTURE_PENDING", "captureProvider") /\ "captureMark" \in PayLabels
    BY <1>2 DEF CaptureMark, PayLabels
  <2>0. PICK p \in Payments : p = frame[h].pay
    BY <2>1, HandlerKnows DEF SetPayStatus
  <2>2. /\ pc[h] = "captureMark" /\ OthersStay(h) /\ pc'[h] = "captureProvider" /\ frame'[h] = frame[h]
        /\ payStatus'[p] = "CAPTURE_PENDING" /\ OneRow(p)
        /\ UNCHANGED <<rows, captured, refunded, prov, provRefunded, ledger>>
    BY <2>0, <2>1, MarksRow
  <2>3. p \in Payments /\ RowRight(p) /\ payStatus[p] = "AUTHORIZED"
    BY <2>0, <2>1, <2>2, RowInHand
  <2>4. RowRight(p)' /\ Knows(pc[h], frame[h])'
    BY <2>0, <2>2, <2>3 DEF RowRight, Lifecycle, Knows, PaidRow
  <2> QED
    BY <2>0, <2>2, <2>3, <2>4, RowChanges
<1>3. CASE CaptureProvider(h)
  <2>1. pc[h] = "captureProvider" /\ pc[h] \in PayLabels
    BY <1>3, CaptureProviderDoes DEF PayLabels
  <2>0. PICK p \in Payments : p = frame[h].pay
    BY <2>1, HandlerKnows DEF SetPayStatus
  <2>2. p \in Payments /\ RowRight(p) /\ payStatus[p] = "CAPTURE_PENDING" /\ prov[p] = "AUTHORIZED"
    BY <2>0, <2>1, RowInHand
  <2>3. /\ OthersStay(h) /\ OneRow(p)
        /\ UNCHANGED <<payStatus, refunded, provRefunded, rows, captured, ledger>>
        /\ \/ prov'[p] = "CAPTURED" /\ (pc'[h] = "idle" \/ (pc'[h] = "captureTx" /\ frame'[h] = frame[h]))
           \/ prov'[p] = prov[p] /\ pc'[h] = "idle"
    BY <2>0, <1>3, CaptureProviderDoes
  <2>4. RowRight(p)' /\ Knows(pc[h], frame[h])'
    BY <2>0, <2>2, <2>3 DEF RowRight, Lifecycle, Knows, PaidRow
  <2> QED
    BY <2>0, <2>2, <2>3, <2>4, RowChanges
<1>4. CASE CaptureTx(h)
  <2>1. pc[h] = "captureTx" /\ pc[h] \in PayLabels
    BY <1>4, CaptureTxDoes DEF PayLabels
  <2>0. PICK p \in Payments : p = frame[h].pay
    BY <2>1, HandlerKnows DEF SetPayStatus
  <2>2. p \in Payments /\ RowRight(p) /\ payStatus[p] = "CAPTURE_PENDING" /\ prov[p] = "CAPTURED"
    BY <2>0, <2>1, RowInHand
  <2>3. /\ OthersStay(h) /\ OneRow(p) /\ pc'[h] = "acceptWrite"
        /\ payStatus'[p] = "CAPTURED" /\ captured'[p] = Fee
        /\ ledger'[p].sum["CUSTOMER_REFUND"] = ledger[p].sum["CUSTOMER_REFUND"]
        /\ UNCHANGED <<refunded, prov, provRefunded, rows>>
    BY <2>0, <1>4, CaptureTxDoes
  <2>4. RowRight(p)' /\ Knows(pc[h], frame[h])'
    BY <2>0, <2>2, <2>3 DEF RowRight, Lifecycle, Knows, PaidRow
  <2> QED
    BY <2>0, <2>2, <2>3, <2>4, RowChanges
<1> QED
  BY <1>1, <1>2, <1>3, <1>4 DEF Capture

LEMMA VoidRows ==
    ASSUME IInv, NEW h \in Handlers, RowsAt(pc[h], frame[h]), Void(h)
    PROVE  OthersStay(h) /\ RowsAt(pc[h], frame[h])'
<1> USE DEF RowAt, RefundLabels
<1>1. CASE VoidFind(h)
  <2>1. RowsStay /\ BooksStay /\ OthersStay(h)
    BY <1>1, VoidFindDoes, DatabaseKeepsBooks
  <2>2. Knows(pc'[h], frame'[h])
    BY <1>1, VoidFindDoes DEF Knows, ReturnLabels
  <2> QED
    BY <2>1, <2>2, FindsRow
<1>2. CASE VoidLocal(h) \/ VoidMark(h) \/ VoidWrite(h)
  <2>1. PICK new \in {"VOIDED", "VOID_PENDING"}, next \in {"voidLedger", "voidProvider"} :
            /\ pc[h] \in {"voidLocal", "voidMark", "voidWrite"}
            /\ SetPayStatus(h, pc[h], new, next)
            /\ pc[h] = "voidMark" <=> new = "VOID_PENDING"
            /\ new = "VOID_PENDING" <=> next = "voidProvider"
    BY <1>2 DEF VoidLocal, VoidMark, VoidWrite, SetPayStatus
  <2>2. pc[h] \in PayLabels
    BY <2>1 DEF PayLabels
  <2>0. PICK p \in Payments : p = frame[h].pay
    BY <2>2, HandlerKnows DEF SetPayStatus
  <2>3. /\ OthersStay(h) /\ pc'[h] = next /\ frame'[h] = frame[h]
        /\ payStatus'[p] = new /\ OneRow(p)
        /\ UNCHANGED <<rows, captured, refunded, prov, provRefunded, ledger>>
    BY <2>0, <2>1, <2>2, MarksRow
  <2>4. p \in Payments /\ RowRight(p)
        /\ RowAt(pc[h], frame[h], payStatus[p], prov[p], refunded[p], provRefunded[p])
    BY <2>0, <2>2, RowInHand
  <2>5. payStatus[p] \in {"AUTH_PENDING", "AUTHORIZED", "VOID_PENDING"}
    BY <2>0, <2>1, <2>4
  <2>6. RowRight(p)' /\ Knows(pc[h], frame[h])'
    BY <2>0, <2>1, <2>3, <2>4, <2>5 DEF RowRight, Lifecycle, Knows, PaidRow
  <2> QED
    BY <2>0, <2>3, <2>4, <2>5, <2>6, RowChanges
<1>3. CASE VoidProvider(h)
  <2>1. pc[h] = "voidProvider" /\ pc[h] \in PayLabels
    BY <1>3, VoidProviderDoes DEF PayLabels
  <2>0. PICK p \in Payments : p = frame[h].pay
    BY <2>1, HandlerKnows DEF SetPayStatus
  <2>2. p \in Payments /\ RowRight(p) /\ payStatus[p] = "VOID_PENDING" /\ prov[p] = "AUTHORIZED"
    BY <2>0, <2>1, RowInHand
  <2>3. /\ OthersStay(h) /\ OneRow(p)
        /\ UNCHANGED <<payStatus, refunded, provRefunded, rows, captured, ledger>>
        /\ \/ prov'[p] = "CANCELLED" /\ (pc'[h] = "idle" \/ (pc'[h] = "voidWrite" /\ frame'[h] = frame[h]))
           \/ prov'[p] = prov[p] /\ pc'[h] = "idle"
    BY <2>0, <1>3, VoidProviderDoes
  <2>4. RowRight(p)' /\ Knows(pc[h], frame[h])'
    BY <2>0, <2>2, <2>3 DEF RowRight, Lifecycle, Knows, PaidRow
  <2> QED
    BY <2>0, <2>2, <2>3, <2>4, RowChanges
<1>4. CASE VoidLedger(h)
  <2>1. pc[h] = "voidLedger" /\ pc[h] \in PayLabels
    BY <1>4, VoidLedgerDoes DEF PayLabels
  <2>0. PICK p \in Payments : p = frame[h].pay
    BY <2>1, HandlerKnows DEF SetPayStatus
  <2>2. p \in Payments /\ RowRight(p)
    BY <2>0, <2>1, RowInHand
  <2>3. /\ OthersStay(h) /\ OneRow(p) /\ pc'[h] \in ReturnLabels
        /\ ledger'[p].sum["CUSTOMER_REFUND"] = ledger[p].sum["CUSTOMER_REFUND"]
        /\ UNCHANGED <<payStatus, captured, refunded, prov, provRefunded, rows>>
    BY <2>0, <1>4, VoidLedgerDoes
  <2>4. RowRight(p)' /\ Knows(pc[h], frame[h])'
    BY <2>0, <2>2, <2>3 DEF RowRight, Knows, ReturnLabels
  <2> QED
    BY <2>0, <2>2, <2>3, <2>4, RowChanges
<1> QED
  BY <1>1, <1>2, <1>3, <1>4 DEF Void

LEMMA RefundRows ==
    ASSUME IInv, NEW h \in Handlers, RowsAt(pc[h], frame[h]), Refund(h)
    PROVE  OthersStay(h) /\ RowsAt(pc[h], frame[h])'
<1> USE DEF RowAt, RefundLabels
<1>1. CASE RefundFind(h)
  <2>1. RowsStay /\ BooksStay /\ OthersStay(h)
    BY <1>1, RefundFindDoes, DatabaseKeepsBooks
  <2>2. Knows(pc'[h], frame'[h])
    BY <1>1, RefundFindDoes DEF Knows, ReturnLabels
  <2> QED
    BY <2>1, <2>2, FindsRow
<1>2. CASE RefundMark(h)
  <2>1. SetPayStatus(h, "refundMark", "REFUND_PENDING", "refundProvider") /\ "refundMark" \in PayLabels
    BY <1>2 DEF RefundMark, PayLabels
  <2>0. PICK p \in Payments : p = frame[h].pay
    BY <2>1, HandlerKnows DEF SetPayStatus
  <2>2. /\ pc[h] = "refundMark" /\ OthersStay(h) /\ pc'[h] = "refundProvider" /\ frame'[h] = frame[h]
        /\ payStatus'[p] = "REFUND_PENDING" /\ OneRow(p)
        /\ UNCHANGED <<rows, captured, refunded, prov, provRefunded, ledger>>
    BY <2>0, <2>1, MarksRow
  <2>3. /\ p \in Payments /\ RowRight(p) /\ payStatus[p] \in {"CAPTURED", "PARTIALLY_REFUNDED"}
        /\ frame[h].snap = refunded[p]
    BY <2>0, <2>1, <2>2, RowInHand
  <2>4. RowRight(p)' /\ Knows(pc[h], frame[h])'
    BY <2>0, <2>2, <2>3 DEF RowRight, Lifecycle, Knows, PaidRow
  <2> QED
    BY <2>0, <2>2, <2>3, <2>4, RowChanges
<1>3. CASE RefundProvider(h)
  <2>1. pc[h] = "refundProvider" /\ pc[h] \in PayLabels
    BY <1>3, RefundProviderDoes DEF PayLabels
  <2>0. PICK p \in Payments : p = frame[h].pay
    BY <2>1, HandlerKnows DEF SetPayStatus
  <2>2. /\ p \in Payments /\ RowRight(p) /\ payStatus[p] = "REFUND_PENDING"
        /\ provRefunded[p] = refunded[p] /\ frame[h].snap = refunded[p]
    BY <2>0, <2>1, RowInHand
  <2>3. /\ OthersStay(h) /\ OneRow(p)
        /\ UNCHANGED <<payStatus, refunded, prov, rows, captured, ledger>>
        /\ \/ pc'[h] = "idle"
           \/ /\ pc'[h] = "refundTx" /\ frame'[h] = frame[h]
              /\ provRefunded'[p] = provRefunded[p] + frame[h].amt
    BY <2>0, <1>3, RefundProviderDoes
  <2>4. RowRight(p)' /\ Knows(pc[h], frame[h])'
    BY <2>0, <2>2, <2>3 DEF RowRight, Lifecycle, Knows, PaidRow
  <2> QED
    BY <2>0, <2>2, <2>3, <2>4, RowChanges
<1>4. CASE RefundTx(h)
  <2>1. pc[h] = "refundTx" /\ pc[h] \in PayLabels
    BY <1>4, RefundTxDoes DEF PayLabels
  <2>0. PICK p \in Payments : p = frame[h].pay
    BY <2>1, HandlerKnows DEF SetPayStatus
  <2>2. /\ p \in Payments /\ RowRight(p) /\ payStatus[p] = "REFUND_PENDING"
        /\ provRefunded[p] = refunded[p] + frame[h].amt /\ frame[h].snap = refunded[p]
        /\ refunded[p] \in Nat /\ frame[h].amt \in Nat /\ ledger[p].sum["CUSTOMER_REFUND"] \in Int
    BY <2>0, <2>1, RowInHand
  <2>3. /\ OthersStay(h) /\ OneRow(p) /\ pc'[h] \in ReturnLabels
        /\ payStatus'[p] \in {"REFUNDED", "PARTIALLY_REFUNDED"}
        /\ refunded'[p] = frame[h].snap + frame[h].amt
        /\ ledger'[p].sum["CUSTOMER_REFUND"] = ledger[p].sum["CUSTOMER_REFUND"] - frame[h].amt
        /\ UNCHANGED <<captured, prov, provRefunded, rows>>
    BY <2>0, <1>4, RefundTxDoes
  <2>4. RowRight(p)' /\ Knows(pc[h], frame[h])'
    BY <2>0, <2>2, <2>3 DEF RowRight, Lifecycle, Knows, PaidRow, ReturnLabels
  <2> QED
    BY <2>0, <2>2, <2>3, <2>4, RowChanges
<1> QED
  BY <1>1, <1>2, <1>3, <1>4 DEF Refund

\* A row that is created is listed, once.
LEMMA AppendListed ==
    ASSUME RowsListed, rows \in Seq(Payments), NEW p \in Payments, payStatus[p] = "NONE",
           rows' = Append(rows, p), payStatus'[p] # "NONE",
           \A q \in Payments \ {p} : payStatus'[q] = payStatus[q]
    PROVE  RowsListed'
<1>1. /\ Len(rows) \in Nat /\ DOMAIN rows = 1..Len(rows)
      /\ DOMAIN rows' = 1..(Len(rows) + 1) /\ rows'[Len(rows) + 1] = p
      /\ \A i \in 1..Len(rows) : rows'[i] = rows[i]
  OBVIOUS
<1>2. \A i \in DOMAIN rows : rows[i] # p
  BY DEF RowsListed
<1>3. \A q \in Payments : payStatus'[q] # "NONE" <=> \E i \in DOMAIN rows' : rows'[i] = q
  <2>1. p = rows'[Len(rows) + 1] /\ Len(rows) + 1 \in DOMAIN rows'
    BY <1>1
  <2>2. ASSUME NEW q \in Payments \ {p}
        PROVE  payStatus'[q] # "NONE" <=> \E i \in DOMAIN rows' : rows'[i] = q
    <3>1. payStatus'[q] # "NONE" <=> \E i \in DOMAIN rows : rows[i] = q
      BY DEF RowsListed
    <3>2. (\E i \in DOMAIN rows : rows[i] = q) => \E i \in DOMAIN rows' : rows'[i] = q
      BY <1>1
    <3>3. ASSUME NEW i \in DOMAIN rows', rows'[i] = q
          PROVE  \E j \in DOMAIN rows : rows[j] = q
      BY <1>1, <3>3
    <3> QED
      BY <3>1, <3>2, <3>3
  <2> QED
    BY <2>1, <2>2
<1>4. \A i, j \in DOMAIN rows' : rows'[i] = rows'[j] => i = j
  <2> SUFFICES ASSUME NEW i \in DOMAIN rows', NEW j \in DOMAIN rows', rows'[i] = rows'[j]
               PROVE  i = j
    OBVIOUS
  <2>1. CASE i \in DOMAIN rows /\ j \in DOMAIN rows
    BY <1>1, <2>1 DEF RowsListed
  <2>2. CASE i \notin DOMAIN rows \/ j \notin DOMAIN rows
    BY <1>1, <1>2, <2>2
  <2> QED
    BY <2>1, <2>2
<1> QED
  BY <1>3, <1>4 DEF RowsListed

LEMMA AuthorizeRows ==
    ASSUME IInv, NEW h \in Handlers, RowsAt(pc[h], frame[h]), Authorize(h)
    PROVE  OthersStay(h) /\ RowsAt(pc[h], frame[h])'
<1> USE DEF RowAt, RefundLabels
<1>1. CASE CheckoutProvider(h)
  <2>1. /\ OthersStay(h)
        /\ UNCHANGED <<payStatus, refunded, provRefunded, rows, captured, ledger>>
    BY <1>1, CheckoutProviderDoes
  <2>2. CASE prov' = prov /\ pc'[h] = "idle"
    <3>1. RowsStay /\ BooksStay
      BY <2>1, <2>2 DEF RowsStay, BooksStay
    <3>2. pc'[h] \notin RowLabels
      BY <2>2 DEF RowLabels, HoldLabels, MarkedLabels
    <3> QED
      BY <2>1, <3>1, <3>2, QuietRows
  <2>3. ASSUME NEW p \in Payments,
               /\ prov[p] = "NONE" /\ OneRow(p)
               /\ prov'[p] = IF frame[h].op = "checkout" THEN "OPEN" ELSE "AUTHORIZED"
               /\ \/ pc'[h] = "checkoutCreate" /\ frame'[h].pay = p /\ frame'[h].op = frame[h].op
                  \/ pc'[h] = "idle"
        PROVE  RowsAt(pc[h], frame[h])'
    <3>1. RowRight(p)
      BY DEF RowsAt
    <3>2. payStatus[p] = "NONE"
      BY <2>3, <3>1 DEF RowRight, Lifecycle, PaidRow, IInv, DataInv, PaymentsTyped, PayStatuses
    <3>3. RowRight(p)' /\ Knows(pc[h], frame[h])'
      BY <2>1, <2>3, <3>1, <3>2 DEF RowRight, Lifecycle, Knows, PaidRow
    <3> QED
      BY <2>1, <2>3, <3>3, RowChanges
  <2> QED
    BY <1>1, <2>1, <2>2, <2>3, CheckoutProviderDoes
<1>2. CASE CheckoutCreate(h)
  <2>1. pc[h] = "checkoutCreate" /\ pc[h] \in PayLabels
    BY <1>2, CheckoutCreateDoes DEF PayLabels
  <2>2. PICK p \in Payments : p = frame[h].pay
    BY <2>1, HandlerKnows
  <2>3. /\ RowRight(p) /\ payStatus[p] = "NONE" /\ prov[p] # "NONE"
        /\ frame[h].op # "checkout" => prov[p] = "AUTHORIZED"
    BY <2>1, <2>2, RowInHand
  <2>4. /\ OthersStay(h) /\ OneRow(p) /\ rows' = Append(rows, p) /\ payStatus'[p] = "AUTH_PENDING"
        /\ UNCHANGED <<captured, refunded, prov, provRefunded, ledger>>
        /\ \/ pc'[h] = "idle"
           \/ pc'[h] = "claim" /\ frame'[h] = frame[h] /\ frame[h].op # "checkout"
    BY <1>2, <2>2, CheckoutCreateDoes
  <2>5. RowRight(p)' /\ Knows(pc[h], frame[h])'
    BY <2>2, <2>3, <2>4 DEF RowRight, Lifecycle, Knows, PaidRow
  <2>6. (\A q \in Payments : RowRight(q))'
    BY <2>4, <2>5 DEF RowsAt, RowRight, OneRow, OnlyRow
  <2>7. RowsListed'
    BY <2>3, <2>4, AppendListed DEF RowsAt, OneRow, OnlyRow, IInv, DataInv, PaymentsTyped
  <2> QED
    BY <2>4, <2>5, <2>6, <2>7 DEF RowsAt
<1>3. CASE AssertRead(h)
  <2>1. RowsStay /\ BooksStay /\ OthersStay(h)
    BY <1>3, AssertReadDoes, DatabaseKeepsBooks
  <2>2. Knows(pc'[h], frame'[h])
    BY <1>3, AssertReadDoes DEF Knows
  <2> QED
    BY <2>1, <2>2, FindsRow
<1>4. CASE AssertProvider(h)
  <2>1. RowsStay /\ BooksStay /\ pc[h] = "assertProvider"
    BY <1>4, DatabaseKeepsBooks DEF AssertProvider
  <2>2. /\ OthersStay(h)
        /\ \/ pc'[h] = "idle"
           \/ pc'[h] = "claim" /\ frame'[h] = frame[h] /\ prov[frame[h].pay] = "AUTHORIZED"
    BY <1>4, GoesOn, Finishes DEF AssertProvider
  <2>3. Knows(pc'[h], frame'[h])
    BY <2>1, <2>2 DEF Knows, RowsAt
  <2> QED
    BY <2>1, <2>2, <2>3, FindsRow
<1>5. CASE Claim(h)
  <2>1. pc[h] = "claim" /\ pc[h] \in PayLabels
    BY <1>5, ClaimDoes DEF PayLabels
  <2>2. PICK p \in Payments : p = frame[h].pay
    BY <2>1, HandlerKnows
  <2>3. RowRight(p) /\ payStatus[p] = "AUTH_PENDING" /\ prov[p] = "AUTHORIZED"
    BY <2>1, <2>2, RowInHand
  <2>4. /\ OthersStay(h) /\ OneRow(p) /\ pc'[h] \in {"recordEvent", "idle"}
        /\ payStatus'[p] = "AUTHORIZED"
        /\ UNCHANGED <<captured, refunded, prov, provRefunded, ledger, rows>>
    BY <1>5, <2>2, <2>3, ClaimDoes
  <2>5. RowRight(p)' /\ Knows(pc[h], frame[h])'
    BY <2>2, <2>3, <2>4 DEF RowRight, Lifecycle, Knows, PaidRow
  <2> QED
    BY <2>2, <2>3, <2>4, <2>5, RowChanges
<1>6. CASE RecordEvent(h)
  <2>1. RowsStay /\ BooksStay
    BY <1>6 DEF RecordEvent, RowsStay, BooksStay, payVars, provVars
  <2>2. OthersStay(h) /\ pc'[h] = "idle"
    BY <1>6, Finishes DEF RecordEvent
  <2>3. pc'[h] \notin RowLabels
    BY <2>2 DEF RowLabels, HoldLabels, MarkedLabels
  <2> QED
    BY <2>1, <2>2, <2>3, QuietRows
<1> QED
  BY <1>1, <1>2, <1>3, <1>4, <1>5, <1>6 DEF Authorize

-----------------------------------------------------------------------------
(* The rows are right in every state.                                      *)

\* Who acts is the only one that moved, and the rows are right for it.
LEMMA StillAlone ==
    ASSUME NEW h \in Handlers, OthersIdle(h), OthersStay(h), RowsAt(pc[h], frame[h])'
    PROVE  RowsInv'
BY DEF RowsInv, OthersIdle, OthersStay

\* What a handler does.
LEMMA HandlerRows ==
    ASSUME IInv, NEW h \in Handlers, RowsAt(pc[h], frame[h]), Begin(h) \/ Step(h) \/ Crash(h)
    PROVE  OthersStay(h) /\ RowsAt(pc[h], frame[h])'
<1>1. CASE Begin(h)
  BY <1>1, BeginRows
<1>2. CASE Cleanup(h) \/ Accept(h) \/ Cancel(h) \/ CheckIn(h)
  BY <1>2, UntouchedRows
<1>3. CASE Authorize(h) \/ Capture(h) \/ Void(h) \/ Refund(h)
  BY <1>3, AuthorizeRows, CaptureRows, VoidRows, RefundRows
<1>4. CASE Crash(h)
  <2>1. OthersStay(h) /\ pc'[h] = "idle" /\ RowsStay /\ BooksStay
    BY <1>4, Finishes, DatabaseKeepsBooks DEF Crash
  <2>2. pc'[h] \notin RowLabels
    BY <2>1 DEF RowLabels, HoldLabels, MarkedLabels, RefundLabels
  <2> QED
    BY <2>1, <2>2, QuietRows
<1> QED
  BY <1>1, <1>2, <1>3, <1>4 DEF Step

\* The guest pays the page that is open, whoever else is waiting.
LEMMA GuestPaysRows ==
    ASSUME IInv, NEW h \in Handlers, RowsAt(pc[h], frame[h]), NEW p \in Payments, GuestPays(p)
    PROVE  RowsAt(pc[h], frame[h])'
<1>2. /\ UNCHANGED <<payStatus, refunded, provRefunded, rows, captured, ledger, pc, frame>>
      /\ prov[p] = "OPEN" /\ prov'[p] = "AUTHORIZED" /\ OneRow(p)
  BY DEF GuestPays, payVars, bookVars, handlerVars, OneRow, OnlyRow, IInv, DataInv, ProviderTyped
<1>3. RowRight(p) /\ RowRight(p)'
  BY <1>2 DEF RowsAt, RowRight, Lifecycle, PaidRow
<1>4. Knows(pc[h], frame[h])'
  <2>1. CASE frame[h].pay = p
    BY <1>2, <2>1 DEF RowsAt, Knows, RowAt, RefundLabels
  <2>2. CASE frame[h].pay # p
    <3>1. CASE pc[h] \in RowLabels
      <4>1. frame[h].pay \in Payments
        BY <3>1, HandlerKnows DEF RowLabels, HoldLabels, MarkedLabels, RefundLabels, PayLabels
      <4> QED
        BY <1>2, <2>2, <4>1 DEF RowsAt, Knows, OneRow, OnlyRow
    <3>2. CASE pc[h] \notin RowLabels
      BY <1>2, <3>2 DEF Knows, RowAt, RowLabels, HoldLabels, MarkedLabels, RefundLabels
    <3> QED
      BY <3>1, <3>2
  <2> QED
    BY <2>1, <2>2
<1> QED
  BY <1>2, <1>3, <1>4, RowChanges

LEMMA NextRows ==
    ASSUME MaxActive = 1, IInv, RowsInv, [Next]_vars
    PROVE  RowsInv'
<1>1. ASSUME NEW h \in Handlers, Begin(h) \/ Step(h) \/ Crash(h)
      PROVE  RowsInv'
  BY <1>1, ActsAlone, HandlerRows, StillAlone
<1>2. ASSUME NEW p \in Payments, GuestPays(p)
      PROVE  RowsInv'
  BY <1>2, GuestPaysRows DEF RowsInv, OthersIdle, GuestPays, handlerVars
<1>3. CASE Tick \/ UNCHANGED vars
  <2>1. UNCHANGED <<payStatus, refunded, prov, provRefunded, rows, captured, ledger, pc, frame>>
    BY <1>3 DEF Tick, vars, payVars, provVars, bookVars, handlerVars
  <2> QED
    BY <2>1 DEF RowsInv, OthersIdle, RowsAt, RowRight, RowsListed, Knows
<1> QED
  BY <1>1, <1>2, <1>3 DEF Next

LEMMA InitRows ==
    ASSUME Init
    PROVE  RowsInv
<1>1. OthersIdle(Scheduler) /\ Scheduler \in Handlers
  BY DEF Init, OthersIdle, Handlers
<1>2. (\A p \in Payments : RowRight(p)) /\ RowsListed
  BY DEF Init, RowRight, Lifecycle, PaidRow, EmptyLedger, EntryTypes, RowsListed
<1>3. Knows(pc[Scheduler], frame[Scheduler])
  BY <1>1 DEF Init, Knows, RowAt, RefundLabels
<1> QED
  BY <1>1, <1>2, <1>3 DEF RowsInv, RowsAt

-----------------------------------------------------------------------------
(* The rows are right along every behaviour, whatever is refused, lost or  *)
(* cut short.                                                              *)

\* With one handler in flight, the status of a row says where its money is: which of the
\* two, Saferpay or the books, may be ahead, and by how much.
THEOREM RowsAlwaysRight == MaxActive = 1 => (Spec => [](IInv /\ RowsInv))
<1> SUFFICES ASSUME MaxActive = 1 PROVE Spec => [](IInv /\ RowsInv)
  OBVIOUS
<1>1. Init => IInv /\ RowsInv
  BY InitInv, InitRows
<1>2. IInv /\ RowsInv /\ [Next]_vars => IInv' /\ RowsInv'
  BY NextInv, NextRows
<1> QED
  BY <1>1, <1>2, PTL DEF Spec

\* A process that dies between a provider call and its transaction leaves the row in the
\* pending status written before the call: wherever the books and Saferpay differ, the row
\* says so.
THEOREM DivergenceAlwaysMarked ==
    MaxActive = 1 /\ Fee > 0 => (Spec => []DivergenceMarked)
<1> SUFFICES ASSUME MaxActive = 1, Fee > 0 PROVE Spec => []DivergenceMarked
  OBVIOUS
<1>1. IInv /\ RowsInv => DivergenceMarked
  <2> SUFFICES ASSUME IInv, RowsInv, NEW p \in Payments
               PROVE  /\ prov[p] = "CAPTURED" /\ captured[p] = 0 => payStatus[p] = "CAPTURE_PENDING"
                      /\ prov[p] = "CANCELLED" => payStatus[p] \in {"VOID_PENDING", "VOIDED"}
                      /\ provRefunded[p] # refunded[p] => payStatus[p] = "REFUND_PENDING"
    BY DEF DivergenceMarked
  <2>1. RowRight(p)
    BY DEF RowsInv, RowsAt
  <2>2. payStatus[p] \in PayStatuses /\ captured[p] \in {0, Fee}
    BY DEF IInv, DataInv, PaymentsTyped
  <2>3. (payStatus[p] \in PaidRow => captured[p] # 0)
    BY <2>1, FeeAssumption DEF RowRight, Lifecycle
  <2> QED
    BY <2>1, <2>2, <2>3 DEF RowRight, Lifecycle, PaidRow, PayStatuses
<1> QED
  BY <1>1, RowsAlwaysRight, PTL

-----------------------------------------------------------------------------
(* A provider that works: a pending row belongs to the handler under way.  *)

\* Where the handler at l is with a row of status s.
Owns(l, s) ==
    /\ s = "CAPTURE_PENDING" => l \in {"captureProvider", "captureTx"}
    /\ s = "VOID_PENDING" => l \in {"voidProvider", "voidWrite"}
    /\ s = "REFUND_PENDING" => l \in {"refundProvider", "refundTx"}

Pending == {"CAPTURE_PENDING", "VOID_PENDING", "REFUND_PENDING"}

OwnedAt(l, f) ==
    \A p \in Payments : payStatus[p] \in Pending => p = f.pay /\ Owns(l, payStatus[p])

OwnedInv == \E h \in Handlers : OthersIdle(h) /\ RowsAt(pc[h], frame[h]) /\ OwnedAt(pc[h], frame[h])

OwnerLabels == {"captureProvider", "captureTx", "voidProvider", "voidWrite", "refundProvider",
                "refundTx"}

\* No row changes, and the handler had none pending.
LEMMA NothingOwned ==
    ASSUME NEW h \in Handlers, OwnedAt(pc[h], frame[h]), pc[h] \notin OwnerLabels,
           payStatus' = payStatus
    PROVE  OwnedAt(pc[h], frame[h])'
BY DEF OwnedAt, Owns, Pending, OwnerLabels

\* Only the row of the handler changes.
LEMMA OwnRowChanges ==
    ASSUME NEW h \in Handlers, OwnedAt(pc[h], frame[h]), NEW p \in Payments, p = frame[h].pay,
           \A q \in Payments \ {p} : payStatus'[q] = payStatus[q],
           payStatus'[p] \in Pending => frame'[h].pay = p /\ Owns(pc'[h], payStatus'[p])
    PROVE  OwnedAt(pc[h], frame[h])'
BY DEF OwnedAt, Owns, Pending

\* Saferpay refuses nothing that the handlers ask of it.
LEMMA ProviderAgrees ==
    ASSUME IInv, NEW h \in Handlers, RowsAt(pc[h], frame[h]), Faults = {}
    PROVE  LET p == frame[h].pay
           IN  /\ CaptureProvider(h) => pc'[h] = "captureTx" /\ frame'[h] = frame[h]
               /\ VoidProvider(h) => pc'[h] = "voidWrite" /\ frame'[h] = frame[h]
               /\ RefundProvider(h) => pc'[h] = "refundTx" /\ frame'[h] = frame[h]
<1> DEFINE p == frame[h].pay
<1>1. ASSUME CaptureProvider(h) PROVE pc'[h] = "captureTx" /\ frame'[h] = frame[h]
  <2>1. pc[h] = "captureProvider" /\ pc[h] \in PayLabels
    BY <1>1, CaptureProviderDoes DEF PayLabels
  <2>2. prov[p] = "AUTHORIZED"
    BY <2>1, RowInHand DEF RowAt
  <2> QED
    BY <1>1, <2>2, CaptureProviderDoes
<1>2. ASSUME VoidProvider(h) PROVE pc'[h] = "voidWrite" /\ frame'[h] = frame[h]
  <2>1. pc[h] = "voidProvider" /\ pc[h] \in PayLabels
    BY <1>2, VoidProviderDoes DEF PayLabels
  <2>2. prov[p] = "AUTHORIZED"
    BY <2>1, RowInHand DEF RowAt
  <2> QED
    BY <1>2, <2>2, VoidProviderDoes
<1>3. ASSUME RefundProvider(h) PROVE pc'[h] = "refundTx" /\ frame'[h] = frame[h]
  <2>1. pc[h] = "refundProvider" /\ pc[h] \in PayLabels /\ pc[h] \in RefundLabels
    BY <1>3, RefundProviderDoes DEF PayLabels, RefundLabels
  <2>2. /\ payStatus[p] = "REFUND_PENDING" /\ RowRight(p)
        /\ provRefunded[p] = refunded[p] /\ frame[h].snap = refunded[p]
        /\ refunded[p] \in Nat /\ frame[h].amt \in Nat /\ captured[p] \in {0, Fee}
    BY <2>1, RowInHand DEF RowAt, RefundLabels
  <2>3. prov[p] = "CAPTURED" /\ captured[p] = Fee
    BY <2>2 DEF RowRight, Lifecycle, PaidRow
  <2>4. frame[h].snap + frame[h].amt <= captured[p]
    BY <2>1, HandlerKnows DEF RefundGood
  <2>5. provRefunded[p] + frame[h].amt <= Fee
    BY <2>2, <2>3, <2>4, FeeAssumption
  <2> QED
    BY <1>3, <2>3, <2>5, RefundProviderDoes
<1> QED
  BY <1>1, <1>2, <1>3

LEMMA QuietOwned ==
    ASSUME IInv, NEW h \in Handlers, OwnedAt(pc[h], frame[h]),
           Begin(h) \/ Cleanup(h) \/ Accept(h) \/ Cancel(h) \/ CheckIn(h)
    PROVE  OwnedAt(pc[h], frame[h])'
<1>1. pc[h] \notin OwnerLabels
  <2>1. CASE Begin(h)
    BY <2>1, BeginMay DEF MayBegin, Idle, OwnerLabels
  <2>2. CASE Cleanup(h) \/ Accept(h)
    BY <2>2 DEF OwnerLabels, Cleanup, ExpireFind, ExpireWrite, ArrivalFind, ArrivalWrite, NightFind,
                NightWrite, Accept, AcceptRead, AcceptExpire, AcceptWrite
  <2>3. CASE Cancel(h) \/ CheckIn(h)
    BY <2>3 DEF OwnerLabels, Cancel, DeclineWrite, CustomerCancelWrite, VenueCancelWrite,
                NoShowReportWrite, AdminRefundCancel, SetStatusWrite, CheckIn, CheckInRead,
                CustomerCheckInRead, AdminCustomerCheckInRead, AdminVenueCheckInRead, CheckInIf,
                CheckInWrite
  <2> QED
    BY <2>1, <2>2, <2>3
<1>2. payStatus' = payStatus
  <2>1. CASE Begin(h)
    <3>1. CASE ProblemResolved(h) \/ AdminCancel(h)
      BY <3>1 DEF ProblemResolved, AdminCancel, CancelRow, payVars
    <3>2. CASE ~(ProblemResolved(h) \/ AdminCancel(h))
      BY <2>1, <3>2, DatabaseKeepsBooks
         DEF Begin, CleanupBegin, CheckoutBegin, AssertBegin, NotifyBegin, DeclineBegin,
             CustomerCancelBegin, VenueCancelBegin, NoShowReportBegin, AdminRefundBegin,
             SetStatusBegin, RowsStay
    <3> QED
      BY <3>1, <3>2
  <2>2. CASE ~Begin(h)
    BY <2>2, CleanupQuiet, AcceptQuiet, CancelQuiet, CheckInQuiet DEF Quiet, RowsStay
  <2> QED
    BY <2>1, <2>2
<1> QED
  BY <1>1, <1>2, NothingOwned

LEMMA AuthorizeOwned ==
    ASSUME IInv, NEW h \in Handlers, RowsAt(pc[h], frame[h]), OwnedAt(pc[h], frame[h]), Authorize(h)
    PROVE  OwnedAt(pc[h], frame[h])'
<1> USE DEF OwnerLabels
<1>1. CASE CheckoutProvider(h) \/ AssertRead(h)
  <2>1. payStatus' = payStatus /\ pc[h] \notin OwnerLabels
    BY <1>1, CheckoutProviderDoes, AssertReadDoes, DatabaseKeepsBooks DEF RowsStay
  <2> QED
    BY <2>1, NothingOwned
<1>2. CASE AssertProvider(h) \/ RecordEvent(h)
  <2>1. payStatus' = payStatus /\ pc[h] \notin OwnerLabels
    BY <1>2, DatabaseKeepsBooks DEF RowsStay, AssertProvider, RecordEvent, payVars
  <2> QED
    BY <2>1, NothingOwned
<1>3. CASE CheckoutCreate(h)
  <2>1. PICK p \in Payments : p = frame[h].pay
    BY <1>3, CheckoutCreateDoes
  <2>2. OneRow(p) /\ payStatus'[p] = "AUTH_PENDING"
    BY <1>3, <2>1, CheckoutCreateDoes
  <2> QED
    BY <2>1, <2>2, OwnRowChanges DEF OneRow, OnlyRow, Pending
<1>4. CASE Claim(h)
  <2>1. PICK p \in Payments : p = frame[h].pay
    BY <1>4, ClaimDoes
  <2>2. payStatus[p] = "AUTH_PENDING"
    BY <1>4, <2>1, ClaimDoes DEF RowsAt, Knows, RowAt
  <2>3. OneRow(p) /\ payStatus'[p] = "AUTHORIZED"
    BY <1>4, <2>1, <2>2, ClaimDoes
  <2> QED
    BY <2>1, <2>3, OwnRowChanges DEF OneRow, OnlyRow, Pending
<1> QED
  BY <1>1, <1>2, <1>3, <1>4 DEF Authorize

LEMMA MoneyOwned ==
    ASSUME IInv, NEW h \in Handlers, RowsAt(pc[h], frame[h]), OwnedAt(pc[h], frame[h]),
           Capture(h) \/ Void(h) \/ Refund(h), Faults = {}
    PROVE  OwnedAt(pc[h], frame[h])'
<1> USE DEF OwnerLabels
<1>1. CASE CaptureFind(h) \/ VoidFind(h) \/ RefundFind(h)
  <2>1. payStatus' = payStatus /\ pc[h] \notin OwnerLabels
    BY <1>1, CaptureFindDoes, VoidFindDoes, RefundFindDoes, DatabaseKeepsBooks DEF RowsStay
  <2> QED
    BY <2>1, NothingOwned
<1>2. CASE CaptureMark(h) \/ VoidLocal(h) \/ VoidMark(h) \/ VoidWrite(h) \/ RefundMark(h)
  <2>1. PICK new, next : /\ SetPayStatus(h, pc[h], new, next) /\ pc[h] \in PayLabels
                         /\ Owns(next, new)
    BY <1>2 DEF CaptureMark, VoidLocal, VoidMark, VoidWrite, RefundMark, SetPayStatus, PayLabels,
                RefundLabels, Owns
  <2>2. PICK p \in Payments : p = frame[h].pay
    BY <2>1, MarksRow
  <2>3. OneRow(p) /\ payStatus'[p] = new /\ pc'[h] = next /\ frame'[h] = frame[h]
    BY <2>1, <2>2, MarksRow
  <2> QED
    BY <2>1, <2>2, <2>3, OwnRowChanges DEF OneRow, OnlyRow
<1>3. CASE CaptureProvider(h) \/ VoidProvider(h) \/ RefundProvider(h)
  <2>1. PICK p \in Payments : p = frame[h].pay
    BY <1>3, CaptureProviderDoes, VoidProviderDoes, RefundProviderDoes
  <2>2. /\ payStatus' = payStatus /\ frame'[h] = frame[h]
        /\ \/ pc[h] = "captureProvider" /\ pc'[h] = "captureTx"
           \/ pc[h] = "voidProvider" /\ pc'[h] = "voidWrite"
           \/ pc[h] = "refundProvider" /\ pc'[h] = "refundTx"
    BY <1>3, ProviderAgrees, CaptureProviderDoes, VoidProviderDoes, RefundProviderDoes
  <2> QED
    BY <2>2 DEF OwnedAt, Owns
<1>4. CASE CaptureTx(h) \/ RefundTx(h)
  <2>1. PICK p \in Payments : p = frame[h].pay
    BY <1>4, CaptureTxDoes, RefundTxDoes
  <2>2. OneRow(p) /\ payStatus'[p] \notin Pending
    BY <1>4, <2>1, CaptureTxDoes, RefundTxDoes DEF Pending
  <2> QED
    BY <2>1, <2>2, OwnRowChanges DEF OneRow, OnlyRow
<1>5. CASE VoidLedger(h)
  BY <1>5, VoidLedgerDoes, NothingOwned
<1> QED
  BY <1>1, <1>2, <1>3, <1>4, <1>5 DEF Capture, Void, Refund

\* A handler under way alone owns what is pending, and so does the one that follows it.
LEMMA HandlerOwned ==
    ASSUME MaxActive = 1, Faults = {}, IInv, OwnedInv, NEW h \in Handlers, Begin(h) \/ Step(h)
    PROVE  OwnedInv'
<1>1. PICK w \in Handlers :
          OthersIdle(w) /\ RowsAt(pc[w], frame[w]) /\ OwnedAt(pc[w], frame[w])
  BY DEF OwnedInv
<1>2. OthersIdle(h) /\ RowsAt(pc[h], frame[h])
  BY <1>1, ActsAlone DEF RowsInv
<1>3. OwnedAt(pc[h], frame[h])
  <2>1. CASE Step(h)
    BY <1>1, <2>1, StepUnderWay DEF OthersIdle
  <2>2. CASE Begin(h)
    <3>1. pc[w] = "idle"
      BY <1>1, <2>2, BeginMay, BeginsAlone
    <3>2. \A p \in Payments : payStatus[p] \notin Pending
      BY <1>1, <3>1 DEF OwnedAt, Owns, Pending
    <3> QED
      BY <3>2 DEF OwnedAt
  <2> QED
    BY <2>1, <2>2
<1>4. OwnedAt(pc[h], frame[h])'
  BY <1>2, <1>3, QuietOwned, AuthorizeOwned, MoneyOwned DEF Step
<1>5. OthersStay(h) /\ RowsAt(pc[h], frame[h])'
  BY <1>2, HandlerRows
<1> QED
  BY <1>2, <1>4, <1>5 DEF OwnedInv, OthersIdle, OthersStay

LEMMA NextOwned ==
    ASSUME MaxActive = 1, Faults = {}, IInv, OwnedInv, [Next]_vars
    PROVE  OwnedInv'
<1>1. ASSUME NEW h \in Handlers, Begin(h) \/ Step(h) \/ Crash(h)
      PROVE  OwnedInv'
  BY <1>1, HandlerOwned DEF Crash
<1>2. ASSUME NEW p \in Payments, GuestPays(p)
      PROVE  OwnedInv'
  <2>1. PICK h \in Handlers :
            OthersIdle(h) /\ RowsAt(pc[h], frame[h]) /\ OwnedAt(pc[h], frame[h])
    BY DEF OwnedInv
  <2>2. RowsAt(pc[h], frame[h])'
    BY <1>2, <2>1, GuestPaysRows
  <2>3. UNCHANGED <<payStatus, pc, frame>>
    BY <1>2 DEF GuestPays, payVars, handlerVars
  <2> QED
    BY <2>1, <2>2, <2>3 DEF OwnedInv, OthersIdle, OwnedAt
<1>3. CASE Tick \/ UNCHANGED vars
  <2>1. UNCHANGED <<payStatus, refunded, prov, provRefunded, rows, captured, ledger, pc, frame>>
    BY <1>3 DEF Tick, vars, payVars, provVars, bookVars, handlerVars
  <2> QED
    BY <2>1 DEF OwnedInv, OthersIdle, OwnedAt, RowsAt, RowRight, RowsListed, Knows
<1> QED
  BY <1>1, <1>2, <1>3 DEF Next

LEMMA InitOwned ==
    ASSUME Init
    PROVE  OwnedInv
<1>1. RowsInv /\ \A p \in Payments : payStatus[p] \notin Pending
  BY InitRows DEF Init, Pending
<1> QED
  BY <1>1 DEF OwnedInv, RowsInv, OwnedAt

LEMMA OwnedBooksExact ==
    ASSUME IInv, OwnedInv, Fee > 0
    PROVE  BooksExact
<1> SUFFICES ASSUME AtRest, NEW p \in Payments
             PROVE  /\ refunded[p] = provRefunded[p]
                    /\ ledger[p].sum["CUSTOMER_REFUND"] = -refunded[p]
                    /\ (captured[p] > 0) <=> (prov[p] = "CAPTURED")
  BY DEF BooksExact
<1>1. PICK h \in Handlers : RowsAt(pc[h], frame[h]) /\ OwnedAt(pc[h], frame[h])
  BY DEF OwnedInv
<1>2. pc[h] = "idle"
  BY DEF AtRest, Active
<1>3. RowRight(p) /\ payStatus[p] \in PayStatuses \ Pending
  BY <1>1, <1>2 DEF RowsAt, OwnedAt, Owns, Pending, IInv, DataInv, PaymentsTyped
<1>4. ledger[p].sum["CUSTOMER_REFUND"] = -refunded[p]
  BY <1>3 DEF RowRight
<1>5. refunded[p] = provRefunded[p]
  BY <1>3 DEF RowRight, Lifecycle, PaidRow, PayStatuses, Pending
<1>6. CASE payStatus[p] \in PaidRow
  <2>1. captured[p] = Fee /\ prov[p] = "CAPTURED"
    BY <1>3, <1>6 DEF RowRight, Lifecycle
  <2>2. captured[p] > 0
    BY <2>1
  <2> QED
    BY <1>4, <1>5, <2>1, <2>2
<1>7. CASE payStatus[p] \notin PaidRow
  <2>1. captured[p] = 0 /\ prov[p] # "CAPTURED"
    BY <1>3, <1>7 DEF RowRight, Lifecycle, PaidRow, PayStatuses, Pending
  <2> QED
    BY <1>4, <1>5, <2>1
<1> QED
  BY <1>4, <1>5, <1>6, <1>7

\* With a provider that does what it is asked, books and provider agree to the cent
\* whenever no handler is under way, whatever operations came before.
THEOREM BooksAlwaysExact ==
    MaxActive = 1 /\ Fee > 0 /\ Faults = {} => (Spec => []BooksExact)
<1> SUFFICES ASSUME MaxActive = 1, Fee > 0, Faults = {} PROVE Spec => []BooksExact
  OBVIOUS
<1>1. Init => IInv /\ OwnedInv
  BY InitInv, InitOwned
<1>2. IInv /\ OwnedInv /\ [Next]_vars => IInv' /\ OwnedInv'
  BY NextInv, NextOwned
<1>3. IInv /\ OwnedInv => BooksExact
  BY OwnedBooksExact
<1> QED
  BY <1>1, <1>2, <1>3, PTL DEF Spec

-----------------------------------------------------------------------------
(* The saga: which rows a reservation of a given status may have, and what *)
(* the handler under way still owes it.  No crash, and no override of      *)
(* support.                                                                *)

Pledged   == {"AUTH_PENDING", "AUTHORIZED"}
Returned  == {"PARTIALLY_REFUNDED", "REFUNDED"}
OpenRow   == Pledged \cup Returned \cup {"CAPTURED"}
Withdrawn == {"CANCELLED", "CANCELLED_BY_USER", "NO_SHOW"}
Granted   == Accepted \cup Seated \cup {"COMPLETED"}

OverrideOps    == {"setStatus", "adminCustomerCheckIn", "adminVenueCheckIn"}
OverrideLabels == {"setStatusWrite", "adminCustomerCheckInRead", "adminVenueCheckInRead",
                   "adminCustomerCheckInWrite", "adminVenueCheckInWrite"}

HasRow(S) == \E p \in Payments : payStatus[p] \in S

\* A guest has one payment that is open or settled; the others were void or are
\* pending for support.
OneOpen == \A p, q \in Payments : payStatus[p] \in OpenRow /\ payStatus[q] \in OpenRow => p = q

\* The handler will still void what is pledged.
VoidsAhead(l, f) == l \in {"voidFind", "voidLocal", "voidMark"} \/ (l = "refundFind" /\ f.ret = "voidFind")

\* The handler will still pay back what is promised for p.
PromiseAhead(l, f, p) ==
    f.ret # "cancelWrite" /\ (l = "refundFind" \/ (l = "refundMark" /\ f.pay = p))

FrameAt(l, f) ==
    /\ f.ret \in {"cancelWrite", "voidFind"} => l \in RefundLabels \cup {"refundFind"}
    /\ f.op \notin OverrideOps
    /\ l \notin OverrideLabels

\* The status the handler at l has read or written, and the rows it leaves.
StatusAt(l, f, st) ==
    /\ l \in {"checkoutProvider", "checkoutCreate"} => st \notin Terminal /\ ~HasRow(OpenRow)
    /\ l \in {"expWrite", "acceptExpire", "captureFind", "captureMark", "captureProvider",
              "captureTx", "acceptWrite", "declineWrite"} => st = "PENDING_VENUE_CONFIRMATION"
    /\ l \in {"arrWrite", "noShowWrite", "checkInWrite", "customerCheckInWrite"} => st \in Accepted
    /\ l = "nightWrite" => st \in Seated
    /\ l = "customerCancelWrite" => st \notin Terminal \cup Seated
    /\ l = "venueCancelWrite" =>
          st \notin Terminal \cup {"PENDING_VENUE_CONFIRMATION"} /\ f.amt = Fee
    /\ l \in {"voidFind", "voidLocal", "voidMark", "voidProvider", "voidWrite", "voidLedger"}
          => st \in Terminal
    /\ l \in RefundLabels \cup {"refundFind"} /\ f.ret # "cancelWrite" => st \in Withdrawn
    /\ l \in {"captureProvider", "captureTx", "refundProvider", "refundTx"} => ~HasRow(OpenRow)
    /\ l \in {"voidProvider", "voidWrite", "voidLedger", "acceptWrite", "cancelWrite"}
          => ~HasRow(Pledged)
    /\ l = "acceptWrite" => HasRow({"CAPTURED", "CAPTURE_PENDING"})
    /\ f.ret = "cancelWrite" => ~HasRow(Pledged)

\* What the handler is about to refund.
RefundAt(l, f, rc) ==
    l = "refundFind" =>
        IF f.ret # "cancelWrite" THEN f.amt = rc /\ ~HasRow(Returned)
        ELSE \E p \in Payments : /\ payStatus[p] \in {"CAPTURED", "PARTIALLY_REFUNDED"}
                                 /\ 0 < f.amt /\ f.amt <= captured[p] - refunded[p]

\* A row is pledged only while the venue may still answer, or is about to be voided.
PledgedAt(l, f, st) ==
    \A p \in Payments :
        /\ payStatus[p] = "AUTH_PENDING" => st = "REQUESTED" \/ VoidsAhead(l, f)
        /\ payStatus[p] = "AUTHORIZED" => st = "PENDING_VENUE_CONFIRMATION" \/ VoidsAhead(l, f)

\* Money went back only for a reservation that was withdrawn, and then what the
\* reservation says went back, or is about to.
PaidBackAt(l, f, st, rc) ==
    /\ \A p \in Payments : payStatus[p] \in Returned => st \in Withdrawn \/ l = "cancelWrite"
    /\ st \in Withdrawn \/ l = "cancelWrite" =>
          \A p \in Payments : captured[p] > 0 =>
              provRefunded[p] = rc \/ payStatus[p] = "REFUND_PENDING" \/ PromiseAhead(l, f, p)
    /\ st \notin Withdrawn => rc = 0 \/ l = "cancelWrite"

\* Who waits for the venue or got a table has paid for it.
PaidAt(l, st) ==
    /\ st = "PENDING_VENUE_CONFIRMATION" =>
          HasRow({"AUTHORIZED", "CAPTURE_PENDING"}) \/ l = "acceptWrite"
    /\ st \in Granted =>
          HasRow({"CAPTURED", "CAPTURE_PENDING", "REFUND_PENDING"}) \/ l = "cancelWrite"

MoneyAt(l, f, st, rc) == PledgedAt(l, f, st) /\ PaidBackAt(l, f, st, rc) /\ PaidAt(l, st)

SagaAt(l, f, st, rc) ==
    /\ OneOpen /\ FrameAt(l, f)
    /\ StatusAt(l, f, st) /\ RefundAt(l, f, rc) /\ MoneyAt(l, f, st, rc)

SagaOf(h) == SagaAt(pc[h], frame[h], status, refundCents)

-----------------------------------------------------------------------------
(* What the steps of the saga share.                                       *)

\* The latest open row is the only one.
LEMMA LatestOpen ==
    ASSUME OneOpen, RowsListed, rows \in Seq(Payments), NEW S \in SUBSET OpenRow,
           NEW p \in Payments, payStatus[p] \in S
    PROVE  LatestIn(S) = p
<1> DEFINE R    == {q \in Payments : payStatus[q] \in S}
           last == {i \in DOMAIN rows : /\ rows[i] \in R
                                        /\ \A j \in DOMAIN rows : j > i => rows[j] \notin R}
<1>1. R = {p}
  BY DEF OneOpen
<1>2. PICK i \in DOMAIN rows : rows[i] = p
  <2>1. payStatus[p] # "NONE"
    BY DEF OpenRow, Pledged, Returned
  <2> QED
    BY <2>1 DEF RowsListed
<1>3. \A j \in DOMAIN rows : rows[j] \in R => j = i
  BY <1>1, <1>2 DEF RowsListed
<1>4. DOMAIN rows \subseteq Int
  OBVIOUS
<1>5. last = {i}
  <2> HIDE DEF R
  <2>1. i \in last
    BY <1>1, <1>2, <1>3, <1>4
  <2> QED
    BY <1>3, <2>1
<1>6. Latest(R) = rows[CHOOSE k \in last : TRUE]
  BY <1>5 DEF Latest
<1>7. (CHOOSE k \in last : TRUE) = i
  BY <1>5
<1> QED
  BY <1>2, <1>6, <1>7 DEF LatestIn

\* No row changes.
LEMMA SagaRead ==
    ASSUME NEW h \in Handlers, RowsStay, BooksStay,
           SagaAt(pc'[h], frame'[h], status', refundCents')
    PROVE  SagaOf(h)'
<1> USE DEF RowsStay, BooksStay
<1>1. OneOpen' /\ FrameAt(pc[h], frame[h])'
  BY DEF SagaAt, OneOpen, FrameAt
<1>2. StatusAt(pc[h], frame[h], status)'
  BY DEF SagaAt, StatusAt, HasRow
<1>3. RefundAt(pc[h], frame[h], refundCents)'
  BY DEF SagaAt, RefundAt, HasRow
<1>4. MoneyAt(pc[h], frame[h], status, refundCents)'
  BY DEF SagaAt, MoneyAt, PledgedAt, PaidBackAt, PaidAt, HasRow, VoidsAhead, PromiseAhead
<1> QED
  BY <1>1, <1>2, <1>3, <1>4 DEF SagaOf, SagaAt

\* Labels at which nothing is owed.
SettlingLabels == {"voidFind", "voidLocal", "voidMark", "refundFind", "refundMark", "cancelWrite",
                   "acceptWrite"}

\* Labels at which nothing is known either.
FreeLabels == {"idle", "expFind", "arrFind", "nightFind", "assertRead", "assertProvider", "claim",
               "recordEvent", "acceptRead", "checkInRead", "customerCheckInRead"}

LEMMA NothingOwed ==
    ASSUME NEW l, NEW f, NEW st, NEW rc, MoneyAt(l, f, st, rc), l \notin SettlingLabels,
           NEW l2, l2 # "cancelWrite", NEW f2
    PROVE  MoneyAt(l2, f2, st, rc)
<1>1. PledgedAt(l2, f2, st)
  BY DEF MoneyAt, PledgedAt, VoidsAhead, SettlingLabels
<1>2. PaidBackAt(l2, f2, st, rc)
  BY DEF MoneyAt, PaidBackAt, PromiseAhead, SettlingLabels
<1>3. PaidAt(l2, st)
  BY DEF MoneyAt, PaidAt, SettlingLabels
<1> QED
  BY <1>1, <1>2, <1>3 DEF MoneyAt

LEMMA NothingRead ==
    ASSUME NEW l \in FreeLabels, NEW f, NEW st, NEW rc, f.ret \notin {"cancelWrite", "voidFind"}
    PROVE  StatusAt(l, f, st) /\ RefundAt(l, f, rc) /\ l \notin SettlingLabels /\ l \notin OverrideLabels
BY DEF FreeLabels, StatusAt, RefundAt, SettlingLabels, RefundLabels, OverrideLabels

\* A handler that owes nothing goes where it knows nothing.
LEMMA SagaFree ==
    ASSUME NEW l, NEW f, NEW st, NEW rc, SagaAt(l, f, st, rc), l \notin SettlingLabels,
           NEW l2 \in FreeLabels, NEW f2, f2.ret \notin {"cancelWrite", "voidFind"},
           f2.op \notin OverrideOps
    PROVE  SagaAt(l2, f2, st, rc)
BY NothingOwed, NothingRead DEF SagaAt, FrameAt, SettlingLabels

LEMMA IdleFrameFree == IdleFrame.ret = "idle" /\ IdleFrame.op = "none"
BY DEF IdleFrame

\* Where the cleanup leaves a handler.
LEMMA CleanupGoes ==
    ASSUME IInv, NEW h \in Handlers, pc[h] \in CleanupLabels, FrameAt(pc[h], frame[h]), CleanupDone(h)
    PROVE  /\ pc'[h] \in FreeLabels /\ frame'[h].op \notin OverrideOps
           /\ frame'[h].ret \notin {"cancelWrite", "voidFind"}
<1> DEFINE next == AfterCleanup[frame[h].op]
<1>1. frame[h].op \in DOMAIN AfterCleanup
  BY DEF IInv, ControlInv, FramesGood, FrameGood
<1>2. next \in FreeLabels
  BY <1>1 DEF AfterCleanup, FreeLabels, FrameAt, OverrideOps
<1>3. frame[h].op \notin OverrideOps /\ frame[h].ret \notin {"cancelWrite", "voidFind"}
  BY DEF FrameAt, CleanupLabels, RefundLabels
<1>4. CASE next = "idle"
  BY <1>4, Finishes, IdleFrameFree DEF CleanupDone, FreeLabels, OverrideOps
<1>5. CASE next # "idle"
  <2>1. Goto(h, next) /\ UNCHANGED frame
    BY <1>5 DEF CleanupDone
  <2> HIDE DEF next
  <2> QED
    BY <1>2, <1>3, <2>1, GoesOn
<1> QED
  BY <1>4, <1>5

\* The handler goes on at l, inside a procedure that returns to r.
CalledFrom(h, l, r) == Goto(h, l) /\ frame' = [frame EXCEPT ![h] = Call(@, r)]

\* A call of void or refund.
LEMMA CallsOn ==
    ASSUME IInv, NEW h \in Handlers, NEW l, NEW r, CalledFrom(h, l, r)
    PROVE  /\ pc'[h] = l /\ frame'[h].ret = r /\ frame'[h].op = frame[h].op
           /\ frame'[h].amt = frame[h].amt
<1> DEFINE f == [frame[h] EXCEPT !.ret = r]
<1>1. frame[h] \in Frames
  BY HandlerKnows
<1>2. f.ret = r /\ f.op = frame[h].op /\ f.amt = frame[h].amt
  BY <1>1 DEF Frames
<1>3. Goto(h, l) /\ frame' = [frame EXCEPT ![h] = f]
  BY DEF CalledFrom, Call
<1> HIDE DEF f
<1> QED
  BY <1>2, <1>3, MovesOn

\* Before anything was paid back, what is captured is all there.
LEMMA NothingPaidBack ==
    ASSUME IInv, NEW h \in Handlers, RowsAt(pc[h], frame[h]), NEW p \in Payments,
           payStatus[p] \notin Returned, captured[p] > 0
    PROVE  provRefunded[p] = 0 \/ payStatus[p] = "REFUND_PENDING"
<1>1. RowRight(p)
  BY DEF RowsAt
<1>2. payStatus[p] \in PaidRow
  BY <1>1 DEF RowRight, Lifecycle
<1> QED
  BY <1>1, <1>2 DEF RowRight, Lifecycle, PaidRow, Returned

LEMMA CleanupSaga ==
    ASSUME IInv, NEW h \in Handlers, SagaOf(h), Cleanup(h)
    PROVE  SagaOf(h)'
<1>1. RowsStay /\ BooksStay
  BY CleanupQuiet, RowsUntouched DEF Quiet
<1>2. /\ SagaAt(pc[h], frame[h], status, refundCents)
      /\ MoneyAt(pc[h], frame[h], status, refundCents)
      /\ pc[h] \in CleanupLabels /\ pc[h] \notin SettlingLabels
      /\ frame[h].op \notin OverrideOps /\ frame[h].ret \notin {"cancelWrite", "voidFind"}
  <2>1. pc[h] \in CleanupLabels
    BY DEF Cleanup, ExpireFind, ExpireWrite, ArrivalFind, ArrivalWrite, NightFind, NightWrite,
           CleanupLabels
  <2> QED
    BY <2>1 DEF SagaOf, SagaAt, FrameAt, CleanupLabels, SettlingLabels, RefundLabels
<1>3. SagaAt(pc'[h], frame'[h], status', refundCents')
  <2>1. CASE ExpireFind(h)
    <3>1. /\ UNCHANGED <<status, refundCents>> /\ frame'[h] = frame[h]
          /\ \/ pc'[h] = "expWrite" /\ status = "PENDING_VENUE_CONFIRMATION"
             \/ pc'[h] = "arrFind"
      BY <2>1, GoesOn DEF ExpireFind, DatabaseUnchanged, resVars, ConfirmationExpired
    <3>2. CASE pc'[h] = "arrFind"
      BY <1>2, <3>1, <3>2, SagaFree DEF FreeLabels
    <3>3. CASE pc'[h] = "expWrite"
      BY <1>2, <3>1, <3>3, NothingOwed DEF SagaAt, FrameAt, StatusAt, RefundAt, OverrideLabels,
         RefundLabels
    <3> QED
      BY <3>1, <3>2, <3>3
  <2>2. CASE ExpireWrite(h)
    <3>1. /\ pc[h] = "expWrite" /\ status' = "EXPIRED" /\ refundCents' = refundCents
          /\ pc'[h] = "voidFind" /\ frame'[h].ret = "arrFind" /\ frame'[h].op = frame[h].op
      <4>1. /\ pc[h] = "expWrite" /\ status' = "EXPIRED" /\ refundCents' = refundCents
            /\ CalledFrom(h, "voidFind", "arrFind")
        BY <2>2 DEF ExpireWrite, CalledFrom
      <4> QED
        BY <4>1, CallsOn
    <3>2. status = "PENDING_VENUE_CONFIRMATION"
      BY <1>2, <3>1 DEF SagaAt, StatusAt
    <3> QED
      BY <1>2, <3>1, <3>2 DEF SagaAt, FrameAt, StatusAt, RefundAt, OverrideLabels, RefundLabels, MoneyAt,
         PledgedAt, PaidBackAt, PaidAt, VoidsAhead, Withdrawn, Granted, Accepted, Seated, Terminal
  <2>3. CASE ArrivalFind(h)
    <3> DEFINE a == NoShowRefundCents(type, custIn, venueIn)
    <3>1. UNCHANGED <<status, refundCents>>
      BY <2>3 DEF ArrivalFind, DatabaseUnchanged, resVars
    <3>2. CASE ~ArrivalLockExpired
      <4>1. pc'[h] = "nightFind" /\ frame'[h] = frame[h]
        BY <2>3, <3>2, GoesOn DEF ArrivalFind
      <4> QED
        BY <1>2, <3>1, <4>1, SagaFree DEF FreeLabels
    <3>3. CASE ArrivalLockExpired
      <4> DEFINE f == [frame[h] EXCEPT !.amt = a]
      <4>1. Goto(h, "arrWrite") /\ frame' = [frame EXCEPT ![h] = f] /\ status \in Accepted
        BY <2>3, <3>3 DEF ArrivalFind, ArrivalLockExpired
      <4>2. f.ret = frame[h].ret /\ f.op = frame[h].op
        BY HandlerKnows DEF Frames
      <4> HIDE DEF f
      <4>3. pc'[h] = "arrWrite" /\ frame'[h] = f
        BY <4>1, MovesOn
      <4> QED
        BY <1>2, <3>1, <4>1, <4>2, <4>3, NothingOwed DEF SagaAt, FrameAt, StatusAt, RefundAt,
           OverrideLabels, RefundLabels
    <3> QED
      BY <3>2, <3>3
  <2>4. CASE ArrivalWrite(h)
    <3>1. /\ pc[h] = "arrWrite" /\ status' = "NO_SHOW" /\ refundCents' = frame[h].amt
          /\ pc'[h] = "refundFind" /\ frame'[h].ret = "nightFind" /\ frame'[h].op = frame[h].op
          /\ frame'[h].amt = frame[h].amt
      <4>1. /\ pc[h] = "arrWrite" /\ status' = "NO_SHOW" /\ refundCents' = frame[h].amt
            /\ CalledFrom(h, "refundFind", "nightFind")
        BY <2>4 DEF ArrivalWrite, CalledFrom
      <4> QED
        BY <4>1, CallsOn
    <3>2. status \in Accepted
      BY <1>2, <3>1 DEF SagaAt, StatusAt
    <3>3. ~HasRow(Returned)
      BY <1>2, <3>1, <3>2 DEF MoneyAt, PaidBackAt, HasRow, Withdrawn, Accepted
    <3> QED
      BY <1>2, <3>1, <3>2, <3>3 DEF SagaAt, FrameAt, StatusAt, RefundAt, OverrideLabels, RefundLabels,
         MoneyAt, PledgedAt, PaidBackAt, PaidAt, VoidsAhead, PromiseAhead, Withdrawn, Granted, Accepted,
         Seated, HasRow
  <2>5. CASE NightFind(h)
    <3>1. UNCHANGED <<status, refundCents>>
      BY <2>5 DEF NightFind, DatabaseUnchanged, resVars
    <3>2. CASE CleanupDone(h)
      BY <1>2, <3>1, <3>2, CleanupGoes, SagaFree DEF SagaAt
    <3>3. CASE ~CleanupDone(h)
      <4>1. pc'[h] = "nightWrite" /\ frame'[h] = frame[h] /\ status \in Seated
        BY <2>5, <3>3, GoesOn DEF NightFind, NightLockExpired
      <4> QED
        BY <1>2, <3>1, <4>1, NothingOwed DEF SagaAt, FrameAt, StatusAt, RefundAt, OverrideLabels,
           RefundLabels
    <3> QED
      BY <3>2, <3>3
  <2>6. CASE NightWrite(h)
    <3>1. pc[h] = "nightWrite" /\ status' = "COMPLETED" /\ refundCents' = refundCents
      BY <2>6 DEF NightWrite
    <3>2. status \in Seated
      BY <1>2, <3>1 DEF SagaAt, StatusAt
    <3>3. /\ pc'[h] \in FreeLabels /\ frame'[h].op \notin OverrideOps
          /\ frame'[h].ret \notin {"cancelWrite", "voidFind"}
      BY <1>2, <2>6, CleanupGoes DEF NightWrite, SagaAt
    <3>4. MoneyAt("idle", IdleFrame, status, refundCents)
      BY <1>2, NothingOwed
    <3>5. MoneyAt("idle", IdleFrame, "COMPLETED", refundCents)
      BY <3>2, <3>4 DEF MoneyAt, PledgedAt, PaidBackAt, PaidAt, VoidsAhead, Withdrawn, Granted, Accepted,
         Seated
    <3> QED
      BY <1>2, <3>1, <3>3, <3>5, NothingOwed, NothingRead DEF SagaAt, FrameAt, SettlingLabels
  <2> QED
    BY <2>1, <2>2, <2>3, <2>4, <2>5, <2>6 DEF Cleanup
<1> QED
  BY <1>1, <1>3, SagaRead

\* Support changes the status, or starts to, without a look at the payments.
Override(h) ==
    \/ AdminCancel(h) \/ ProblemResolved(h) \/ SetStatusBegin(h)
    \/ CleanupBegin(h) /\ frame'[h].op \in OverrideOps

\* The frame a request begins with.
LEMMA BeginsWith ==
    ASSUME IInv, NEW h \in Handlers, NEW o, NEW l, NEW f \in Frames, BeginAt(h, o, l, f)
    PROVE  /\ pc'[h] = l /\ frame'[h].op = o /\ frame'[h].ret = f.ret /\ frame'[h].amt = f.amt
<1> DEFINE g == [f EXCEPT !.op = o]
<1>1. g.op = o /\ g.ret = f.ret /\ g.amt = f.amt
  BY DEF Frames
<1>2. Goto(h, l) /\ frame' = [frame EXCEPT ![h] = g]
  BY DEF BeginAt
<1> HIDE DEF g
<1> QED
  BY <1>1, <1>2, MovesOn

\* The frame of a request that begins with no row and no caller.
LEMMA BeginsIdle ==
    ASSUME IInv, NEW h \in Handlers, NEW o, NEW l, NEW f, BeginAt(h, o, l, f),
           f = IdleFrame \/ \E p : f = [IdleFrame EXCEPT !.event = p]
                         \/ \E a : f = [IdleFrame EXCEPT !.amt = a]
    PROVE  pc'[h] = l /\ frame'[h].op = o /\ frame'[h].ret = "idle"
<1> DEFINE g == [f EXCEPT !.op = o]
<1>1. g.op = o /\ g.ret = "idle"
  BY DEF IdleFrame
<1>2. Goto(h, l) /\ frame' = [frame EXCEPT ![h] = g]
  BY DEF BeginAt
<1> HIDE DEF g
<1> QED
  BY <1>1, <1>2, MovesOn

LEMMA BeginSaga ==
    ASSUME IInv, NEW h \in Handlers, RowsAt(pc[h], frame[h]), SagaOf(h), Begin(h), ~Override(h)
    PROVE  SagaOf(h)'
<1>1. /\ RowsStay /\ BooksStay /\ UNCHANGED <<status, refundCents>>
  <2>1. DatabaseUnchanged
    BY DEF Begin, Override, CleanupBegin, CheckoutBegin, AssertBegin, NotifyBegin, DeclineBegin,
           CustomerCancelBegin, VenueCancelBegin, NoShowReportBegin, AdminRefundBegin
  <2> QED
    BY <2>1, DatabaseKeepsBooks DEF DatabaseUnchanged, resVars
<1>2. pc[h] = "idle"
  BY BeginMay DEF MayBegin, Idle
<1>3. /\ SagaAt("idle", frame[h], status, refundCents)
      /\ frame[h].op \notin OverrideOps /\ frame[h].ret \notin {"cancelWrite", "voidFind"}
  BY <1>2 DEF SagaOf, SagaAt, FrameAt, RefundLabels
<1>4. ASSUME NEW f2 PROVE MoneyAt("idle", f2, status, refundCents)
  BY <1>3, NothingOwed DEF SagaAt, SettlingLabels
<1>5. /\ \A p \in Payments : payStatus[p] \in Returned => status \in Withdrawn
      /\ \A p \in Payments : payStatus[p] = "AUTH_PENDING" => status = "REQUESTED"
  BY <1>3 DEF SagaAt, MoneyAt, PaidBackAt, PledgedAt, VoidsAhead
<1>6. \A S \in SUBSET OpenRow : \A p \in Payments : payStatus[p] \in S => LatestIn(S) = p
  BY <1>3, LatestOpen DEF RowsAt, SagaAt, IInv, DataInv, PaymentsTyped
<1>7. SagaAt(pc'[h], frame'[h], status', refundCents')
  <2>1. CASE CleanupBegin(h)
    <3>1. PICK o : Goto(h, "expFind") /\ frame' = [frame EXCEPT ![h].op = o]
      BY <2>1 DEF CleanupBegin
    <3> DEFINE f == [frame[h] EXCEPT !.op = o]
    <3>2. f.ret = frame[h].ret /\ frame' = [frame EXCEPT ![h] = f]
      BY <3>1, HandlerKnows DEF Frames
    <3> HIDE DEF f
    <3>3. pc'[h] = "expFind" /\ frame'[h].ret = frame[h].ret
      BY <3>1, <3>2, MovesOn
    <3> QED
      BY <1>1, <1>3, <2>1, <3>3, SagaFree DEF Override, SettlingLabels, FreeLabels
  <2>2. ASSUME NEW o \in {"checkout", "payStored"}, CheckoutBegin(h, o)
        PROVE  SagaAt(pc'[h], frame'[h], status', refundCents')
    <3>1. /\ status \notin Terminal /\ pc'[h] = "checkoutProvider" /\ frame'[h].op = o
          /\ frame'[h].ret = "idle"
      BY <2>2, BeginsIdle DEF CheckoutBegin
    <3>2. LatestIn({"AUTH_PENDING", "AUTHORIZED", "CAPTURED"}) \notin Payments
      BY <2>2, IdentityAssumption DEF CheckoutBegin
    <3>3. \A p \in Payments : payStatus[p] \notin {"AUTH_PENDING", "AUTHORIZED", "CAPTURED"}
      BY <1>6, <3>2 DEF OpenRow, Pledged
    <3>4. ~HasRow(OpenRow)
      BY <1>5, <3>1, <3>3 DEF HasRow, OpenRow, Pledged, Terminal, Withdrawn
    <3> QED
      BY <1>1, <1>3, <1>4, <3>1, <3>4, NothingOwed DEF SagaAt, FrameAt, StatusAt, RefundAt, RefundLabels,
         OverrideOps, OverrideLabels, SettlingLabels
  <2>3. CASE AssertBegin(h) \/ \E p \in Payments : NotifyBegin(h, p)
    <3> DEFINE Asserts == /\ pc'[h] = "assertRead"
                          /\ frame'[h].op \in {"assert", "notify"}
                          /\ frame'[h].ret = "idle"
    <3>1. ASSUME AssertBegin(h) PROVE Asserts
      <4>1. BeginAt(h, "assert", "assertRead", IdleFrame)
        BY <3>1 DEF AssertBegin
      <4> QED
        BY <4>1, BeginsIdle
    <3>2. ASSUME NEW p \in Payments, NotifyBegin(h, p) PROVE Asserts
      <4>1. BeginAt(h, "notify", "assertRead", [IdleFrame EXCEPT !.event = p])
        BY <3>2 DEF NotifyBegin
      <4> QED
        BY <4>1, BeginsIdle
    <3>3. Asserts
      BY <2>3, <3>1, <3>2
    <3> QED
      BY <1>1, <1>3, <3>3, SagaFree DEF SettlingLabels, FreeLabels, OverrideOps
  <2>4. CASE DeclineBegin(h) \/ NoShowReportBegin(h)
    <3>1. /\ pc'[h] \in {"declineWrite", "noShowWrite"}
          /\ pc'[h] = "declineWrite" => status = "PENDING_VENUE_CONFIRMATION"
          /\ pc'[h] = "noShowWrite" => status \in Accepted
          /\ frame'[h].op \in {"decline", "noShowReport"} /\ frame'[h].ret = "idle"
      BY <2>4, BeginsIdle DEF DeclineBegin, NoShowReportBegin
    <3> QED
      BY <1>1, <1>3, <1>4, <3>1, NothingOwed DEF SagaAt, FrameAt, StatusAt, RefundAt, RefundLabels,
         OverrideOps, OverrideLabels, SettlingLabels
  <2>5. CASE CustomerCancelBegin(h)
    <3>1. /\ status \notin Terminal \cup Seated
          /\ \E a : BeginAt(h, "cancelByCustomer", "customerCancelWrite", [IdleFrame EXCEPT !.amt = a])
      BY <2>5 DEF CustomerCancelBegin
    <3>2. pc'[h] = "customerCancelWrite" /\ frame'[h].op = "cancelByCustomer" /\ frame'[h].ret = "idle"
      BY <3>1, BeginsIdle
    <3> QED
      BY <1>1, <1>3, <1>4, <3>1, <3>2, NothingOwed DEF SagaAt, FrameAt, StatusAt, RefundAt, RefundLabels,
         OverrideOps, OverrideLabels, SettlingLabels
  <2>6. CASE VenueCancelBegin(h)
    <3> DEFINE f == [IdleFrame EXCEPT !.amt = Fee]
    <3>1. /\ status \notin Terminal \cup {"PENDING_VENUE_CONFIRMATION"}
          /\ BeginAt(h, "cancelByVenue", "venueCancelWrite", f)
      BY <2>6 DEF VenueCancelBegin
    <3>2. f \in Frames /\ f.ret = "idle" /\ f.amt = Fee
      BY FeeAssumption, IdleFrameGood DEF IdleFrame, Frames
    <3> HIDE DEF f
    <3>3. /\ pc'[h] = "venueCancelWrite" /\ frame'[h].op = "cancelByVenue" /\ frame'[h].ret = "idle"
          /\ frame'[h].amt = Fee
      BY <3>1, <3>2, BeginsWith
    <3> QED
      BY <1>1, <1>3, <1>4, <3>1, <3>3, NothingOwed DEF SagaAt, FrameAt, StatusAt, RefundAt, RefundLabels,
         OverrideOps, OverrideLabels, SettlingLabels
  <2>7. CASE AdminRefundBegin(h)
    <3> DEFINE p == LatestIn({"CAPTURED", "PARTIALLY_REFUNDED"})
    <3>1. p \in Payments /\ payStatus[p] \in {"CAPTURED", "PARTIALLY_REFUNDED"}
      BY <2>7, LatestInFound DEF AdminRefundBegin, IInv, DataInv, PaymentsTyped
    <3>2. PICK asked \in RefundAmounts :
              LET cents == SmallerOf(asked, captured[p] - refunded[p])
              IN  /\ cents > 0
                  /\ BeginAt(h, "adminRefund", "refundFind",
                             [IdleFrame EXCEPT !.amt = cents, !.ret = "cancelWrite"])
      BY <2>7 DEF AdminRefundBegin
    <3> DEFINE cents == SmallerOf(asked, captured[p] - refunded[p])
               f == [IdleFrame EXCEPT !.amt = cents, !.ret = "cancelWrite"]
    <3>3. cents > 0 /\ cents <= captured[p] - refunded[p] /\ cents \in 0..Fee
      <4>1. asked \in Nat
        BY BoundAssumption
      <4>2. captured[p] \in {0, Fee} /\ refunded[p] \in 0..Fee
        BY <3>1 DEF IInv, DataInv, PaymentsTyped
      <4>3. cents > 0
        BY <3>2
      <4> QED
        BY <4>1, <4>2, <4>3, FeeAssumption DEF SmallerOf
    <3>4. BeginAt(h, "adminRefund", "refundFind", f)
      BY <3>2
    <3> HIDE DEF p, cents
    <3>5. f \in Frames /\ f.ret = "cancelWrite" /\ f.amt = cents
      <4>1. IdleFrame \in Frames /\ "cancelWrite" \in Labels
        BY IdleFrameGood DEF FrameGood, Labels
      <4> QED
        BY <3>3, <4>1 DEF Frames
    <3> HIDE DEF f
    <3>6. /\ pc'[h] = "refundFind" /\ frame'[h].op = "adminRefund" /\ frame'[h].ret = "cancelWrite"
          /\ frame'[h].amt = cents
      BY <3>4, <3>5, BeginsWith
    <3>7. ~HasRow(Pledged)
      BY <1>3, <3>1 DEF SagaAt, OneOpen, HasRow, OpenRow, Pledged, Returned
    <3>8. StatusAt("refundFind", frame'[h], status) /\ RefundAt("refundFind", frame'[h], refundCents)
      BY <3>1, <3>3, <3>6, <3>7 DEF StatusAt, RefundAt, RefundLabels
    <3>9. MoneyAt("refundFind", frame'[h], status, refundCents)
      BY <1>3, NothingOwed DEF SagaAt, SettlingLabels
    <3> QED
      BY <1>1, <1>3, <3>6, <3>8, <3>9 DEF SagaAt, FrameAt, OverrideOps, OverrideLabels
  <2> QED
    BY <2>1, <2>2, <2>3, <2>4, <2>5, <2>6, <2>7 DEF Begin, Override
<1> QED
  BY <1>1, <1>7, SagaRead

\* What the steps below need of a state in which nothing is owed.
LEMMA SagaKnows ==
    ASSUME NEW h \in Handlers, SagaOf(h)
    PROVE  /\ OneOpen /\ FrameAt(pc[h], frame[h]) /\ StatusAt(pc[h], frame[h], status)
           /\ RefundAt(pc[h], frame[h], refundCents)
           /\ MoneyAt(pc[h], frame[h], status, refundCents)
           /\ PledgedAt(pc[h], frame[h], status)
           /\ PaidBackAt(pc[h], frame[h], status, refundCents) /\ PaidAt(pc[h], status)
           /\ frame[h].op \notin OverrideOps /\ pc[h] \notin OverrideLabels
           /\ pc[h] \notin RefundLabels \cup {"refundFind"} =>
                 frame[h].ret \notin {"cancelWrite", "voidFind"}
BY DEF SagaOf, SagaAt, FrameAt, MoneyAt

LEMMA AcceptSaga ==
    ASSUME IInv, NEW h \in Handlers, SagaOf(h), Accept(h)
    PROVE  SagaOf(h)'
<1>1. RowsStay /\ BooksStay
  BY AcceptQuiet, RowsUntouched DEF Quiet
<1>2. /\ SagaAt(pc[h], frame[h], status, refundCents)
      /\ MoneyAt(pc[h], frame[h], status, refundCents)
      /\ OneOpen /\ StatusAt(pc[h], frame[h], status)
      /\ frame[h].op \notin OverrideOps /\ frame[h].ret \notin {"cancelWrite", "voidFind"}
  <2>1. pc[h] \notin RefundLabels \cup {"refundFind"}
    BY DEF Accept, AcceptRead, AcceptExpire, AcceptWrite, RefundLabels
  <2> QED
    BY <2>1, SagaKnows DEF SagaOf
<1>3. SagaAt(pc'[h], frame'[h], status', refundCents')
  <2>1. CASE AcceptRead(h)
    <3>1. /\ UNCHANGED <<status, refundCents>> /\ pc[h] = "acceptRead"
          /\ \/ pc'[h] = "idle" /\ frame'[h] = IdleFrame
             \/ /\ pc'[h] \in {"acceptExpire", "captureFind"} /\ frame'[h] = frame[h]
                /\ status = "PENDING_VENUE_CONFIRMATION"
      BY <2>1, GoesOn, Finishes DEF AcceptRead, DatabaseUnchanged, resVars
    <3>2. CASE pc'[h] = "idle" /\ frame'[h] = IdleFrame
      BY <1>2, <3>1, <3>2, SagaFree, IdleFrameFree DEF FreeLabels, SettlingLabels, OverrideOps
    <3>3. CASE pc'[h] \in {"acceptExpire", "captureFind"} /\ frame'[h] = frame[h]
               /\ status = "PENDING_VENUE_CONFIRMATION"
      BY <1>2, <3>1, <3>3, NothingOwed DEF SagaAt, FrameAt, StatusAt, RefundAt, OverrideLabels,
         RefundLabels, SettlingLabels
    <3> QED
      BY <3>1, <3>2, <3>3
  <2>2. CASE AcceptExpire(h)
    <3>1. /\ pc[h] = "acceptExpire" /\ status' = "EXPIRED" /\ refundCents' = refundCents
          /\ pc'[h] = "voidFind" /\ frame'[h] = frame[h]
      BY <2>2, GoesOn DEF AcceptExpire
    <3>2. status = "PENDING_VENUE_CONFIRMATION"
      BY <1>2, <3>1 DEF StatusAt
    <3> QED
      BY <1>2, <3>1, <3>2 DEF SagaAt, FrameAt, StatusAt, RefundAt, OverrideLabels, RefundLabels,
         MoneyAt, PledgedAt, PaidBackAt, PaidAt, VoidsAhead, Withdrawn, Granted, Accepted, Seated,
         Terminal
  <2>3. CASE AcceptWrite(h)
    <3>1. /\ pc[h] = "acceptWrite" /\ status' \in {"CHECK_IN_PENDING", "CONFIRMED"}
          /\ refundCents' = refundCents /\ pc'[h] = "idle" /\ frame'[h] = IdleFrame
      BY <2>3, Finishes DEF AcceptWrite
    <3>2. /\ status = "PENDING_VENUE_CONFIRMATION" /\ ~HasRow(Pledged)
          /\ HasRow({"CAPTURED", "CAPTURE_PENDING"})
      BY <1>2, <3>1 DEF StatusAt
    <3>3. /\ \A p \in Payments : payStatus[p] \notin Pledged
          /\ HasRow({"CAPTURED", "CAPTURE_PENDING", "REFUND_PENDING"})
      BY <3>2 DEF HasRow
    <3>4. MoneyAt("idle", IdleFrame, status', refundCents)
      BY <1>2, <3>1, <3>2, <3>3 DEF MoneyAt, PledgedAt, PaidBackAt, PaidAt, Pledged, Withdrawn, Granted
    <3>5. StatusAt("idle", IdleFrame, status') /\ RefundAt("idle", IdleFrame, refundCents)
      BY NothingRead, IdleFrameFree DEF FreeLabels
    <3> QED
      BY <1>2, <3>1, <3>4, <3>5, IdleFrameFree DEF SagaAt, FrameAt, OverrideOps, OverrideLabels
  <2> QED
    BY <2>1, <2>2, <2>3 DEF Accept
<1> QED
  BY <1>1, <1>3, SagaRead

LEMMA CheckInSaga ==
    ASSUME IInv, NEW h \in Handlers, SagaOf(h), CheckIn(h)
    PROVE  SagaOf(h)'
<1>1. RowsStay /\ BooksStay
  BY CheckInQuiet, RowsUntouched DEF Quiet
<1>2. /\ SagaAt(pc[h], frame[h], status, refundCents)
      /\ MoneyAt(pc[h], frame[h], status, refundCents)
      /\ OneOpen /\ StatusAt(pc[h], frame[h], status) /\ pc[h] \notin OverrideLabels
      /\ frame[h].op \notin OverrideOps /\ frame[h].ret \notin {"cancelWrite", "voidFind"}
  <2>1. pc[h] \notin RefundLabels \cup {"refundFind"}
    BY DEF CheckIn, CheckInRead, CustomerCheckInRead, AdminCustomerCheckInRead, AdminVenueCheckInRead,
           CheckInIf, CheckInWrite, RefundLabels
  <2> QED
    BY <2>1, SagaKnows DEF SagaOf
<1>3. SagaAt(pc'[h], frame'[h], status', refundCents')
  <2>1. CASE CheckInRead(h) \/ CustomerCheckInRead(h)
    <3>1. /\ UNCHANGED <<status, refundCents>> /\ pc[h] \in {"checkInRead", "customerCheckInRead"}
          /\ \/ pc'[h] = "idle" /\ frame'[h] = IdleFrame
             \/ /\ pc'[h] \in {"checkInWrite", "customerCheckInWrite"} /\ frame'[h] = frame[h]
                /\ status \in Accepted
      BY <2>1, GoesOn, Finishes
         DEF CheckInRead, CustomerCheckInRead, CheckInIf, DatabaseUnchanged, resVars
    <3>2. CASE pc'[h] = "idle" /\ frame'[h] = IdleFrame
      BY <1>2, <3>1, <3>2, SagaFree, IdleFrameFree DEF FreeLabels, SettlingLabels, OverrideOps
    <3>3. CASE pc'[h] \in {"checkInWrite", "customerCheckInWrite"} /\ frame'[h] = frame[h]
               /\ status \in Accepted
      BY <1>2, <3>1, <3>3, NothingOwed DEF SagaAt, FrameAt, StatusAt, RefundAt, OverrideLabels,
         RefundLabels, SettlingLabels
    <3> QED
      BY <3>1, <3>2, <3>3
  <2>2. ASSUME NEW l \in {"checkInWrite", "customerCheckInWrite"},
               NEW new \in {"CHECKED_IN", "CHECK_IN_PENDING"}, CheckInWrite(h, l, new)
        PROVE  SagaAt(pc'[h], frame'[h], status', refundCents')
    <3>1. /\ pc[h] = l /\ status' = new /\ refundCents' = refundCents
          /\ pc'[h] = "idle" /\ frame'[h] = IdleFrame
      BY <2>2, Finishes DEF CheckInWrite
    <3>2. status \in Accepted
      BY <1>2, <3>1 DEF StatusAt
    <3>3. MoneyAt("idle", IdleFrame, status, refundCents)
      BY <1>2, <3>1, NothingOwed DEF SettlingLabels
    <3>4. MoneyAt("idle", IdleFrame, new, refundCents)
      BY <3>2, <3>3 DEF MoneyAt, PledgedAt, PaidBackAt, PaidAt, VoidsAhead, Withdrawn, Granted, Accepted,
         Seated
    <3>5. StatusAt("idle", IdleFrame, new) /\ RefundAt("idle", IdleFrame, refundCents)
      BY NothingRead, IdleFrameFree DEF FreeLabels
    <3> QED
      BY <1>2, <3>1, <3>4, <3>5, IdleFrameFree DEF SagaAt, FrameAt, OverrideOps, OverrideLabels
  <2>3. \/ CheckInRead(h) \/ CustomerCheckInRead(h)
        \/ CheckInWrite(h, "checkInWrite", "CHECKED_IN")
        \/ CheckInWrite(h, "customerCheckInWrite", "CHECK_IN_PENDING")
    BY <1>2 DEF CheckIn, AdminCustomerCheckInRead, AdminVenueCheckInRead, CheckInIf, CheckInWrite,
                OverrideLabels
  <2> QED
    BY <2>1, <2>2, <2>3
<1> QED
  BY <1>1, <1>3, SagaRead

\* The reservation is withdrawn; what it promises is paid back next.
LEMMA PayBackGoesOn ==
    ASSUME IInv, NEW h \in Handlers, PayBackAndVoid(h, frame[h].amt), frame[h].ret \notin {"voidFind"}
    PROVE  /\ frame'[h].op = frame[h].op /\ frame'[h].amt = frame[h].amt
           /\ \/ pc'[h] = "refundFind" /\ frame'[h].ret = "voidFind"
              \/ pc'[h] = "voidFind" /\ frame'[h].ret = frame[h].ret /\ frame[h].amt = 0
<1>1. frame[h].amt \in 0..Fee
  BY HandlerKnows
<1>2. CASE frame[h].amt > 0
  <2>1. CalledFrom(h, "refundFind", "voidFind")
    BY <1>2 DEF PayBackAndVoid, CalledFrom
  <2> QED
    BY <2>1, CallsOn
<1>3. CASE ~(frame[h].amt > 0)
  BY <1>1, <1>3, GoesOn, FeeAssumption DEF PayBackAndVoid
<1> QED
  BY <1>2, <1>3

LEMMA CancelSaga ==
    ASSUME IInv, NEW h \in Handlers, RowsAt(pc[h], frame[h]), SagaOf(h), Cancel(h)
    PROVE  SagaOf(h)'
<1>1. RowsStay /\ BooksStay
  BY CancelQuiet, RowsUntouched DEF Quiet
<1>2. /\ MoneyAt(pc[h], frame[h], status, refundCents)
      /\ OneOpen /\ StatusAt(pc[h], frame[h], status) /\ pc[h] \notin OverrideLabels
      /\ frame[h].op \notin OverrideOps /\ frame[h].ret \notin {"cancelWrite", "voidFind"}
  <2>1. pc[h] \notin RefundLabels \cup {"refundFind"}
    BY DEF Cancel, DeclineWrite, CustomerCancelWrite, VenueCancelWrite, NoShowReportWrite,
           AdminRefundCancel, SetStatusWrite, RefundLabels
  <2> QED
    BY <2>1, SagaKnows
<1>3. ~SetStatusWrite(h)
  BY <1>2 DEF SetStatusWrite, OverrideLabels
<1>4. SagaAt(pc'[h], frame'[h], status', refundCents')
  <2>1. CASE DeclineWrite(h)
    <3>1. /\ pc[h] = "declineWrite" /\ status' = "DECLINED" /\ refundCents' = refundCents
          /\ pc'[h] = "voidFind" /\ frame'[h] = frame[h]
      BY <2>1, GoesOn DEF DeclineWrite
    <3>2. status = "PENDING_VENUE_CONFIRMATION"
      BY <1>2, <3>1 DEF StatusAt
    <3> QED
      BY <1>2, <3>1, <3>2 DEF SagaAt, FrameAt, StatusAt, RefundAt, OverrideLabels, RefundLabels,
         MoneyAt, PledgedAt, PaidBackAt, PaidAt, VoidsAhead, Withdrawn, Granted, Accepted, Seated,
         Terminal
  <2>2. CASE CustomerCancelWrite(h) \/ VenueCancelWrite(h)
    <3>1. /\ pc[h] \in {"customerCancelWrite", "venueCancelWrite"}
          /\ status' \in {"CANCELLED_BY_USER", "CANCELLED"}
          /\ PayBackAndVoid(h, frame[h].amt)
          /\ pc[h] = "customerCancelWrite" => refundCents' = frame[h].amt
          /\ pc[h] = "venueCancelWrite" => refundCents' = Fee
      BY <2>2 DEF CustomerCancelWrite, VenueCancelWrite
    <3>2. status \notin Withdrawn /\ refundCents' = frame[h].amt
      BY <1>2, <3>1 DEF StatusAt, Withdrawn, Terminal
    <3>3. \A p \in Payments : payStatus[p] \notin Returned
      BY <1>2, <3>1, <3>2 DEF MoneyAt, PaidBackAt
    <3>4. \A p \in Payments : captured[p] > 0 => provRefunded[p] = 0 \/ payStatus[p] = "REFUND_PENDING"
      BY <3>3, NothingPaidBack
    <3>5. ~HasRow(Returned) /\ status' \in Withdrawn /\ status' \in Terminal
          /\ status' \notin {"REQUESTED", "PENDING_VENUE_CONFIRMATION"} \cup Granted
      BY <3>1, <3>3 DEF HasRow, Withdrawn, Terminal, Granted, Accepted, Seated
    <3>6. /\ frame'[h].op = frame[h].op /\ frame'[h].amt = frame[h].amt
          /\ \/ pc'[h] = "refundFind" /\ frame'[h].ret = "voidFind"
             \/ pc'[h] = "voidFind" /\ frame'[h].ret = frame[h].ret /\ frame[h].amt = 0
      BY <1>2, <3>1, PayBackGoesOn
    <3>7. MoneyAt(pc'[h], frame'[h], status', refundCents')
      BY <3>2, <3>3, <3>4, <3>5, <3>6 DEF MoneyAt, PledgedAt, PaidBackAt, PaidAt, VoidsAhead,
         PromiseAhead
    <3> QED
      BY <1>2, <3>2, <3>5, <3>6, <3>7 DEF SagaAt, FrameAt, StatusAt, RefundAt, OverrideLabels,
         RefundLabels
  <2>3. CASE NoShowReportWrite(h)
    <3>1. pc[h] = "noShowWrite" /\ refundCents' = refundCents /\ pc'[h] = "idle"
          /\ frame'[h] = IdleFrame
      BY <2>3, Finishes DEF NoShowReportWrite
    <3>2. status \in Accepted /\ status' = "NO_SHOW"
      BY <1>2, <2>3, <3>1 DEF StatusAt, NoShowReportWrite
    <3>3. MoneyAt("idle", IdleFrame, status, refundCents)
      BY <1>2, <3>1, NothingOwed DEF SettlingLabels
    <3>4. (\A p \in Payments : payStatus[p] \notin Returned) /\ refundCents = 0
      BY <3>2, <3>3 DEF MoneyAt, PaidBackAt, Accepted, Withdrawn
    <3>5. \A p \in Payments : captured[p] > 0 => provRefunded[p] = 0 \/ payStatus[p] = "REFUND_PENDING"
      BY <3>4, NothingPaidBack
    <3>6. MoneyAt("idle", IdleFrame, "NO_SHOW", refundCents)
      BY <3>2, <3>3, <3>4, <3>5 DEF MoneyAt, PledgedAt, PaidBackAt, PaidAt, VoidsAhead, Withdrawn,
         Granted, Accepted, Seated
    <3>7. StatusAt("idle", IdleFrame, "NO_SHOW") /\ RefundAt("idle", IdleFrame, refundCents)
      BY NothingRead, IdleFrameFree DEF FreeLabels
    <3> QED
      BY <1>2, <3>1, <3>2, <3>6, <3>7, IdleFrameFree DEF SagaAt, FrameAt, OverrideOps, OverrideLabels
  <2>4. CASE AdminRefundCancel(h)
    <3>1. /\ pc[h] = "cancelWrite" /\ status' = "CANCELLED" /\ refundCents' = refundCents
          /\ pc'[h] = "idle" /\ frame'[h] = IdleFrame
      BY <2>4, Finishes DEF AdminRefundCancel, CancelRow
    <3>2. \A p \in Payments : payStatus[p] \notin Pledged
      BY <1>2, <3>1 DEF StatusAt, HasRow
    <3>3. MoneyAt("idle", IdleFrame, "CANCELLED", refundCents)
      BY <1>2, <3>1, <3>2 DEF MoneyAt, PledgedAt, PaidBackAt, PaidAt, PromiseAhead, Pledged, Withdrawn,
         Granted, Accepted, Seated
    <3>4. StatusAt("idle", IdleFrame, "CANCELLED") /\ RefundAt("idle", IdleFrame, refundCents)
      BY NothingRead, IdleFrameFree DEF FreeLabels
    <3> QED
      BY <1>2, <3>1, <3>3, <3>4, IdleFrameFree DEF SagaAt, FrameAt, OverrideOps, OverrideLabels
  <2> QED
    BY <1>3, <2>1, <2>2, <2>3, <2>4 DEF Cancel
<1> QED
  BY <1>1, <1>4, SagaRead

-----------------------------------------------------------------------------
(* Steps that move a row, in the saga.                                     *)

\* Only row p changes, and it was not open: if it opens it must be the only one.
LEMMA RowOpens ==
    ASSUME NEW p \in Payments, OneRow(p), ~HasRow(OpenRow)
    PROVE  /\ OneOpen'
           /\ \A q \in Payments : payStatus'[q] \in OpenRow => q = p
BY DEF OneRow, OnlyRow, HasRow, OneOpen

\* The open row closes.
LEMMA RowCloses ==
    ASSUME NEW p \in Payments, OneRow(p), OneOpen, payStatus[p] \in OpenRow,
           payStatus'[p] \notin OpenRow
    PROVE  OneOpen' /\ \A q \in Payments : payStatus'[q] \notin OpenRow
BY DEF OneRow, OnlyRow, HasRow, OneOpen

\* Several labels at once: what a step that ends where nothing is known must show.
LEMMA SagaEnds ==
    ASSUME NEW h \in Handlers, pc'[h] \in FreeLabels,
           frame'[h].ret \notin {"cancelWrite", "voidFind"}, frame'[h].op \notin OverrideOps,
           OneOpen', MoneyAt(pc[h], frame[h], status, refundCents)'
    PROVE  SagaOf(h)'
<1>1. (StatusAt(pc[h], frame[h], status) /\ RefundAt(pc[h], frame[h], refundCents))'
  BY DEF FreeLabels, StatusAt, RefundAt, RefundLabels
<1>2. FrameAt(pc[h], frame[h])'
  BY DEF FrameAt, FreeLabels, OverrideLabels
<1> QED
  BY <1>1, <1>2 DEF SagaOf, SagaAt

LEMMA AuthorizeSaga ==
    ASSUME IInv, NEW h \in Handlers, RowsAt(pc[h], frame[h]), SagaOf(h), Authorize(h)
    PROVE  SagaOf(h)'
<1>1. /\ OneOpen /\ StatusAt(pc[h], frame[h], status)
      /\ PledgedAt(pc[h], frame[h], status)
      /\ PaidBackAt(pc[h], frame[h], status, refundCents) /\ PaidAt(pc[h], status)
      /\ SagaAt(pc[h], frame[h], status, refundCents)
      /\ MoneyAt(pc[h], frame[h], status, refundCents)
      /\ frame[h].op \notin OverrideOps /\ frame[h].ret \notin {"cancelWrite", "voidFind"}
      /\ pc[h] \notin SettlingLabels
  <2>1. pc[h] \notin RefundLabels \cup {"refundFind"} /\ pc[h] \notin SettlingLabels
    BY DEF Authorize, CheckoutProvider, CheckoutCreate, AssertRead, AssertProvider, Claim, RecordEvent,
           RefundLabels, SettlingLabels
  <2> QED
    BY <2>1, SagaKnows DEF SagaOf
<1>2. CASE CheckoutProvider(h)
  <2>1. /\ pc[h] = "checkoutProvider"
        /\ UNCHANGED <<payStatus, refunded, provRefunded, captured, status, refundCents>>
        /\ \/ pc'[h] = "idle" /\ frame'[h] = IdleFrame
           \/ pc'[h] = "checkoutCreate" /\ frame'[h].op = frame[h].op /\ frame'[h].ret = frame[h].ret
    BY <1>2, CheckoutProviderDoes
  <2>2. status \notin Terminal /\ ~HasRow(OpenRow)
    BY <1>1, <2>1 DEF StatusAt
  <2>3. SagaAt(pc'[h], frame'[h], status, refundCents)
    BY <1>1, <2>1, <2>2, NothingOwed, IdleFrameFree DEF SagaAt, FrameAt, StatusAt, RefundAt, RefundLabels,
       OverrideOps, OverrideLabels
  <2> QED
    BY <2>1, <2>3 DEF SagaOf, SagaAt, OneOpen, FrameAt, StatusAt, RefundAt, MoneyAt, PledgedAt,
       PaidBackAt, PaidAt, HasRow, VoidsAhead, PromiseAhead
<1>3. CASE CheckoutCreate(h)
  <2>1. PICK p \in Payments : p = frame[h].pay
    BY <1>3, CheckoutCreateDoes
  <2>2. /\ pc[h] = "checkoutCreate" /\ OneRow(p) /\ payStatus'[p] = "AUTH_PENDING"
        /\ status' = "REQUESTED" /\ refundCents' = refundCents
        /\ \/ pc'[h] = "idle" /\ frame'[h] = IdleFrame
           \/ pc'[h] = "claim" /\ frame'[h] = frame[h]
    BY <1>3, <2>1, CheckoutCreateDoes
  <2>3. status \notin Terminal /\ ~HasRow(OpenRow)
    BY <1>1, <2>2 DEF StatusAt
  <2>4. OneOpen' /\ \A q \in Payments : payStatus'[q] \in OpenRow => q = p
    BY <2>2, <2>3, RowOpens
  <2>5. \A q \in Payments : payStatus'[q] \notin Returned \cup {"AUTHORIZED"}
    BY <2>2, <2>4 DEF OpenRow, Pledged, Returned
  <2>6. refundCents = 0
    BY <1>1, <2>2, <2>3 DEF PaidBackAt, Withdrawn, Terminal
  <2>7. MoneyAt(pc[h], frame[h], status, refundCents)'
    BY <2>2, <2>5, <2>6 DEF MoneyAt, PledgedAt, PaidBackAt, PaidAt, Withdrawn, Granted, Accepted, Seated
  <2> QED
    BY <1>1, <2>2, <2>4, <2>7, SagaEnds, IdleFrameFree DEF FreeLabels, OverrideOps
<1>4. CASE AssertRead(h) \/ AssertProvider(h) \/ RecordEvent(h)
  <2>1. RowsStay /\ BooksStay /\ UNCHANGED <<status, refundCents>>
    BY <1>4, DatabaseKeepsBooks DEF AssertRead, AssertProvider, RecordEvent, DatabaseUnchanged, resVars,
       RowsStay, BooksStay, payVars, provVars
  <2>2. /\ pc'[h] \in {"recordEvent", "idle", "assertProvider", "claim"}
        /\ \/ frame'[h] \in {frame[h], IdleFrame}
           \/ frame'[h].ret = frame[h].ret /\ frame'[h].op = frame[h].op
    BY <1>4, AssertReadDoes, GoesOn, Finishes DEF AssertProvider, RecordEvent
  <2>3. SagaAt(pc'[h], frame'[h], status', refundCents')
    BY <1>1, <2>1, <2>2, SagaFree, IdleFrameFree DEF FreeLabels, OverrideOps
  <2> QED
    BY <2>1, <2>3, SagaRead
<1>5. CASE Claim(h)
  <2>1. PICK p \in Payments : p = frame[h].pay
    BY <1>5, ClaimDoes
  <2>2. pc[h] = "claim" /\ payStatus[p] = "AUTH_PENDING"
    BY <1>5, <2>1, ClaimDoes DEF RowsAt, Knows, RowAt
  <2>3. /\ OneRow(p) /\ payStatus'[p] = "AUTHORIZED" /\ status' = "PENDING_VENUE_CONFIRMATION"
        /\ pc'[h] \in {"recordEvent", "idle"} /\ frame'[h] \in {frame[h], IdleFrame}
        /\ refundCents' = refundCents
    BY <1>5, <2>1, <2>2, ClaimDoes
  <2>4. status = "REQUESTED"
    BY <1>1, <2>2 DEF PledgedAt, VoidsAhead
  <2>5. refundCents = 0
    BY <1>1, <2>2, <2>4 DEF PaidBackAt, Withdrawn
  <2>6. OneOpen' /\ \A q \in Payments \ {p} : payStatus'[q] \notin OpenRow
    BY <1>1, <2>2, <2>3 DEF OneOpen, OneRow, OnlyRow, OpenRow, Pledged
  <2>7. MoneyAt(pc[h], frame[h], status, refundCents)'
    <3>1. HasRow({"AUTHORIZED", "CAPTURE_PENDING"})'
      BY <2>3 DEF HasRow
    <3>2. \A q \in Payments : payStatus'[q] \notin Returned \cup {"AUTH_PENDING"}
      BY <2>3, <2>6 DEF OpenRow, Pledged, Returned
    <3> QED
      BY <2>3, <2>5, <3>1, <3>2 DEF MoneyAt, PledgedAt, PaidBackAt, PaidAt, Withdrawn, Granted, Accepted,
         Seated
  <2> QED
    BY <1>1, <2>3, <2>6, <2>7, SagaEnds, IdleFrameFree DEF FreeLabels, OverrideOps
<1> QED
  BY <1>2, <1>3, <1>4, <1>5 DEF Authorize

LEMMA CaptureSaga ==
    ASSUME IInv, NEW h \in Handlers, RowsAt(pc[h], frame[h]), SagaOf(h), Capture(h)
    PROVE  SagaOf(h)'
<1>1. /\ OneOpen /\ StatusAt(pc[h], frame[h], status)
      /\ PledgedAt(pc[h], frame[h], status)
      /\ PaidBackAt(pc[h], frame[h], status, refundCents) /\ PaidAt(pc[h], status)
      /\ SagaAt(pc[h], frame[h], status, refundCents)
      /\ MoneyAt(pc[h], frame[h], status, refundCents)
      /\ frame[h].op \notin OverrideOps /\ frame[h].ret \notin {"cancelWrite", "voidFind"}
      /\ pc[h] \in {"captureFind", "captureMark", "captureProvider", "captureTx"}
  <2>1. pc[h] \in {"captureFind", "captureMark", "captureProvider", "captureTx"}
    BY DEF Capture, CaptureFind, CaptureMark, CaptureProvider, CaptureTx, SetPayStatus
  <2> QED
    BY <2>1, SagaKnows DEF SagaOf, RefundLabels
<1>2. status = "PENDING_VENUE_CONFIRMATION"
  BY <1>1 DEF StatusAt
<1>3. /\ \A p \in Payments : payStatus[p] \notin Returned \cup {"AUTH_PENDING"}
      /\ refundCents = 0 /\ HasRow({"AUTHORIZED", "CAPTURE_PENDING"})
  BY <1>1, <1>2 DEF PaidBackAt, PledgedAt, PaidAt, VoidsAhead, Withdrawn
<1>4. CASE CaptureFind(h)
  <2>1. RowsStay /\ BooksStay /\ UNCHANGED <<status, refundCents>>
    BY <1>4, CaptureFindDoes, DatabaseKeepsBooks DEF DatabaseUnchanged, resVars
  <2>2. CASE LatestIn({"AUTHORIZED"}) = NoPayment
    <3>1. pc'[h] = "acceptWrite" /\ frame'[h] = frame[h]
      BY <1>4, <2>2, CaptureFindDoes, IdentityAssumption
    <3>2. \A p \in Payments : payStatus[p] # "AUTHORIZED"
      <4> SUFFICES ASSUME NEW p \in Payments, payStatus[p] = "AUTHORIZED" PROVE FALSE
        OBVIOUS
      <4>1. LatestIn({"AUTHORIZED"}) = p
        BY <1>1, LatestOpen DEF RowsAt, IInv, DataInv, PaymentsTyped, OpenRow, Pledged
      <4> QED
        BY <2>2, <4>1, IdentityAssumption
    <3>3. ~HasRow(Pledged) /\ HasRow({"CAPTURED", "CAPTURE_PENDING"})
      BY <1>3, <3>2 DEF HasRow, Pledged
    <3>4. MoneyAt("acceptWrite", frame[h], status, refundCents)
      BY <1>1, <1>3, NothingOwed DEF SettlingLabels
    <3> QED
      BY <1>1, <1>2, <2>1, <3>1, <3>3, <3>4, SagaRead DEF SagaAt, FrameAt, StatusAt, RefundAt,
         RefundLabels, OverrideLabels
  <2>3. CASE LatestIn({"AUTHORIZED"}) # NoPayment
    <3>1. /\ pc'[h] = "captureMark" /\ frame'[h].ret = frame[h].ret /\ frame'[h].op = frame[h].op
      BY <1>4, <2>3, CaptureFindDoes
    <3>2. MoneyAt("captureMark", frame'[h], status, refundCents)
      BY <1>1, NothingOwed, <1>4, CaptureFindDoes DEF SettlingLabels
    <3> QED
      BY <1>1, <1>2, <2>1, <3>1, <3>2, SagaRead DEF SagaAt, FrameAt, StatusAt, RefundAt,
         RefundLabels, OverrideLabels
  <2> QED
    BY <2>2, <2>3
<1>5. CASE CaptureMark(h)
  <2>1. SetPayStatus(h, "captureMark", "CAPTURE_PENDING", "captureProvider") /\ "captureMark" \in PayLabels
    BY <1>5 DEF CaptureMark, PayLabels
  <2>2. PICK p \in Payments : p = frame[h].pay
    BY <2>1, MarksRow
  <2>3. /\ pc[h] = "captureMark" /\ pc'[h] = "captureProvider" /\ frame'[h] = frame[h]
        /\ payStatus'[p] = "CAPTURE_PENDING" /\ OneRow(p)
        /\ UNCHANGED <<captured, refunded, provRefunded, status, refundCents>>
    BY <2>1, <2>2, MarksRow
  <2>4. payStatus[p] = "AUTHORIZED"
    BY <2>2, <2>3 DEF RowsAt, Knows, RowAt
  <2>5. OneOpen' /\ \A q \in Payments : payStatus'[q] \notin OpenRow
    BY <1>1, <2>3, <2>4, RowCloses DEF OpenRow, Pledged, Returned
  <2>6. HasRow({"AUTHORIZED", "CAPTURE_PENDING"})' /\ ~HasRow(OpenRow)'
    BY <2>3, <2>5 DEF HasRow
  <2>7. MoneyAt(pc[h], frame[h], status, refundCents)'
    BY <1>2, <1>3, <2>3, <2>5, <2>6 DEF MoneyAt, PledgedAt, PaidBackAt, PaidAt, OpenRow, Pledged,
       Withdrawn, Granted, Accepted, Seated
  <2>8. (StatusAt(pc[h], frame[h], status) /\ RefundAt(pc[h], frame[h], refundCents))'
    BY <1>1, <1>2, <2>3, <2>6 DEF StatusAt, RefundAt, RefundLabels
  <2> QED
    BY <1>1, <2>3, <2>5, <2>7, <2>8 DEF SagaOf, SagaAt, FrameAt, RefundLabels, OverrideLabels
<1>6. CASE CaptureProvider(h)
  <2>1. /\ pc[h] = "captureProvider"
        /\ UNCHANGED <<payStatus, refunded, provRefunded, captured, status, refundCents>>
        /\ \/ pc'[h] = "idle" /\ frame'[h] = IdleFrame
           \/ pc'[h] = "captureTx" /\ frame'[h] = frame[h]
    BY <1>6, CaptureProviderDoes
  <2>2. SagaAt(pc'[h], frame'[h], status, refundCents)
    <3>1. CASE pc'[h] = "idle" /\ frame'[h] = IdleFrame
      BY <1>1, <3>1, SagaFree, IdleFrameFree DEF FreeLabels, SettlingLabels, OverrideOps
    <3>2. CASE pc'[h] = "captureTx" /\ frame'[h] = frame[h]
      <4>1. ~HasRow(OpenRow)
        BY <1>1, <2>1 DEF StatusAt
      <4> QED
        BY <1>1, <1>2, <2>1, <3>2, <4>1, NothingOwed DEF SagaAt, FrameAt, StatusAt, RefundAt,
           RefundLabels, OverrideLabels, SettlingLabels
    <3> QED
      BY <2>1, <3>1, <3>2
  <2> QED
    BY <2>1, <2>2 DEF SagaOf, SagaAt, OneOpen, FrameAt, StatusAt, RefundAt, MoneyAt, PledgedAt,
       PaidBackAt, PaidAt, HasRow, VoidsAhead, PromiseAhead
<1>7. CASE CaptureTx(h)
  <2>1. PICK p \in Payments : p = frame[h].pay
    BY <1>7, CaptureTxDoes
  <2>2. /\ pc[h] = "captureTx" /\ pc'[h] = "acceptWrite" /\ frame'[h] = frame[h]
        /\ payStatus'[p] = "CAPTURED" /\ OneRow(p)
        /\ UNCHANGED <<refunded, provRefunded, status, refundCents>>
    BY <1>7, <2>1, CaptureTxDoes
  <2>3. ~HasRow(OpenRow)
    BY <1>1, <2>2 DEF StatusAt
  <2>4. OneOpen' /\ \A q \in Payments : payStatus'[q] \in OpenRow => q = p
    BY <2>2, <2>3, RowOpens
  <2>5. \A q \in Payments : payStatus'[q] \notin Pledged \cup Returned
    BY <2>2, <2>4 DEF OpenRow, Pledged, Returned
  <2>6. ~HasRow(Pledged)' /\ HasRow({"CAPTURED", "CAPTURE_PENDING"})'
    BY <2>2, <2>5 DEF HasRow
  <2>7. MoneyAt(pc[h], frame[h], status, refundCents)'
    BY <1>2, <1>3, <2>2, <2>5 DEF MoneyAt, PledgedAt, PaidBackAt, PaidAt, Pledged,
       Withdrawn, Granted, Accepted, Seated
  <2>8. (StatusAt(pc[h], frame[h], status) /\ RefundAt(pc[h], frame[h], refundCents))'
    BY <1>1, <1>2, <2>2, <2>6 DEF StatusAt, RefundAt, RefundLabels
  <2> QED
    BY <1>1, <2>2, <2>4, <2>7, <2>8 DEF SagaOf, SagaAt, FrameAt, RefundLabels, OverrideLabels
<1> QED
  BY <1>4, <1>5, <1>6, <1>7 DEF Capture

LEMMA VoidSaga ==
    ASSUME IInv, NEW h \in Handlers, RowsAt(pc[h], frame[h]), SagaOf(h), Void(h)
    PROVE  SagaOf(h)'
<1>1. /\ OneOpen /\ StatusAt(pc[h], frame[h], status)
      /\ PledgedAt(pc[h], frame[h], status)
      /\ PaidBackAt(pc[h], frame[h], status, refundCents) /\ PaidAt(pc[h], status)
      /\ SagaAt(pc[h], frame[h], status, refundCents)
      /\ MoneyAt(pc[h], frame[h], status, refundCents)
      /\ frame[h].op \notin OverrideOps /\ frame[h].ret \notin {"cancelWrite", "voidFind"}
      /\ pc[h] \in {"voidFind", "voidLocal", "voidMark", "voidProvider", "voidWrite", "voidLedger"}
  <2>1. pc[h] \in {"voidFind", "voidLocal", "voidMark", "voidProvider", "voidWrite", "voidLedger"}
    BY DEF Void, VoidFind, VoidLocal, VoidMark, VoidProvider, VoidWrite, VoidLedger, SetPayStatus
  <2> QED
    BY <2>1, SagaKnows DEF SagaOf, RefundLabels
<1>2. status \in Terminal
  BY <1>1 DEF StatusAt
<1>3. ASSUME NEW l \in FreeLabels \cup {"voidFind", "voidLocal", "voidMark", "voidProvider",
                                        "voidWrite", "voidLedger"},
             NEW f, ~HasRow(Pledged) \/ l \in {"voidFind", "voidLocal", "voidMark"}
      PROVE  MoneyAt(l, f, status, refundCents)
  <2>1. PledgedAt(l, f, status)
    BY <1>3 DEF PledgedAt, HasRow, Pledged, VoidsAhead
  <2>2. PaidBackAt(l, f, status, refundCents) /\ PaidAt(l, status)
    BY <1>1, <1>3 DEF PaidBackAt, PaidAt, PromiseAhead, FreeLabels
  <2> QED
    BY <2>1, <2>2 DEF MoneyAt
<1>4. CASE VoidFind(h)
  <2>1. RowsStay /\ BooksStay /\ UNCHANGED <<status, refundCents>>
    BY <1>4, VoidFindDoes, DatabaseKeepsBooks DEF DatabaseUnchanged, resVars
  <2>2. CASE LatestIn({"AUTH_PENDING", "AUTHORIZED"}) = NoPayment
    <3>1. /\ pc'[h] = frame[h].ret /\ frame[h].ret \in ReturnLabels
          /\ frame'[h].ret = "idle" /\ frame'[h].op \in {"none", frame[h].op}
      BY <1>4, <2>2, VoidFindDoes, IdentityAssumption
    <3>2. ~HasRow(Pledged)
      <4> SUFFICES ASSUME NEW p \in Payments, payStatus[p] \in Pledged PROVE FALSE
        BY DEF HasRow
      <4>1. LatestIn({"AUTH_PENDING", "AUTHORIZED"}) = p
        BY <1>1, LatestOpen DEF RowsAt, IInv, DataInv, PaymentsTyped, OpenRow, Pledged
      <4> QED
        BY <2>2, <4>1, IdentityAssumption
    <3>3. pc'[h] \in FreeLabels
      BY <1>1, <3>1 DEF ReturnLabels, FreeLabels
    <3>4. MoneyAt(pc'[h], frame'[h], status, refundCents)
      BY <1>3, <3>2, <3>3
    <3> QED
      BY <1>1, <2>1, <3>1, <3>3, <3>4, NothingRead, SagaRead DEF SagaAt, FrameAt, OverrideOps
  <2>3. CASE LatestIn({"AUTH_PENDING", "AUTHORIZED"}) # NoPayment
    <3>1. /\ pc'[h] \in {"voidLocal", "voidMark"}
          /\ frame'[h].ret = frame[h].ret /\ frame'[h].op = frame[h].op
      BY <1>4, <2>3, VoidFindDoes
    <3>2. MoneyAt(pc'[h], frame'[h], status, refundCents)
      BY <1>3, <3>1
    <3> QED
      BY <1>1, <1>2, <2>1, <3>1, <3>2, SagaRead DEF SagaAt, FrameAt, StatusAt, RefundAt,
         RefundLabels, OverrideLabels
  <2> QED
    BY <2>2, <2>3
<1>5. CASE VoidLocal(h) \/ VoidMark(h) \/ VoidWrite(h)
  <2>1. PICK new \in {"VOIDED", "VOID_PENDING"}, next \in {"voidLedger", "voidProvider"} :
            /\ pc[h] \in {"voidLocal", "voidMark", "voidWrite"}
            /\ SetPayStatus(h, pc[h], new, next)
    BY <1>5 DEF VoidLocal, VoidMark, VoidWrite, SetPayStatus
  <2>2. pc[h] \in PayLabels
    BY <2>1 DEF PayLabels
  <2>3. PICK p \in Payments : p = frame[h].pay
    BY <2>2, HandlerKnows
  <2>4. /\ pc'[h] = next /\ frame'[h] = frame[h] /\ payStatus'[p] = new /\ OneRow(p)
        /\ UNCHANGED <<captured, refunded, provRefunded, status, refundCents>>
    BY <2>1, <2>2, <2>3, MarksRow
  <2>5. /\ payStatus[p] \in {"AUTH_PENDING", "AUTHORIZED", "VOID_PENDING"}
        /\ pc[h] # "voidWrite" => payStatus[p] \in Pledged
    BY <2>1, <2>2, <2>3, RowInHand DEF RowAt, Pledged
  <2>6. \A q \in Payments : payStatus'[q] \notin Pledged
    BY <1>1, <2>1, <2>4, <2>5 DEF StatusAt, HasRow, OneOpen, OneRow, OnlyRow, OpenRow, Pledged
  <2>7. OneOpen' /\ \A q \in Payments : payStatus'[q] \in OpenRow => payStatus'[q] = payStatus[q]
    BY <1>1, <2>4, <2>5 DEF OneOpen, OneRow, OnlyRow, OpenRow, Pledged, Returned
  <2>8. MoneyAt(pc[h], frame[h], status, refundCents)'
    <3>1. PledgedAt(pc[h], frame[h], status)'
      BY <2>6 DEF PledgedAt, Pledged
    <3>2. PaidBackAt(pc[h], frame[h], status, refundCents)'
      <4>1. \A q \in Payments : payStatus[q] = "REFUND_PENDING" => payStatus'[q] = "REFUND_PENDING"
        BY <2>4, <2>5 DEF OneRow, OnlyRow
      <4> QED
        BY <1>1, <2>1, <2>4, <2>7, <4>1 DEF PaidBackAt, PromiseAhead, OpenRow, Returned
    <3>3. PaidAt(pc[h], status)'
      <4>1. status # "PENDING_VENUE_CONFIRMATION"
        BY <1>2 DEF Terminal
      <4>2. status \in Granted => HasRow({"CAPTURED", "CAPTURE_PENDING", "REFUND_PENDING"})
        BY <1>1, <2>1 DEF PaidAt
      <4>3. status \in Granted => HasRow({"CAPTURED", "CAPTURE_PENDING", "REFUND_PENDING"})'
        BY <2>4, <2>5, <4>2 DEF HasRow, OneRow, OnlyRow
      <4> QED
        BY <2>4, <4>1, <4>3 DEF PaidAt
    <3> QED
      BY <3>1, <3>2, <3>3 DEF MoneyAt
  <2>9. (StatusAt(pc[h], frame[h], status) /\ RefundAt(pc[h], frame[h], refundCents))'
    BY <1>1, <1>2, <2>4, <2>6 DEF StatusAt, RefundAt, RefundLabels, HasRow
  <2> QED
    BY <1>1, <2>4, <2>7, <2>8, <2>9 DEF SagaOf, SagaAt, FrameAt, RefundLabels, OverrideLabels
<1>6. CASE VoidProvider(h)
  <2>1. /\ pc[h] = "voidProvider"
        /\ UNCHANGED <<payStatus, refunded, provRefunded, captured, status, refundCents>>
        /\ \/ pc'[h] = "idle" /\ frame'[h] = IdleFrame
           \/ pc'[h] = "voidWrite" /\ frame'[h] = frame[h]
    BY <1>6, VoidProviderDoes
  <2>2. ~HasRow(Pledged)
    BY <1>1, <2>1 DEF StatusAt
  <2>3. MoneyAt(pc'[h], frame'[h], status, refundCents)
    BY <1>3, <2>1, <2>2 DEF FreeLabels
  <2>4. SagaAt(pc'[h], frame'[h], status, refundCents)
    BY <1>1, <1>2, <2>1, <2>2, <2>3, IdleFrameFree DEF SagaAt, FrameAt, StatusAt, RefundAt, RefundLabels,
       OverrideOps, OverrideLabels
  <2> QED
    BY <2>1, <2>4 DEF SagaOf, SagaAt, OneOpen, FrameAt, StatusAt, RefundAt, MoneyAt, PledgedAt,
       PaidBackAt, PaidAt, HasRow, VoidsAhead, PromiseAhead
<1>7. CASE VoidLedger(h)
  <2>1. /\ pc[h] = "voidLedger" /\ pc'[h] = frame[h].ret /\ frame[h].ret \in ReturnLabels
        /\ frame'[h].ret = "idle" /\ frame'[h].op \in {"none", frame[h].op}
        /\ UNCHANGED <<payStatus, captured, refunded, provRefunded, status, refundCents>>
    BY <1>7, VoidLedgerDoes
  <2>2. ~HasRow(Pledged) /\ pc'[h] \in FreeLabels
    BY <1>1, <2>1 DEF StatusAt, ReturnLabels, FreeLabels
  <2>3. MoneyAt(pc'[h], frame'[h], status, refundCents)
    BY <1>3, <2>2
  <2>4. SagaAt(pc'[h], frame'[h], status, refundCents)
    BY <1>1, <2>1, <2>2, <2>3, NothingRead DEF SagaAt, FrameAt, OverrideOps
  <2> QED
    BY <2>1, <2>4 DEF SagaOf, SagaAt, OneOpen, FrameAt, StatusAt, RefundAt, MoneyAt, PledgedAt,
       PaidBackAt, PaidAt, HasRow, VoidsAhead, PromiseAhead
<1> QED
  BY <1>4, <1>5, <1>6, <1>7 DEF Void

\* Money that no open row holds is being paid back.
LEMMA PendingRefund ==
    ASSUME NEW l, NEW f, RowsAt(l, f), NEW p \in Payments, captured[p] > 0, payStatus[p] \notin OpenRow
    PROVE  payStatus[p] = "REFUND_PENDING"
<1>1. RowRight(p)
  BY DEF RowsAt
<1>2. payStatus[p] \in PaidRow
  BY <1>1 DEF RowRight, Lifecycle
<1> QED
  BY <1>2 DEF PaidRow, OpenRow, Returned

LEMMA RefundFindSaga ==
    ASSUME IInv, NEW h \in Handlers, RowsAt(pc[h], frame[h]), SagaOf(h), RefundFind(h)
    PROVE  SagaOf(h)'
<1> DEFINE q    == LatestIn({"CAPTURED", "PARTIALLY_REFUNDED"})
           next == SmallerOf(frame[h].amt, captured[q] - refunded[q])
<1>1. /\ OneOpen /\ StatusAt(pc[h], frame[h], status) /\ RefundAt(pc[h], frame[h], refundCents)
      /\ PledgedAt(pc[h], frame[h], status)
      /\ PaidBackAt(pc[h], frame[h], status, refundCents) /\ PaidAt(pc[h], status)
      /\ frame[h].op \notin OverrideOps /\ pc[h] = "refundFind"
  BY SagaKnows DEF RefundFind
<1>2. RowsStay /\ BooksStay /\ UNCHANGED <<status, refundCents>>
  BY RefundFindDoes, DatabaseKeepsBooks DEF DatabaseUnchanged, resVars
<1>3. \A p \in Payments : payStatus[p] \in {"CAPTURED", "PARTIALLY_REFUNDED"} => q = p
  BY <1>1, LatestOpen DEF RowsAt, IInv, DataInv, PaymentsTyped, OpenRow, Returned
<1>4. frame[h].amt \in 0..Fee /\ refundCents \in 0..Fee
  BY HandlerKnows DEF IInv, DataInv, ReservationTyped
<1>5. CASE frame[h].amt > 0 /\ q \in Payments /\ next > 0
  <2> USE <1>5
  <2>1. /\ payStatus[q] \in {"CAPTURED", "PARTIALLY_REFUNDED"} /\ pc'[h] = "refundMark"
        /\ frame'[h].pay = q /\ frame'[h].ret = frame[h].ret /\ frame'[h].op = frame[h].op
    <3>1. captured[q] \in 0..Fee /\ refunded[q] \in 0..Fee /\ frame[h].amt \in 0..Fee
      BY <1>4, FeeAssumption DEF IInv, DataInv, PaymentsTyped
    <3>2. next \in Int
      BY <3>1, FeeAssumption DEF SmallerOf
    <3>3. ~(frame[h].amt <= 0 \/ q = NoPayment \/ next <= 0)
      BY <1>4, <3>2, IdentityAssumption
    <3> QED
      BY <3>3, RefundFindDoes
  <2> HIDE DEF q, next
  <2>2. \A p \in Payments \ {q} : payStatus[p] \notin OpenRow
    BY <1>1, <2>1 DEF OneOpen, OpenRow, Returned
  <2>3. \A p \in Payments \ {q} : captured[p] > 0 => payStatus[p] = "REFUND_PENDING"
    BY <2>2, PendingRefund
  <2>4. \A p \in Payments : payStatus[p] \notin Pledged
    BY <2>1, <2>2 DEF OpenRow, Pledged
  <2>5. PledgedAt(pc'[h], frame'[h], status)
    BY <2>4 DEF PledgedAt, Pledged
  <2>6. PaidBackAt(pc'[h], frame'[h], status, refundCents)
    BY <1>1, <2>1, <2>3 DEF PaidBackAt, PromiseAhead
  <2>7. PaidAt(pc'[h], status)
    BY <1>1, <2>1 DEF PaidAt
  <2>8. StatusAt(pc'[h], frame'[h], status) /\ RefundAt(pc'[h], frame'[h], refundCents)
    BY <1>1, <2>1 DEF StatusAt, RefundAt, RefundLabels
  <2> QED
    BY <1>1, <1>2, <2>1, <2>5, <2>6, <2>7, <2>8, SagaRead DEF SagaAt, MoneyAt, FrameAt, RefundLabels,
       OverrideLabels
<1>6. CASE ~(frame[h].amt > 0 /\ q \in Payments /\ next > 0)
  <2>1. /\ pc'[h] = frame[h].ret /\ frame[h].ret \in ReturnLabels
        /\ frame'[h].ret = "idle" /\ frame'[h].op \in {"none", frame[h].op}
    BY <1>4, <1>6, RefundFindDoes, IdentityAssumption
  <2>2. frame[h].ret # "cancelWrite"
    <3> SUFFICES ASSUME frame[h].ret = "cancelWrite" PROVE FALSE
      OBVIOUS
    <3>1. PICK p \in Payments : /\ payStatus[p] \in {"CAPTURED", "PARTIALLY_REFUNDED"}
                                /\ 0 < frame[h].amt /\ frame[h].amt <= captured[p] - refunded[p]
      BY <1>1 DEF RefundAt
    <3>2. q = p
      BY <1>3, <3>1
    <3>3. captured[p] \in {0, Fee} /\ refunded[p] \in 0..Fee
      BY DEF IInv, DataInv, PaymentsTyped
    <3> HIDE DEF q
    <3>4. next > 0
      BY <1>4, <3>1, <3>2, <3>3, FeeAssumption DEF SmallerOf
    <3> QED
      BY <1>4, <1>6, <3>1, <3>2, <3>4
  <2>3. status \in Withdrawn /\ frame[h].amt = refundCents /\ ~HasRow(Returned)
    BY <1>1, <2>2 DEF StatusAt, RefundAt
  <2>4. ASSUME NEW p \in Payments, captured[p] > 0
        PROVE  provRefunded[p] = refundCents \/ payStatus[p] = "REFUND_PENDING"
    <3>1. payStatus[p] \notin Returned
      BY <2>3 DEF HasRow
    <3>2. provRefunded[p] = 0 \/ payStatus[p] = "REFUND_PENDING"
      BY <2>4, <3>1, NothingPaidBack
    <3>3. CASE payStatus[p] \in OpenRow
      <4>1. payStatus[p] = "CAPTURED" /\ refunded[p] = 0
        <5>1. RowRight(p)
          BY DEF RowsAt
        <5>2. payStatus[p] \in PaidRow
          BY <2>4, <5>1 DEF RowRight, Lifecycle
        <5> QED
          BY <3>1, <3>3, <5>1, <5>2 DEF PaidRow, OpenRow, Pledged, Returned, RowRight, Lifecycle
      <4>2. q = p
        BY <1>3, <4>1
      <4>3. captured[p] \in {0, Fee}
        BY DEF IInv, DataInv, PaymentsTyped
      <4> HIDE DEF q
      <4>4. frame[h].amt > 0 => next > 0
        BY <1>4, <2>4, <4>1, <4>2, <4>3, FeeAssumption DEF SmallerOf
      <4>5. refundCents = 0
        BY <1>4, <1>6, <2>3, <4>2, <4>4
      <4> QED
        BY <3>2, <4>5
    <3>4. CASE payStatus[p] \notin OpenRow
      BY <2>4, <3>4, PendingRefund
    <3> QED
      BY <3>3, <3>4
  <2> HIDE DEF q, next
  <2>5. pc'[h] \in {"idle", "arrFind", "nightFind", "voidFind"}
    BY <2>1, <2>2 DEF ReturnLabels
  <2>6. PaidBackAt(pc'[h], frame'[h], status, refundCents)
    BY <2>3, <2>4 DEF PaidBackAt
  <2>7. PledgedAt(pc'[h], frame'[h], status)
    BY <1>1, <2>1 DEF PledgedAt, VoidsAhead
  <2>8. PaidAt(pc'[h], status)
    BY <1>1, <2>2, <2>5 DEF PaidAt
  <2>9. StatusAt(pc'[h], frame'[h], status) /\ RefundAt(pc'[h], frame'[h], refundCents)
    BY <2>1, <2>3, <2>5 DEF StatusAt, RefundAt, RefundLabels, Withdrawn, Terminal
  <2> QED
    BY <1>1, <1>2, <2>1, <2>5, <2>6, <2>7, <2>8, <2>9, SagaRead DEF SagaAt, MoneyAt, FrameAt,
       RefundLabels, OverrideLabels, OverrideOps
<1> QED
  BY <1>5, <1>6

LEMMA RefundSaga ==
    ASSUME IInv, NEW h \in Handlers, RowsAt(pc[h], frame[h]), SagaOf(h), Refund(h)
    PROVE  SagaOf(h)'
<1>1. /\ OneOpen /\ StatusAt(pc[h], frame[h], status)
      /\ PledgedAt(pc[h], frame[h], status)
      /\ PaidBackAt(pc[h], frame[h], status, refundCents) /\ PaidAt(pc[h], status)
      /\ SagaAt(pc[h], frame[h], status, refundCents)
      /\ MoneyAt(pc[h], frame[h], status, refundCents)
      /\ frame[h].op \notin OverrideOps
  BY SagaKnows DEF SagaOf
<1>2. CASE RefundFind(h)
  BY <1>2, RefundFindSaga
<1>3. CASE RefundMark(h)
  <2>1. SetPayStatus(h, "refundMark", "REFUND_PENDING", "refundProvider") /\ "refundMark" \in PayLabels
    BY <1>3 DEF RefundMark, PayLabels, RefundLabels
  <2>2. PICK p \in Payments : p = frame[h].pay
    BY <2>1, MarksRow
  <2>3. /\ pc[h] = "refundMark" /\ pc'[h] = "refundProvider" /\ frame'[h] = frame[h]
        /\ payStatus'[p] = "REFUND_PENDING" /\ OneRow(p)
        /\ UNCHANGED <<captured, refunded, provRefunded, status, refundCents>>
    BY <2>1, <2>2, MarksRow
  <2>4. payStatus[p] \in {"CAPTURED", "PARTIALLY_REFUNDED"}
    BY <2>2, <2>3 DEF RowsAt, Knows, RowAt
  <2>5. /\ OneOpen' /\ \A q \in Payments : payStatus'[q] \notin OpenRow
        /\ \A q \in Payments \ {p} : payStatus[q] \notin OpenRow /\ payStatus'[q] = payStatus[q]
    BY <1>1, <2>3, <2>4, RowCloses DEF OpenRow, Pledged, Returned, OneOpen, OneRow, OnlyRow
  <2>6. \A q \in Payments : captured'[q] > 0 => payStatus'[q] = "REFUND_PENDING"
    BY <2>3, <2>5, PendingRefund
  <2>7. ~HasRow(OpenRow)' /\ ~HasRow(Pledged)'
    BY <2>5 DEF HasRow, OpenRow
  <2>8. PledgedAt(pc[h], frame[h], status)' /\ PaidBackAt(pc[h], frame[h], status, refundCents)'
    BY <1>1, <2>3, <2>5, <2>6 DEF PledgedAt, PaidBackAt, OpenRow, Pledged
  <2>9. PaidAt(pc[h], status)'
    <3>1. HasRow({"CAPTURED", "CAPTURE_PENDING", "REFUND_PENDING"})'
      BY <2>3 DEF HasRow
    <3>2. status = "PENDING_VENUE_CONFIRMATION" => \E q \in Payments \ {p} : payStatus[q] = "CAPTURE_PENDING"
      BY <1>1, <2>3, <2>4, <2>5 DEF PaidAt, HasRow, OpenRow, Pledged
    <3> QED
      BY <2>3, <2>5, <3>1, <3>2 DEF PaidAt, HasRow
  <2>10. (StatusAt(pc[h], frame[h], status) /\ RefundAt(pc[h], frame[h], refundCents))'
    BY <1>1, <2>3, <2>7 DEF StatusAt, RefundAt, RefundLabels
  <2> QED
    BY <1>1, <2>3, <2>5, <2>8, <2>9, <2>10 DEF SagaOf, SagaAt, MoneyAt, FrameAt, RefundLabels,
       OverrideLabels
<1>4. CASE RefundProvider(h)
  <2>1. /\ pc[h] = "refundProvider"
        /\ UNCHANGED <<payStatus, refunded, captured, status, refundCents>>
        /\ \/ pc'[h] = "idle" /\ frame'[h] = IdleFrame
           \/ pc'[h] = "refundTx" /\ frame'[h] = frame[h]
    BY <1>4, RefundProviderDoes
  <2>2. \A q \in Payments : payStatus[q] \notin OpenRow
    BY <1>1, <2>1 DEF StatusAt, HasRow
  <2>3. \A q \in Payments : captured[q] > 0 => payStatus[q] = "REFUND_PENDING"
    BY <2>2, PendingRefund
  <2>4. OneOpen' /\ ~HasRow(OpenRow)' /\ ~HasRow(Pledged)'
    BY <2>1, <2>2 DEF OneOpen, HasRow, OpenRow
  <2>5. PledgedAt(pc[h], frame[h], status)' /\ PaidBackAt(pc[h], frame[h], status, refundCents)'
    BY <1>1, <2>1, <2>2, <2>3 DEF PledgedAt, PaidBackAt, OpenRow, Pledged
  <2>6. PaidAt(pc[h], status)'
    BY <1>1, <2>1 DEF PaidAt, HasRow
  <2>7. CASE pc'[h] = "idle" /\ frame'[h] = IdleFrame
    BY <2>4, <2>5, <2>6, <2>7, SagaEnds, IdleFrameFree DEF MoneyAt, FreeLabels, OverrideOps
  <2>8. CASE pc'[h] = "refundTx" /\ frame'[h] = frame[h]
    <3>1. (StatusAt(pc[h], frame[h], status) /\ RefundAt(pc[h], frame[h], refundCents))'
      BY <1>1, <2>1, <2>4, <2>8 DEF StatusAt, RefundAt, RefundLabels
    <3> QED
      BY <1>1, <2>4, <2>5, <2>6, <2>8, <3>1 DEF SagaOf, SagaAt, MoneyAt, FrameAt, RefundLabels,
         OverrideLabels
  <2> QED
    BY <2>1, <2>7, <2>8
<1>5. CASE RefundTx(h)
  <2>1. pc[h] = "refundTx" /\ pc[h] \in PayLabels
    BY <1>5, RefundTxDoes DEF PayLabels, RefundLabels
  <2>2. PICK p \in Payments : p = frame[h].pay
    BY <1>5, RefundTxDoes
  <2>3. /\ pc'[h] = frame[h].ret /\ frame[h].ret \in ReturnLabels
        /\ frame'[h].ret = "idle" /\ frame'[h].op \in {"none", frame[h].op}
        /\ payStatus'[p] \in Returned /\ OneRow(p)
        /\ refundCents' = frame[h].snap + frame[h].amt
        /\ UNCHANGED <<captured, provRefunded, status>>
    BY <1>5, <2>2, RefundTxDoes DEF Returned
  <2>4. /\ payStatus[p] = "REFUND_PENDING" /\ provRefunded[p] = refunded[p] + frame[h].amt
        /\ frame[h].snap = refunded[p]
    BY <2>1, <2>2, RowInHand DEF RowAt, RefundLabels
  <2>5. ~HasRow(OpenRow) /\ (frame[h].ret # "cancelWrite" => status \in Withdrawn)
    BY <1>1, <2>1 DEF StatusAt, RefundLabels
  <2>6. OneOpen' /\ \A q \in Payments : payStatus'[q] \in OpenRow => q = p
    BY <2>3, <2>5, RowOpens
  <2>7. \A q \in Payments : payStatus'[q] \notin Pledged
    BY <2>3, <2>6 DEF OpenRow, Pledged, Returned
  <2>8. \A q \in Payments : captured'[q] > 0 =>
            provRefunded'[q] = refundCents' \/ payStatus'[q] = "REFUND_PENDING"
    <3>1. \A q \in Payments \ {p} : captured[q] > 0 => payStatus[q] = "REFUND_PENDING"
      BY <2>5, PendingRefund DEF HasRow
    <3> QED
      BY <2>3, <2>4, <3>1 DEF OneRow, OnlyRow
  <2>9. PledgedAt(pc[h], frame[h], status)'
    BY <2>7 DEF PledgedAt, Pledged
  <2>10. PaidBackAt(pc[h], frame[h], status, refundCents)'
    BY <2>3, <2>5, <2>8 DEF PaidBackAt
  <2>11. PaidAt(pc[h], status)'
    <3>1. status = "PENDING_VENUE_CONFIRMATION" => \E q \in Payments \ {p} : payStatus[q] = "CAPTURE_PENDING"
      BY <1>1, <2>1, <2>4, <2>5 DEF PaidAt, HasRow, OpenRow, Pledged
    <3>2. status \in Granted => pc'[h] = "cancelWrite"
      BY <2>3, <2>5 DEF Withdrawn, Granted, Accepted, Seated
    <3> QED
      BY <2>3, <3>1, <3>2 DEF PaidAt, HasRow, OneRow, OnlyRow
  <2>12. (StatusAt(pc[h], frame[h], status) /\ RefundAt(pc[h], frame[h], refundCents))'
    <3>1. pc'[h] = "voidFind" => status \in Terminal
      BY <2>3, <2>5 DEF Withdrawn, Terminal
    <3>2. ~HasRow(Pledged)'
      BY <2>7 DEF HasRow
    <3> QED
      BY <2>3, <3>1, <3>2 DEF StatusAt, RefundAt, RefundLabels, ReturnLabels
  <2> QED
    BY <1>1, <2>3, <2>6, <2>9, <2>10, <2>11, <2>12 DEF SagaOf, SagaAt, MoneyAt, FrameAt, OverrideOps,
       OverrideLabels, ReturnLabels
<1> QED
  BY <1>2, <1>3, <1>4, <1>5 DEF Refund

-----------------------------------------------------------------------------
(* The saga in every state.                                                *)

SagaInv ==
    /\ \A k \in Handlers : FrameAt(pc[k], frame[k])
    /\ \E h \in Handlers : OthersIdle(h) /\ RowsAt(pc[h], frame[h]) /\ SagaOf(h)

LEMMA HandlerSaga ==
    ASSUME MaxActive = 1, IInv, SagaInv, NEW h \in Handlers, Begin(h) \/ Step(h), ~Override(h)
    PROVE  SagaInv'
<1>1. PICK w \in Handlers : OthersIdle(w) /\ RowsAt(pc[w], frame[w]) /\ SagaOf(w)
  BY DEF SagaInv
<1>2. OthersIdle(h) /\ RowsAt(pc[h], frame[h])
  BY <1>1, ActsAlone DEF RowsInv
<1>3. SagaOf(h)
  <2>1. CASE Step(h)
    BY <1>1, <2>1, StepUnderWay DEF OthersIdle
  <2>2. CASE Begin(h)
    <3>1. pc[w] = "idle" /\ pc[h] = "idle"
      BY <1>1, <2>2, BeginMay, BeginsAlone
    <3>2. MoneyAt("idle", frame[h], status, refundCents)
      BY <1>1, <3>1, NothingOwed DEF SagaOf, SagaAt, SettlingLabels
    <3>3. FrameAt("idle", frame[h])
      BY <3>1 DEF SagaInv
    <3>4. StatusAt("idle", frame[h], status) /\ RefundAt("idle", frame[h], refundCents)
      BY <3>3, NothingRead DEF FrameAt, FreeLabels, RefundLabels
    <3> QED
      BY <1>1, <3>1, <3>2, <3>3, <3>4 DEF SagaOf, SagaAt
  <2> QED
    BY <2>1, <2>2
<1>4. SagaOf(h)'
  <2>1. CASE Begin(h)
    BY <1>2, <1>3, <2>1, BeginSaga
  <2>2. CASE Step(h)
    BY <1>2, <1>3, <2>2, CleanupSaga, AuthorizeSaga, AcceptSaga, CaptureSaga, VoidSaga, RefundSaga,
       CancelSaga, CheckInSaga DEF Step
  <2> QED
    BY <2>1, <2>2
<1>5. OthersStay(h) /\ RowsAt(pc[h], frame[h])'
  BY <1>2, HandlerRows
<1>6. \A k \in Handlers : FrameAt(pc'[k], frame'[k])
  BY <1>4, <1>5 DEF SagaInv, SagaOf, SagaAt, OthersStay, FrameAt
<1> QED
  BY <1>2, <1>4, <1>5, <1>6 DEF SagaInv, OthersIdle, OthersStay, FrameAt

LEMMA NextSaga ==
    ASSUME MaxActive = 1, "crash" \notin Faults, IInv, SagaInv, [Next]_vars,
           (\A h \in Handlers : ~Override(h)) \/ UNCHANGED vars
    PROVE  SagaInv'
<1>1. ASSUME NEW h \in Handlers, Begin(h) \/ Step(h) \/ Crash(h), ~Override(h)
      PROVE  SagaInv'
  BY <1>1, HandlerSaga DEF Crash
<1>2. ASSUME NEW p \in Payments, GuestPays(p)
      PROVE  SagaInv'
  <2>1. PICK h \in Handlers : OthersIdle(h) /\ RowsAt(pc[h], frame[h]) /\ SagaOf(h)
    BY DEF SagaInv
  <2>2. RowsAt(pc[h], frame[h])'
    BY <1>2, <2>1, GuestPaysRows
  <2>3. UNCHANGED <<payStatus, captured, refunded, provRefunded, status, refundCents, pc, frame>>
    BY <1>2 DEF GuestPays, payVars, resVars, handlerVars
  <2>4. SagaOf(h)'
    BY <2>1, <2>3 DEF SagaOf, SagaAt, OneOpen, FrameAt, StatusAt, RefundAt, MoneyAt, PledgedAt,
       PaidBackAt, PaidAt, HasRow, VoidsAhead, PromiseAhead
  <2> QED
    BY <2>1, <2>2, <2>3, <2>4 DEF SagaInv, OthersIdle, FrameAt
<1>3. CASE Tick \/ UNCHANGED vars
  <2>1. UNCHANGED <<payStatus, refunded, prov, provRefunded, rows, captured, ledger, status,
                    refundCents, pc, frame>>
    BY <1>3 DEF Tick, vars, payVars, provVars, bookVars, resVars, handlerVars
  <2>2. PICK h \in Handlers : OthersIdle(h) /\ RowsAt(pc[h], frame[h]) /\ SagaOf(h)
    BY DEF SagaInv
  <2>3. OthersIdle(h)' /\ RowsAt(pc[h], frame[h])'
    BY <2>1, <2>2 DEF OthersIdle, RowsAt, RowRight, RowsListed, Knows
  <2>4. SagaOf(h)'
    BY <2>1, <2>2 DEF SagaOf, SagaAt, OneOpen, FrameAt, StatusAt, RefundAt, MoneyAt, PledgedAt,
       PaidBackAt, PaidAt, HasRow, VoidsAhead, PromiseAhead
  <2> QED
    BY <2>1, <2>3, <2>4 DEF SagaInv, FrameAt
<1> QED
  BY <1>1, <1>2, <1>3 DEF Next

LEMMA InitSaga ==
    ASSUME Init
    PROVE  SagaInv
<1>1. PICK h \in Handlers : OthersIdle(h) /\ RowsAt(pc[h], frame[h])
  BY InitRows DEF RowsInv
<1>2. \A k \in Handlers : pc[k] = "idle" /\ frame[k] = IdleFrame
  BY DEF Init
<1>3. \A k \in Handlers : FrameAt(pc[k], frame[k])
  BY <1>2, IdleFrameFree DEF FrameAt, OverrideOps, OverrideLabels
<1>4. /\ \A p \in Payments : payStatus[p] = "NONE" /\ captured[p] = 0
      /\ refundCents = 0 /\ status = "REQUESTED"
  BY DEF Init
<1>5. OneOpen
  BY <1>4 DEF OneOpen, OpenRow, Pledged, Returned
<1>6. MoneyAt(pc[h], frame[h], status, refundCents)
  BY <1>4 DEF MoneyAt, PledgedAt, PaidBackAt, PaidAt, Returned, Granted, Accepted, Seated, Withdrawn
<1>7. StatusAt(pc[h], frame[h], status) /\ RefundAt(pc[h], frame[h], refundCents)
  BY <1>2, NothingRead, IdleFrameFree DEF FreeLabels
<1> QED
  BY <1>1, <1>3, <1>5, <1>6, <1>7 DEF SagaInv, SagaOf, SagaAt

-----------------------------------------------------------------------------
(* What the saga promises once no handler is under way.                    *)

LEMMA SagaAtRest ==
    ASSUME SagaInv, AtRest
    PROVE  /\ OneOpen /\ \A p \in Payments : RowRight(p)
           /\ status \in Terminal => \A p \in Payments : payStatus[p] \notin Pledged
           /\ status \in Granted => HasRow({"CAPTURED", "CAPTURE_PENDING", "REFUND_PENDING"})
           /\ status \in Withdrawn => \A p \in Payments : captured[p] > 0 =>
                  provRefunded[p] = refundCents \/ payStatus[p] = "REFUND_PENDING"
<1>1. PICK h \in Handlers : RowsAt(pc[h], frame[h]) /\ SagaOf(h)
  BY DEF SagaInv
<1>2. pc[h] = "idle"
  BY DEF AtRest, Active
<1> QED
  BY <1>1, <1>2 DEF RowsAt, SagaOf, SagaAt, MoneyAt, PledgedAt, PaidBackAt, PaidAt, VoidsAhead,
     PromiseAhead, Pledged, Terminal

LEMMA SagaLeavesTrace ==
    ASSUME SagaInv
    PROVE  FailureLeavesTrace
BY SagaAtRest DEF FailureLeavesTrace, Pledged, Granted, Withdrawn, HasRow

\* With a provider that does its work no row waits for support.
LEMMA NothingPends ==
    ASSUME OwnedInv, AtRest, NEW p \in Payments
    PROVE  payStatus[p] \notin Pending
<1>1. PICK h \in Handlers : OwnedAt(pc[h], frame[h])
  BY DEF OwnedInv
<1>2. pc[h] = "idle"
  BY DEF AtRest, Active
<1> QED
  BY <1>1, <1>2 DEF OwnedAt, Owns, Pending

LEMMA SagaReleased ==
    ASSUME IInv, OwnedInv, SagaInv
    PROVE  FundsReleased
<1> SUFFICES ASSUME AtRest, status \in Terminal, NEW p \in Payments
             PROVE  payStatus[p] \in {"NONE", "VOIDED", "CAPTURED", "PARTIALLY_REFUNDED", "REFUNDED"}
  BY DEF FundsReleased
<1>1. payStatus[p] \in PayStatuses
  BY DEF IInv, DataInv, PaymentsTyped
<1> QED
  BY <1>1, SagaAtRest, NothingPends DEF PayStatuses, Pending, Pledged

LEMMA SagaConfirmed ==
    ASSUME OwnedInv, SagaInv
    PROVE  ConfirmedIsPaid
<1> SUFFICES ASSUME AtRest PROVE ConfirmedIsPaid!2
  BY DEF ConfirmedIsPaid
<1>1. ASSUME status \in Accepted \cup Seated \cup {"COMPLETED"}
      PROVE  \E p \in Payments : payStatus[p] = "CAPTURED" /\ provRefunded[p] = 0
  <2>1. PICK p \in Payments : payStatus[p] = "CAPTURED"
    BY <1>1, SagaAtRest, NothingPends DEF Granted, HasRow, Pending
  <2>2. RowRight(p)
    BY SagaAtRest
  <2> QED
    BY <2>1, <2>2 DEF RowRight, Lifecycle, PaidRow
<1>2. ASSUME NEW p \in Payments, NEW q \in Payments, captured[p] > 0, captured[q] > 0
      PROVE  p = q
  <2>1. ASSUME NEW r \in Payments, captured[r] > 0 PROVE payStatus[r] \in OpenRow
    <3>1. RowRight(r) /\ payStatus[r] \notin Pending
      BY SagaAtRest, NothingPends
    <3>2. payStatus[r] \in PaidRow
      BY <2>1, <3>1 DEF RowRight, Lifecycle
    <3> QED
      BY <3>1, <3>2 DEF PaidRow, OpenRow, Returned, Pending
  <2> QED
    BY <1>2, <2>1, SagaAtRest DEF OneOpen
<1> QED
  BY <1>1, <1>2

LEMMA SagaKept ==
    ASSUME OwnedInv, SagaInv
    PROVE  PromiseKept
BY SagaAtRest, NothingPends DEF PromiseKept, Withdrawn, Pending

-----------------------------------------------------------------------------
(* A provider that refuses or does not answer.                             *)

\* What support may do to a reservation without a look at its payments.
NoOverrides == Ops \cap (OverrideOps \cup {"adminCancel", "problemResolved"}) = {}

LEMMA NothingOverridden ==
    ASSUME NoOverrides, IInv, NEW h \in Handlers
    PROVE  ~Override(h)
<1>1. ~(AdminCancel(h) \/ ProblemResolved(h) \/ SetStatusBegin(h))
  BY DEF NoOverrides, AdminCancel, ProblemResolved, SetStatusBegin, BeginAt, OverrideOps
<1>2. ASSUME CleanupBegin(h) PROVE frame'[h].op \notin OverrideOps
  <2>1. PICK o \in DOMAIN AfterCleanup : /\ IF h = Scheduler THEN o = "cleanup" ELSE o \in Ops
                                         /\ frame' = [frame EXCEPT ![h].op = o]
    BY <1>2 DEF CleanupBegin
  <2>2. o \notin OverrideOps
    BY <2>1 DEF NoOverrides, OverrideOps
  <2>3. frame'[h].op = o
    BY <2>1, HandlerKnows DEF Frames, IInv, ControlInv, HandlersTyped
  <2> QED
    BY <2>2, <2>3
<1> QED
  BY <1>1, <1>2 DEF Override

LEMMA SagaBegins ==
    ASSUME Init
    PROVE  IInv /\ SagaInv
BY InitInv, InitSaga

LEMMA SagaGoesOn ==
    ASSUME MaxActive = 1, "crash" \notin Faults, NoOverrides
    PROVE  IInv /\ SagaInv /\ [Next]_vars => IInv' /\ SagaInv'
BY NextInv, NextSaga, NothingOverridden

\* Without overrides, and as long as no handler is cut short by a crash: whatever Saferpay
\* refuses or leaves unanswered, the status of the reservation, its rows, the refund it
\* promises and what the handler under way still has to do belong together.
THEOREM SagaAlwaysRight ==
    MaxActive = 1 /\ "crash" \notin Faults /\ NoOverrides => (Spec => [](IInv /\ SagaInv))
<1> SUFFICES ASSUME MaxActive = 1, "crash" \notin Faults, NoOverrides
             PROVE  Spec => [](IInv /\ SagaInv)
  OBVIOUS
<1>1. Init => IInv /\ SagaInv
  BY SagaBegins
<1>2. IInv /\ SagaInv /\ [Next]_vars => IInv' /\ SagaInv'
  BY SagaGoesOn
<1> QED
  BY <1>1, <1>2, PTL DEF Spec

\* So a handler that dies of a refusal hides nothing: where funds were not released, not
\* captured or not paid back, a row is left pending for support.
THEOREM FailureAlwaysLeavesTrace ==
    MaxActive = 1 /\ "crash" \notin Faults /\ NoOverrides => (Spec => []FailureLeavesTrace)
<1> SUFFICES ASSUME MaxActive = 1, "crash" \notin Faults, NoOverrides
             PROVE  Spec => []FailureLeavesTrace
  OBVIOUS
<1>1. IInv /\ SagaInv => FailureLeavesTrace
  BY SagaLeavesTrace
<1> QED
  BY <1>1, SagaAlwaysRight, PTL
=============================================================================
