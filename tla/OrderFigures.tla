---------------------------- MODULE OrderFigures ----------------------------
(***************************************************************************)
(* The figures of an order: how a Clover order becomes the amounts of the   *)
(* Order aggregate (jobs/orders.ts, domain/orders) and of the tables its    *)
(* repository writes, over the revisions of one order.  OrderStore has the  *)
(* interleavings of the same saga; here it is one step.  Cents are integers *)
(* and percentages are whole; Clover's percentageDecimal is a finer scale.  *)
(***************************************************************************)
EXTENDS Integers, Sequences, SequencesExt, FiniteSets

CONSTANTS
  Receipts,      \* the orders Clover may state
  MaxRevisions   \* bound on the revisions of one

Absent == -999   \* an optional number that is not there

VARIABLES
  receipt,  \* the order as Clover has it
  revision, \* its modifiedTime
  booked,   \* the order's row, lines and payments, <<>> before the first
  refused   \* revisions the tables' CHECK constraints refused

vars == <<receipt, revision, booked, refused>>

Abs(n) == IF n < 0 THEN 0 - n ELSE n
SumOf(s) ==
  LET upTo[n \in 0 .. Len(s)] == IF n = 0 THEN 0 ELSE upTo[n - 1] + s[n]
  IN  upTo[Len(s)]

\* Math.round of a fraction: halves go up.
Round(a, b) == (2 * a + b) \div (2 * b)

-----------------------------------------------------------------------------
(* mapCloverOrderToLineItems.                                               *)

\* A weighted item's price is for 1000 units.
Gross(line) ==
  IF line.unitQty = Absent THEN line.price ELSE Round(line.price * line.unitQty, 1000)

\* The first of amount and percentage that a discount states; an amount is negative.
DiscountOf(discount, gross) ==
  CASE discount.amount # Absent -> Abs(discount.amount)
    [] discount.amount = Absent /\ discount.percentage # Absent ->
         Round(gross * discount.percentage, 100)
    [] OTHER -> 0

SumLineDiscounts(line, gross) ==
  SumOf([k \in DOMAIN line.discounts |-> DiscountOf(line.discounts[k], gross)])

LineItem(line, paid) ==
  LET gross == Gross(line)
      discount == SumLineDiscounts(line, gross)
      net == gross - discount
  IN [gross |-> gross, discount |-> discount, net |-> net, refunded |-> line.refunded,
      collected |-> IF paid /\ ~line.refunded /\ net > 0 THEN net ELSE 0]

Sold(order) ==
  FlattenSeq([k \in DOMAIN order.lines |->
                IF order.lines[k].exchanged THEN <<>> ELSE <<order.lines[k]>>])

LineItems(order) ==
  LET kept == Sold(order)
  IN [k \in DOMAIN kept |-> LineItem(kept[k], order.state = "PAID")]

-----------------------------------------------------------------------------
(* fromCloverOrder and refreshFromCloverOrder: the same events.             *)

ToOrderStatus(state) ==
  CASE state = "PAID" -> "paid"
    [] state = "OPEN" -> "incomplete"
    [] state = "PARTIALLY_PAID" -> "partial"
    [] state \in {"REFUNDED", "PARTIALLY_REFUNDED"} -> "refunded"

ToPaymentStatus(result) ==
  CASE result \in {"SUCCESS", "AUTH_COMPLETED"} -> "paid"
    [] result \in {"FAIL", "VOIDED"} -> "rejected"
    [] OTHER -> "incomplete"

PaymentItems(order) ==
  [k \in DOMAIN order.payments |->
     LET p == order.payments[k]
     IN [amount |-> p.amount, tax |-> p.tax, result |-> p.result,
         status |-> ToPaymentStatus(p.result)]]

Amounts(payments) == SumOf([k \in DOMAIN payments |-> payments[k].amount])

OrderRecorded(order, at) ==
  LET items    == LineItems(order)
      payments == PaymentItems(order)
      total    == IF order.total = Absent THEN Amounts(payments) ELSE order.total
      tax      == SumOf([k \in DOMAIN payments |-> payments[k].tax])
  IN [type |-> "OrderRecorded", modified |-> at, status |-> ToOrderStatus(order.state),
      subtotal |-> total - tax, tax |-> tax, total |-> total,
      discount |-> SumOf([k \in DOMAIN items |-> items[k].discount]),
      collected |-> SumOf([k \in DOMAIN payments |->
                             IF payments[k].status = "paid" THEN payments[k].amount ELSE 0])]

EventsOf(order, at) ==
  <<OrderRecorded(order, at)>>
    \o [k \in DOMAIN PaymentItems(order) |->
          [type |-> "PaymentRecorded", payment |-> PaymentItems(order)[k]]]
    \o [k \in DOMAIN LineItems(order) |->
          [type |-> "LineItemRecorded", item |-> LineItems(order)[k]]]

\* Slip: a recorded order keeps the lines it had.
HandleKeepsItems(snapshot, event) ==
  CASE event.type = "OrderRecorded" ->
         [head |-> event, payments |-> <<>>,
          items |-> IF snapshot = <<>> THEN <<>> ELSE snapshot.items]
    [] event.type = "PaymentRecorded" ->
         [snapshot EXCEPT !.payments = Append(@, event.payment)]
    [] event.type = "LineItemRecorded" ->
         [snapshot EXCEPT !.items = Append(@, event.item)]

\* The events' handlers: OrderRecorded starts the order over.
Handle(snapshot, event) ==
  CASE event.type = "OrderRecorded" ->
         [head |-> event, payments |-> <<>>, items |-> <<>>]
    [] event.type = "PaymentRecorded" ->
         [snapshot EXCEPT !.payments = Append(@, event.payment)]
    [] event.type = "LineItemRecorded" ->
         [snapshot EXCEPT !.items = Append(@, event.item)]

ApplyAll(snapshot, events) ==
  LET after[n \in 0 .. Len(events)] ==
        IF n = 0 THEN snapshot ELSE Handle(after[n - 1], events[n])
  IN after[Len(events)]

\* The CHECK constraints of the three tables.
Storable(snapshot) ==
  /\ \A amount \in {snapshot.head.subtotal, snapshot.head.discount, snapshot.head.tax,
                    snapshot.head.total, snapshot.head.collected} : amount >= 0
  /\ \A k \in DOMAIN snapshot.items :
       /\ snapshot.items[k].gross >= 0
       /\ snapshot.items[k].discount >= 0
       /\ snapshot.items[k].net >= 0
       /\ snapshot.items[k].collected >= 0
  /\ \A k \in DOMAIN snapshot.payments :
       snapshot.payments[k].amount >= 0 /\ snapshot.payments[k].tax >= 0

-----------------------------------------------------------------------------
Init ==
  /\ receipt \in Receipts
  /\ revision = 1
  /\ booked = <<>>
  /\ refused = {}

\* The order changes at Clover: a payment, a refund, an exchange, another line.
Modify(order) ==
  /\ revision < MaxRevisions
  /\ receipt' = order
  /\ revision' = revision + 1
  /\ UNCHANGED <<booked, refused>>

Stale == booked # <<>> /\ booked.head.modified >= revision

Refreshed == ApplyAll(booked, EventsOf(receipt, revision))

\* A saga of processOrders: a revision it has already is left alone, one the tables
\* refuse is rolled back and stays to be given up.
Book ==
  /\ ~Stale
  /\ revision \notin refused
  /\ IF Storable(Refreshed)
       THEN booked' = Refreshed /\ UNCHANGED refused
       ELSE refused' = refused \cup {revision} /\ UNCHANGED booked
  /\ UNCHANGED <<receipt, revision>>

Next == Book \/ \E order \in Receipts : Modify(order)

Spec == Init /\ [][Next]_vars
-----------------------------------------------------------------------------
(* Properties.                                                              *)

\* The figures of a booked revision are those of Clover's order and of no earlier one:
\* as many lines as were sold, a discount and a tax that the parts add up to, only
\* settled payments collected, and the vendors' share of the lines nothing but the
\* net of unrefunded lines of a paid order (jobs/orders.ts: mapCloverOrderTo*;
\* order.actions.ts: buildEventsFromCloverOrder; order.events.ts).
FiguresFollowOrder ==
  booked # <<>> /\ booked.head.modified = revision =>
    LET head == booked.head
        items == booked.items
        due == {k \in DOMAIN Sold(receipt) :
                  receipt.state = "PAID" /\ ~Sold(receipt)[k].refunded}
    IN /\ Len(items) = Cardinality({k \in DOMAIN receipt.lines : ~receipt.lines[k].exchanged})
       /\ Len(booked.payments) = Len(receipt.payments)
       /\ head.subtotal + head.tax = head.total
       /\ head.discount = SumOf([k \in DOMAIN items |-> items[k].gross - items[k].net])
       /\ head.collected <= Amounts(booked.payments)
       /\ (head.collected = 0) <=>
            \A k \in DOMAIN receipt.payments :
              \/ receipt.payments[k].result \notin {"SUCCESS", "AUTH_COMPLETED"}
              \/ receipt.payments[k].amount = 0
       /\ \A k \in DOMAIN items :
            items[k].collected = (IF k \in due THEN items[k].net ELSE 0)
=============================================================================
