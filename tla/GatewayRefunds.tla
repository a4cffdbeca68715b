--------------------------- MODULE GatewayRefunds ---------------------------
(* PayPal's refund, reversal and cancelled-reversal notifications          *)
(* (payment_methods/paypal_refund.rs).  A notification can arrive any      *)
(* number of times, in any order, and before the payment it names is       *)
(* known.  gateway holds                                                   *)
(*   settled   orders.paypal_txn_id is set: refunds find their order       *)
(*   ledger    the order_gateway_refunds rows, ordered by (at, txn)        *)
(*   held      the unresolved unknown_parent inbox rows, oldest first      *)
(*   rejected  the inbox rows kept for another reason                      *)
(* Each notification is one transaction under the payment and order locks. *)
EXTENDS OrderLife, Sequences, FiniteSetsExt, Functions

CONSTANTS
    Notice,     \* Notice[txn] = [status, amount]: what PayPal sends
    Sent,       \* bound: Sent[kind], those it sends about an order of that fulfilment
    Misfits     \* Misfits[kind]: the notifications whose receiver, currency, amount
                \* or custom field contradicts an order of that fulfilment

Txns == DOMAIN Notice

VARIABLE gateway

Statuses == {"Refunded", "Reversed", "Canceled_Reversal"}

ASSUME NoticeAssumption ==
    /\ Txns \subseteq Nat \ {OwnTxn}
    /\ \A t \in Txns : Notice[t].status \in Statuses /\ Notice[t].amount \in Nat \ {0}
    /\ \A kind \in DOMAIN LinesOf : Sent[kind] \subseteq Txns

FullRefundSources ==
    {"paid", "ready_for_pickup", "shipped", "delivered", "completed", "return_received",
     "cancel_requested", "cancelled", "return_requested", "return_approved"}

NotSeen == [settled |-> FALSE, ledger |-> {}, held |-> <<>>, rejected |-> {}]

Recorded(ledger) == {r.txn : r \in ledger}

-----------------------------------------------------------------------------
(* Totals over the ledger *)

\* The minor units that rows of one status add up to, each named by its row's
\* primary key and its number in the row.
Money(ledger, status) ==
    UNION {{r.txn} \X (1..r.amount) : r \in {q \in ledger : q.status = status}}

Amount(ledger, status) == Cardinality(Money(ledger, status))

OutstandingReversal(ledger) ==
    Max({0, Amount(ledger, "Reversed") - Amount(ledger, "Canceled_Reversal")})

\* Money PayPal returned to the buyer and did not take back.
Effective(ledger) == Amount(ledger, "Refunded") + OutstandingReversal(ledger)

\* The last of some ledger rows in (recorded_at, refund_txn_id) order.
Latest(rows) ==
    CHOOSE r \in rows : \A q \in rows : q.at < r.at \/ (q.at = r.at /\ q.txn <= r.txn)

\* external_refund was typed by the seller: its transaction is not PayPal's.
ManualExternal(o, ledger) == o.refund # NoRefund /\ o.refund.txn \notin Recorded(ledger)

RunningRefund(ledger, txn) ==
    IF Effective(ledger) = 0
      THEN NoRefund
      ELSE [txn |-> txn, amount |-> Min({Effective(ledger), Total})]

\* Faulty: a reversal marks the order whatever was cancelled before it.
ReversedBlindly(o, status, ledger) ==
    CASE status = "Reversed" -> TRUE
      [] status = "Canceled_Reversal" -> o.reversed /\ OutstandingReversal(ledger) > 0
      [] status = "Refunded" -> o.reversed

\* payment_reversed_at: a cancellation that came first leaves nothing of the
\* reversal outstanding.
ReversedAfter(o, status, ledger) ==
    CASE status = "Reversed" -> OutstandingReversal(ledger) > 0
      [] status = "Canceled_Reversal" -> o.reversed /\ OutstandingReversal(ledger) > 0
      [] status = "Refunded" -> o.reversed

\* The return request's state as it was before the full refund.
ReturnBefore(o, row) == IF row.ret = "none" THEN o.ret ELSE row.ret

-----------------------------------------------------------------------------
(* record_on_order.  w is [order, gateway], at the transaction's instant   *)

NewRow(t, at, from, ret) ==
    [txn |-> t, status |-> Notice[t].status, amount |-> Notice[t].amount,
     at |-> at, from |-> from, ret |-> ret]

\* Refunded and Reversed.
TakeBack(o, ledger, t, at) ==
    LET manual == ManualExternal(o, ledger)
        plain == ledger \union {NewRow(t, at, "none", "none")}
        full == Effective(plain) >= Total
        moves == full /\ ~manual /\ o.state \in FullRefundSources
    IN [ledger |-> ledger \union
          {IF moves THEN NewRow(t, at, o.state, o.ret) ELSE NewRow(t, at, "none", "none")},
        order |->
          [o EXCEPT !.state = IF moves THEN "refunded_external" ELSE @,
                    !.ret = IF moves /\ @ # "none" THEN "refunded" ELSE @,
                    !.note = IF moves THEN "refunded" ELSE @,
                    !.refund = IF manual THEN @ ELSE RunningRefund(plain, t),
                    !.reversed = ReversedAfter(o, Notice[t].status, plain),
                    !.review = @ \/ manual \/ Effective(plain) > Total \/ (full /\ ~moves)]]

\* Canceled_Reversal.
GiveBack(o, ledger, t, at) ==
    LET manual == ManualExternal(o, ledger)
        after == ledger \union {NewRow(t, at, "none", "none")}
        refunds == {r \in ledger : r.status = "Refunded"}
        named == IF refunds # {} THEN refunds ELSE {r \in ledger : r.status = "Reversed"}
        replaced == {r \in ledger : r.from # "none"}
        reopen == o.state = "refunded_external" /\ Effective(after) < Total
        restores == reopen /\ replaced # {} /\ ~manual
    IN [ledger |-> after,
        order |->
          [o EXCEPT !.state = IF restores THEN Latest(replaced).from ELSE @,
                    !.ret = IF restores THEN ReturnBefore(o, Latest(replaced)) ELSE @,
                    !.note = IF restores THEN "refund_reversal_cancelled" ELSE @,
                    !.refund = IF manual THEN @
                               ELSE RunningRefund(after,
                                      IF named = {} THEN t ELSE Latest(named).txn),
                    !.reversed = ReversedAfter(o, "Canceled_Reversal", after),
                    !.review = \/ @
                               \/ reopen /\ ~restores
                               \/ ~reopen /\ OutstandingReversal(ledger) = 0]]

\* The inbox without a notification's row.
Without(held, t) ==
    LET i == CHOOSE j \in DOMAIN held : held[j] = t
    IN IF t \in Range(held)
         THEN SubSeq(held, 1, i - 1) \o SubSeq(held, i + 1, Len(held))
         ELSE held

\* The writes: the order row, the ledger row, the inbox row resolved.
Written(w, done, t) ==
    [order |-> done.order,
     gateway |-> [w.gateway EXCEPT !.ledger = done.ledger,
                                   !.held = Without(@, t),
                                   !.rejected = @ \ {t}]]

RecordOnOrder(w, t, at) ==
    Written(w, IF Notice[t].status = "Canceled_Reversal"
                 THEN GiveBack(w.order, w.gateway.ledger, t, at)
                 ELSE TakeBack(w.order, w.gateway.ledger, t, at), t)

\* The inbox upsert: one row per notification, its reason the latest one.
Stored(w, t, reason) ==
    IF reason = "unknown_parent"
      THEN [w EXCEPT !.gateway.held = IF t \in Range(@) THEN @ ELSE Append(@, t)]
      ELSE [w EXCEPT !.gateway.held = Without(@, t),
                     !.gateway.rejected = @ \union {t}]

\* The recorded facts decide: already recorded, parent not known yet (held),
\* a field that contradicts the order (kept for a person), or recorded.
Evaluate(w, t, at) ==
    IF t \in Recorded(w.gateway.ledger) THEN w
    ELSE IF ~w.gateway.settled THEN Stored(w, t, "unknown_parent")
    ELSE IF t \in Misfits[w.order.kind] THEN Stored(w, t, "mismatch")
    ELSE RecordOnOrder(w, t, at)

\* Instants: one per transaction that writes the ledger.
NextAt(g) == 1 + Max({0} \union {r.at : r \in g.ledger})

\* The Completed notification's tail: the payment becomes known, and every
\* held notification that names it is replayed, oldest first, at one instant.
Replayed(known, held, at) ==
    LET after[i \in 0..Len(held)] ==
          IF i = 0 THEN known ELSE Evaluate(after[i - 1], held[i], at)
    IN after[Len(held)]

SettleVerifiedPayment(o) ==
    Replayed([order |-> o, gateway |-> [gateway EXCEPT !.settled = TRUE]],
             gateway.held, NextAt(gateway))

ReceiveNotice(t) ==
    LET w == Evaluate([order |-> order, gateway |-> gateway], t, NextAt(gateway))
    IN order' = w.order /\ gateway' = w.gateway

=============================================================================
