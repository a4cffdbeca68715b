------------------------- MODULE PostPurchaseProofs -------------------------
(* Proofs about PostPurchase: what an order, its stock and PayPal's ledger *)
(* agree on after any notifications in any order, that nothing is released *)
(* for money taken back, that an order waiting for its payment can be      *)
(* delivered, and that a seller hands over on the terms paid under.        *)
(*                                                                         *)
(* Sound(o, ledger, at) is what holds of an order and its ledger while a   *)
(* transaction at instant at records notifications on it.  TakeBack and    *)
(* GiveBack keep it, so does one evaluation, and so does a replay of any   *)
(* length, by a least counterexample on the number of rows replayed.       *)
EXTENDS PostPurchase, FiniteSetTheorems, TLAPS

-----------------------------------------------------------------------------
(* Natural numbers: least and greatest members, which induction needs.     *)

(* Every set of naturals with a member has a least one.                    *)
LEMMA LeastNat ==
    ASSUME NEW T \in SUBSET Nat, T # {}
    PROVE  \E m \in T : \A n \in T : m <= n
<1> DEFINE R == OpToRel(<, Nat)
<1>1. IsWellFoundedOn(R, Nat)
  BY NatLessThanWellFounded, Zenon
<1>2. \A y, x \in Nat : y < x => <<y, x>> \in R
  BY DEF OpToRel
<1> HIDE DEF R
<1>3. PICK m \in T : \A y \in T : ~(<<y, m>> \in R)
  BY <1>1, WFMin, Zenon
<1>4. ASSUME NEW n \in T PROVE m <= n
  <2>1. m \in Nat /\ n \in Nat
    OBVIOUS
  <2>2. ~(n < m)
    BY <1>2, <1>3, <2>1, Zenon
  <2> QED
    BY <2>1, <2>2
<1> QED
  BY <1>4

(* And, when it has a bound, a greatest one.                               *)
LEMMA GreatestNat ==
    ASSUME NEW T \in SUBSET Nat, T # {}, NEW b \in Nat, \A x \in T : x <= b
    PROVE  \E m \in T : \A n \in T : n <= m
<1> DEFINE U == {k \in Nat : \A x \in T : x <= k}
<1>1. U \in SUBSET Nat /\ U # {}
  OBVIOUS
<1>2. PICK u \in U : \A n \in U : u <= n
  BY <1>1, LeastNat, Zenon
<1>3. u \in Nat /\ \A x \in T : x \in Nat /\ x <= u
  OBVIOUS
<1>4. ASSUME u \notin T PROVE FALSE
  <2>1. \A x \in T : x \in Nat /\ x < u
    BY <1>3, <1>4
  <2>2. PICK x \in T : TRUE
    BY Zenon
  <2>3. u - 1 \in Nat /\ \A y \in T : y <= u - 1
    BY <1>3, <2>1, <2>2
  <2>4. u - 1 \in U
    BY <2>3
  <2>5. u <= u - 1
    BY <1>2, <2>4, Zenon
  <2> QED
    BY <1>3, <2>5
<1> QED
  BY <1>3, <1>4

-----------------------------------------------------------------------------
(* The order and the ledger, as rows.                                      *)

States ==
    {"pending_payment", "paid", "processing", "ready_for_pickup", "shipped", "delivered",
     "completed", "closed", "cancel_requested", "cancelled", "return_requested",
     "return_approved", "return_received", "refunded_external"}

Returns == {"none", "requested", "approved", "received", "refunded"}

Rows ==
    [kind : DOMAIN LinesOf, state : States, receipt : BOOLEAN, ret : Returns,
     refund : [txn : Nat, amount : Nat], reversed : BOOLEAN, review : BOOLEAN,
     note : {"none", "refunded", "refund_reversal_cancelled"}, sold : SUBSET Lines,
     instant : BOOLEAN, handed : Parties \union {"none"}, reviewed : SUBSET Reviewers]

LedgerRows ==
    [txn : Txns, status : Statuses, amount : Nat \ {0}, at : Nat,
     from : FullRefundSources \union {"none"}, ret : Returns]

Books ==
    [settled : BOOLEAN, ledger : SUBSET LedgerRows, held : Seq(Txns), rejected : SUBSET Txns]

(* Ledgers whose money can be counted and whose rows have a last one.      *)
Countable(ledger) ==
    /\ ledger \subseteq LedgerRows
    /\ \A s \in Statuses : IsFiniteSet(Money(ledger, s))
    /\ \E n \in Nat : \A r \in ledger : r.at <= n /\ r.txn <= n

-----------------------------------------------------------------------------
(* Money in the ledger.                                                    *)

(* The amounts of a countable ledger are naturals.                         *)
LEMMA AmountNat ==
    ASSUME NEW L, Countable(L), NEW s \in Statuses
    PROVE  Amount(L, s) \in Nat
BY FS_CardinalityType, Zenon DEF Countable, Amount

(* An empty ledger has none.                                               *)
LEMMA AmountNone ==
    /\ Countable({})
    /\ \A s : Amount({}, s) = 0
<1>1. \A s : Money({}, s) = {}
  BY DEF Money
<1>2. IsFiniteSet({}) /\ Cardinality({}) = 0
  BY FS_EmptySet, Zenon
<1>3. \A r \in {} : r.at <= 0 /\ r.txn <= 0
  OBVIOUS
<1> QED
  BY <1>1, <1>2, <1>3 DEF Countable, Amount

(* A new row adds its amount under its status, and nothing elsewhere.      *)
LEMMA AmountAdd ==
    ASSUME NEW L, Countable(L), NEW row \in LedgerRows, row.txn \notin Recorded(L)
    PROVE  /\ Countable(L \union {row})
           /\ \A s \in Statuses :
                Amount(L \union {row}, s) = Amount(L, s) + IF row.status = s THEN row.amount ELSE 0
<1> DEFINE B == {row.txn} \X (1..row.amount)
<1>1. row.amount \in Nat /\ row.at \in Nat /\ row.txn \in Nat
  BY NoticeAssumption, Zenon DEF LedgerRows
<1>2. IsFiniteSet(B) /\ Cardinality(B) = row.amount
  <2>1. IsFiniteSet(1..row.amount) /\ Cardinality(1..row.amount) = row.amount
    <3>1. 1 \in Int /\ row.amount \in Int
      BY <1>1
    <3>2. IsFiniteSet(1..row.amount)
            /\ Cardinality(1..row.amount) = IF 1 > row.amount THEN 0 ELSE row.amount - 1 + 1
      BY <3>1, FS_Interval, Zenon
    <3> QED
      BY <1>1, <3>2
  <2>2. IsFiniteSet({row.txn}) /\ Cardinality({row.txn}) = 1
    BY FS_Singleton, Zenon
  <2>3. IsFiniteSet(B) /\ Cardinality(B) = Cardinality({row.txn}) * Cardinality(1..row.amount)
    BY <2>1, <2>2, FS_Product, Zenon
  <2> QED
    BY <1>1, <2>1, <2>2, <2>3
<1>3. ASSUME NEW s \in Statuses
      PROVE  /\ IsFiniteSet(Money(L \union {row}, s))
             /\ Amount(L \union {row}, s) = Amount(L, s) + IF row.status = s THEN row.amount ELSE 0
  <2>1. IsFiniteSet(Money(L, s)) /\ Amount(L, s) \in Nat
    BY AmountNat, Zenon DEF Countable
  <2>2. CASE row.status = s
    <3>1. Money(L \union {row}, s) = Money(L, s) \union B
      BY <2>2 DEF Money
    <3>2. Money(L, s) \intersect B = {}
      BY DEF Money, Recorded
    <3> HIDE DEF B
    <3>3. IsFiniteSet(Money(L, s) \union B)
            /\ Cardinality(Money(L, s) \union B) = Cardinality(Money(L, s)) + Cardinality(B) - Cardinality({})
      BY <1>2, <2>1, <3>2, FS_Union
    <3>4. Cardinality({}) = 0
      BY FS_EmptySet, Zenon
    <3>5. Cardinality(Money(L, s) \union B) = Cardinality(Money(L, s)) + row.amount
      BY <1>1, <1>2, <2>1, <3>3, <3>4 DEF Amount
    <3> QED
      BY <2>2, <3>1, <3>3, <3>5, Zenon DEF Amount
  <2>3. CASE row.status # s
    <3>1. Money(L \union {row}, s) = Money(L, s)
      BY <2>3 DEF Money
    <3> QED
      BY <2>1, <2>3, <3>1 DEF Amount
  <2> QED
    BY <2>2, <2>3
<1>4. L \union {row} \subseteq LedgerRows
  BY DEF Countable
<1>5. \E n \in Nat : \A r \in L \union {row} : r.at <= n /\ r.txn <= n
  <2>1. PICK n \in Nat : \A r \in L : r.at <= n /\ r.txn <= n
    BY Zenon DEF Countable
  <2>2. PICK k \in Nat : n <= k /\ row.at <= k /\ row.txn <= k
    <3>1. n <= n + row.at + row.txn /\ row.at <= n + row.at + row.txn
            /\ row.txn <= n + row.at + row.txn /\ n + row.at + row.txn \in Nat
      BY <1>1
    <3> QED
      BY <3>1
  <2>3. \A r \in L : r.at \in Nat /\ r.txn \in Nat
    BY NoticeAssumption, Zenon DEF Countable, LedgerRows
  <2>4. \A r \in L \union {row} : r.at <= k /\ r.txn <= k
    BY <2>1, <2>2, <2>3
  <2> QED
    BY <2>4
<1> QED
  BY <1>3, <1>4, <1>5, Zenon DEF Countable

(* outstanding_reversal is never negative.                                 *)
LEMMA MaxZero ==
    ASSUME NEW x \in Int
    PROVE  Max({0, x}) = IF x > 0 THEN x ELSE 0
<1> DEFINE m == IF x > 0 THEN x ELSE 0
<1>1. m \in {0, x} /\ \A y \in {0, x} : m >= y
  OBVIOUS
<1>2. \A k \in {0, x} : (\A y \in {0, x} : k >= y) => k = m
  OBVIOUS
<1> QED
  BY <1>1, <1>2 DEF Max

(* The lesser of two amounts.                                              *)
LEMMA MinTwo ==
    ASSUME NEW x \in Nat, NEW y \in Nat
    PROVE  Min({x, y}) = IF x <= y THEN x ELSE y
<1> DEFINE m == IF x <= y THEN x ELSE y
<1>1. m \in {x, y} /\ \A z \in {x, y} : m =< z
  OBVIOUS
<1>2. \A k \in {x, y} : (\A z \in {x, y} : k =< z) => k = m
  OBVIOUS
<1> QED
  BY <1>1, <1>2 DEF Min

(* The totals of a countable ledger.                                       *)
LEMMA Totals ==
    ASSUME NEW L, Countable(L)
    PROVE  LET refunded == Amount(L, "Refunded")
               reversed == Amount(L, "Reversed")
               restored == Amount(L, "Canceled_Reversal")
           IN /\ refunded \in Nat /\ reversed \in Nat /\ restored \in Nat
              /\ OutstandingReversal(L) = IF reversed > restored THEN reversed - restored ELSE 0
              /\ OutstandingReversal(L) \in Nat
              /\ Effective(L) = refunded + OutstandingReversal(L)
              /\ Effective(L) \in Nat
<1> DEFINE refunded == Amount(L, "Refunded")
           reversed == Amount(L, "Reversed")
           restored == Amount(L, "Canceled_Reversal")
<1>1. refunded \in Nat /\ reversed \in Nat /\ restored \in Nat
  BY AmountNat, Zenon DEF Statuses
<1> HIDE DEF refunded, reversed, restored
<1>2. Max({0, reversed - restored})
        = IF reversed > restored THEN reversed - restored ELSE 0
  BY <1>1, MaxZero
<1>3. OutstandingReversal(L) = IF reversed > restored THEN reversed - restored ELSE 0
  BY <1>2, Zenon DEF OutstandingReversal, reversed, restored
<1>4. OutstandingReversal(L) \in Nat
  BY <1>1, <1>3
<1>5. Effective(L) = refunded + OutstandingReversal(L)
  BY Zenon DEF Effective, refunded
<1>6. Effective(L) \in Nat
  BY <1>1, <1>4, <1>5
<1> QED
  BY <1>1, <1>3, <1>4, <1>5, <1>6, Zenon DEF refunded, reversed, restored

(* How one new row moves them.                                             *)
LEMMA TotalsAfter ==
    ASSUME NEW L, Countable(L), NEW row \in LedgerRows, row.txn \notin Recorded(L)
    PROVE  LET M == L \union {row}
           IN /\ row.status = "Refunded" =>
                   /\ OutstandingReversal(M) = OutstandingReversal(L)
                   /\ Amount(M, "Refunded") > 0
              /\ row.status = "Reversed" => OutstandingReversal(M) >= OutstandingReversal(L)
              /\ row.status # "Canceled_Reversal" => Effective(M) >= Effective(L)
              /\ row.status = "Canceled_Reversal" =>
                   /\ OutstandingReversal(M) <= OutstandingReversal(L)
                   /\ Effective(M) <= Effective(L)
              /\ Amount(M, "Refunded") >= Amount(L, "Refunded")
<1> DEFINE M == L \union {row}
           A(s) == Amount(L, s)
           B(s) == Amount(M, s)
           a == row.amount
<1>1. Countable(M) /\ \A s \in Statuses : B(s) = A(s) + IF row.status = s THEN a ELSE 0
  BY AmountAdd, Zenon
<1>2. a \in Nat /\ a > 0 /\ row.status \in Statuses
  BY DEF LedgerRows
<1>3. /\ A("Refunded") \in Nat /\ A("Reversed") \in Nat /\ A("Canceled_Reversal") \in Nat
      /\ OutstandingReversal(L) = IF A("Reversed") > A("Canceled_Reversal")
                                   THEN A("Reversed") - A("Canceled_Reversal") ELSE 0
      /\ Effective(L) = A("Refunded") + OutstandingReversal(L)
  BY Totals, Zenon
<1>4. /\ B("Refunded") \in Nat /\ B("Reversed") \in Nat /\ B("Canceled_Reversal") \in Nat
      /\ OutstandingReversal(M) = IF B("Reversed") > B("Canceled_Reversal")
                                   THEN B("Reversed") - B("Canceled_Reversal") ELSE 0
      /\ Effective(M) = B("Refunded") + OutstandingReversal(M)
  BY <1>1, Totals, Zenon
<1>5. /\ B("Refunded") = A("Refunded") + IF row.status = "Refunded" THEN a ELSE 0
      /\ B("Reversed") = A("Reversed") + IF row.status = "Reversed" THEN a ELSE 0
      /\ B("Canceled_Reversal")
           = A("Canceled_Reversal") + IF row.status = "Canceled_Reversal" THEN a ELSE 0
  BY <1>1, Zenon DEF Statuses
<1> HIDE DEF A, B, M, a
<1>6. CASE row.status = "Refunded"
  BY <1>2, <1>3, <1>4, <1>5, <1>6 DEF M, B, A
<1>7. CASE row.status = "Reversed"
  BY <1>2, <1>3, <1>4, <1>5, <1>7 DEF M, B, A
<1>8. CASE row.status = "Canceled_Reversal"
  BY <1>2, <1>3, <1>4, <1>5, <1>8 DEF M, B, A
<1> QED
  BY <1>2, <1>6, <1>7, <1>8, Zenon DEF Statuses

(* Which state a row replaced does not touch the totals.                   *)
LEMMA SameTotals ==
    ASSUME NEW L, Countable(L), NEW p \in LedgerRows, NEW q \in LedgerRows,
           p.txn \notin Recorded(L),
           p.txn = q.txn, p.status = q.status, p.amount = q.amount
    PROVE  /\ \A s \in Statuses : Amount(L \union {p}, s) = Amount(L \union {q}, s)
           /\ OutstandingReversal(L \union {p}) = OutstandingReversal(L \union {q})
           /\ Effective(L \union {p}) = Effective(L \union {q})
<1>1. \A s : Money(L \union {p}, s) = Money(L \union {q}, s)
  BY DEF Money
<1>2. \A s : Amount(L \union {p}, s) = Amount(L \union {q}, s)
  BY <1>1, Zenon DEF Amount
<1>3. /\ Amount(L \union {p}, "Refunded") = Amount(L \union {q}, "Refunded")
      /\ Amount(L \union {p}, "Reversed") = Amount(L \union {q}, "Reversed")
      /\ Amount(L \union {p}, "Canceled_Reversal") = Amount(L \union {q}, "Canceled_Reversal")
  BY <1>2, Zenon
<1>4. OutstandingReversal(L \union {p}) = OutstandingReversal(L \union {q})
  BY <1>3, Zenon DEF OutstandingReversal
<1>5. Effective(L \union {p}) = Effective(L \union {q})
  BY <1>3, <1>4, Zenon DEF Effective
<1> QED
  BY <1>2, <1>4, <1>5, Zenon

(* Latest finds a row, and none is newer.                                  *)
LEMMA LatestLast ==
    ASSUME NEW L, Countable(L), NEW rows \in SUBSET L, rows # {}
    PROVE  /\ Latest(rows) \in rows
           /\ \A q \in rows : q.at <= Latest(rows).at
<1>1. \A r \in rows : r.at \in Nat /\ r.txn \in Nat
  BY NoticeAssumption, Zenon DEF Countable, LedgerRows
<1>2. PICK n \in Nat : \A r \in L : r.at <= n /\ r.txn <= n
  BY Zenon DEF Countable
<1>3. PICK a \in {r.at : r \in rows} : \A x \in {r.at : r \in rows} : x <= a
  <2> DEFINE T == {r.at : r \in rows}
  <2>1. T \in SUBSET Nat /\ T # {} /\ \A x \in T : x <= n
    BY <1>1, <1>2
  <2> HIDE DEF T
  <2>2. \E m \in T : \A x \in T : x <= m
    BY <2>1, GreatestNat, Zenon
  <2> QED
    BY <2>2, Zenon DEF T
<1>4. PICK c \in {r.txn : r \in {q \in rows : q.at = a}} :
         \A x \in {r.txn : r \in {q \in rows : q.at = a}} : x <= c
  <2> DEFINE T == {r.txn : r \in {q \in rows : q.at = a}}
  <2>1. T \in SUBSET Nat /\ T # {} /\ \A x \in T : x <= n
    BY <1>1, <1>2, <1>3
  <2> HIDE DEF T
  <2>2. \E m \in T : \A x \in T : x <= m
    BY <2>1, GreatestNat, Zenon
  <2> QED
    BY <2>2, Zenon DEF T
<1>5. PICK r \in rows : r.at = a /\ r.txn = c
  BY <1>4
<1>6. \A q \in rows : q.at < r.at \/ (q.at = r.at /\ q.txn <= r.txn)
  <2> SUFFICES ASSUME NEW q \in rows, ~(q.at < r.at)
               PROVE  q.at = r.at /\ q.txn <= r.txn
    BY Zenon
  <2>1. q.at <= a
    BY <1>3, Zenon
  <2>2. q.at = a
    BY <1>1, <1>5, <2>1
  <2>3. q.txn <= c
    BY <1>4, <2>2, Zenon
  <2> QED
    BY <1>5, <2>2, <2>3, Zenon
<1>7. /\ Latest(rows) \in rows
      /\ \A q \in rows : \/ q.at < Latest(rows).at
                         \/ q.at = Latest(rows).at /\ q.txn <= Latest(rows).txn
  BY <1>6, Zenon DEF Latest
<1> QED
  BY <1>1, <1>7

-----------------------------------------------------------------------------
(* What an order and its ledger agree on.                                  *)

(* The stock of an order that is in, or would return to, a state.          *)
Matches(o, state) ==
    IF state = "cancelled" THEN o.sold = opened ELSE o.sold = LinesOf[o.kind]

(* PayPal notified a refund that the seller had recorded before.           *)
Adopted(o, ledger) == o.review /\ Amount(ledger, "Refunded") > 0

(* The rows that a cancelled reversal may go back to.                      *)
Replaced(ledger) == {r \in ledger : r.from # "none"}

RefundSound(o, ledger) ==
    /\ o.state = "refunded_external" =>
         Effective(ledger) >= Total \/ ManualExternal(o, ledger) \/ o.review
    /\ Effective(ledger) >= Total => o.state = "refunded_external" \/ o.review
    /\ o.reversed <=> OutstandingReversal(ledger) > 0
    /\ o.refund = NoRefund => Effective(ledger) = 0
    /\ ManualExternal(o, ledger) /\ o.refund.txn \in Txns =>
         Notice[o.refund.txn].status = "Refunded"
    /\ o.note = "refunded" => o.state = "refunded_external"

StockSound(o, ledger) ==
    o.receipt =>
      /\ opened \subseteq o.sold
      /\ \/ o.state = "refunded_external"
         \/ Matches(o, o.state)
         \/ Adopted(o, ledger) /\ o.note = "refund_reversal_cancelled"
      /\ o.state = "refunded_external" /\ ~ManualExternal(o, ledger) =>
           \/ Adopted(o, ledger)
           \/ \A r \in Replaced(ledger) :
                (\A q \in Replaced(ledger) : q.at <= r.at) => Matches(o, r.from)

(* During a transaction at one instant: the rows it wrote.                 *)
InstantSound(o, ledger, at) ==
    /\ \A r \in ledger : r.at <= at
    /\ o.receipt => \/ Adopted(o, ledger)
                    \/ \A r \in Replaced(ledger) : r.at = at => Matches(o, r.from)

Sound(o, ledger, at) ==
    /\ o \in Rows
    /\ o.state # "pending_payment"
    /\ Countable(ledger)
    /\ RefundSound(o, ledger)
    /\ StockSound(o, ledger)
    /\ InstantSound(o, ledger, at)

-----------------------------------------------------------------------------
(* running_refund: nothing when nothing is effective.                      *)
LEMMA Running ==
    ASSUME NEW L, Countable(L), NEW txn \in Nat
    PROVE  /\ RunningRefund(L, txn) \in [txn : Nat, amount : Nat]
           /\ RunningRefund(L, txn) = NoRefund => Effective(L) = 0
           /\ RunningRefund(L, txn) # NoRefund => RunningRefund(L, txn).txn = txn
<1>1. Effective(L) \in Nat
  BY Totals, Zenon
<1>2. Total \in Nat /\ Total # 0
  BY TotalAssumption
<1>3. Min({Effective(L), Total}) = IF Effective(L) <= Total THEN Effective(L) ELSE Total
  BY <1>1, <1>2, MinTwo, Zenon
<1>4. NoRefund \in [txn : Nat, amount : Nat] /\ NoRefund.amount = 0
  BY DEF NoRefund, OwnTxn
<1>5. CASE Effective(L) = 0
  BY <1>4, <1>5, Zenon DEF RunningRefund
<1>6. CASE Effective(L) # 0
  <2> DEFINE m == Min({Effective(L), Total})
  <2>1. m \in Nat /\ m # 0
    BY <1>1, <1>2, <1>3, <1>6
  <2> HIDE DEF m
  <2>2. RunningRefund(L, txn) = [txn |-> txn, amount |-> m]
    BY <1>6, Zenon DEF RunningRefund, m
  <2> QED
    BY <1>4, <2>1, <2>2
<1> QED
  BY <1>5, <1>6, Zenon

(* A refund is manual exactly while its id is in no row.                   *)
LEMMA ManualAfter ==
    ASSUME NEW o, NEW L, NEW row
    PROVE  ManualExternal(o, L \union {row})
             <=> ManualExternal(o, L) /\ o.refund.txn # row.txn
BY DEF ManualExternal, Recorded

(* A new row of any kind.                                                  *)
LEMMA NewRowTyped ==
    ASSUME NEW t \in Txns, NEW at \in Nat, NEW from \in FullRefundSources \union {"none"},
           NEW ret \in Returns
    PROVE  /\ NewRow(t, at, from, ret) \in LedgerRows
           /\ NewRow(t, at, from, ret).txn = t
           /\ NewRow(t, at, from, ret).status = Notice[t].status
           /\ NewRow(t, at, from, ret).amount = Notice[t].amount
           /\ NewRow(t, at, from, ret).at = at
           /\ NewRow(t, at, from, ret).from = from
BY NoticeAssumption DEF NewRow, LedgerRows

(* The fields of an order row.                                             *)
LEMMA RowFields ==
    ASSUME NEW o \in Rows
    PROVE  /\ o.kind \in DOMAIN LinesOf /\ o.state \in States /\ o.receipt \in BOOLEAN
           /\ o.ret \in Returns /\ o.refund \in [txn : Nat, amount : Nat]
           /\ o.reversed \in BOOLEAN /\ o.review \in BOOLEAN
           /\ o.note \in {"none", "refunded", "refund_reversal_cancelled"}
           /\ o.sold \in SUBSET Lines /\ o.instant \in BOOLEAN
           /\ o.handed \in Parties \union {"none"} /\ o.reviewed \in SUBSET Reviewers
BY Zenon DEF Rows

(* A transaction's row joins the rows that may be gone back to only when   *)
(* it moved the order.                                                     *)
LEMMA ReplacedAfter ==
    ASSUME NEW L, NEW row
    PROVE  Replaced(L \union {row}) =
             IF row.from = "none" THEN Replaced(L) ELSE Replaced(L) \union {row}
BY DEF Replaced

(* Refunded and Reversed on an order keep it sound.                        *)
LEMMA TakeBackSound ==
    ASSUME NEW o, NEW L, NEW at \in Nat, Sound(o, L, at),
           NEW t \in Txns, t \notin Recorded(L), Notice[t].status # "Canceled_Reversal"
    PROVE  Sound(TakeBack(o, L, t, at).order, TakeBack(o, L, t, at).ledger, at)
<1> DEFINE manual == ManualExternal(o, L)
           blank == NewRow(t, at, "none", "none")
           plain == L \union {blank}
           full == Effective(plain) >= Total
           moves == full /\ ~manual /\ o.state \in FullRefundSources
           row == IF moves THEN NewRow(t, at, o.state, o.ret) ELSE blank
           M == L \union {row}
           p == TakeBack(o, L, t, at).order
<1>1. /\ o \in Rows /\ o.state # "pending_payment" /\ Countable(L)
      /\ RefundSound(o, L) /\ StockSound(o, L) /\ InstantSound(o, L, at)
  BY Zenon DEF Sound
<1>2. /\ o.state \in States /\ o.ret \in Returns /\ o.review \in BOOLEAN
      /\ o.reversed \in BOOLEAN /\ o.refund \in [txn : Nat, amount : Nat]
      /\ o.note \in {"none", "refunded", "refund_reversal_cancelled"}
  BY <1>1, RowFields, Zenon
<1>3. /\ blank \in LedgerRows /\ blank.txn = t /\ blank.status = Notice[t].status
      /\ blank.amount = Notice[t].amount /\ blank.at = at /\ blank.from = "none"
  <2>1. "none" \in FullRefundSources \union {"none"} /\ "none" \in Returns
    BY DEF Returns
  <2> QED
    BY <2>1, NewRowTyped
<1>4. /\ row \in LedgerRows /\ row.txn = t /\ row.status = Notice[t].status
      /\ row.amount = Notice[t].amount /\ row.at = at
      /\ row.from = IF moves THEN o.state ELSE "none"
  <2>1. CASE moves
    <3>1. o.state \in FullRefundSources \union {"none"}
      BY <2>1, Zenon
    <3>2. row = NewRow(t, at, o.state, o.ret)
      BY <2>1, Zenon
    <3> DEFINE moved == NewRow(t, at, o.state, o.ret)
    <3>3. /\ moved \in LedgerRows /\ moved.txn = t /\ moved.status = Notice[t].status
          /\ moved.amount = Notice[t].amount /\ moved.at = at /\ moved.from = o.state
      <4> HIDE DEF row, moves
      <4> QED
        BY <1>2, <3>1, NewRowTyped, SMTT(60)
    <3> HIDE DEF row, moves, moved
    <3> QED
      BY <2>1, <3>2, <3>3, Zenon DEF moved
  <2>2. CASE ~moves
    <3>1. row = blank
      BY <2>2, Zenon
    <3> HIDE DEF row, moves, blank
    <3> QED
      BY <1>3, <2>2, <3>1, Zenon
  <2> QED
    BY <2>1, <2>2, Zenon
<1>5. TakeBack(o, L, t, at).ledger = M
  BY Zenon DEF TakeBack
<1>6. p = [o EXCEPT !.state = IF moves THEN "refunded_external" ELSE @,
                    !.ret = IF moves /\ @ # "none" THEN "refunded" ELSE @,
                    !.note = IF moves THEN "refunded" ELSE @,
                    !.refund = IF manual THEN @ ELSE RunningRefund(plain, t),
                    !.reversed = ReversedAfter(o, Notice[t].status, plain),
                    !.review = @ \/ manual \/ Effective(plain) > Total \/ (full /\ ~moves)]
  BY Zenon DEF TakeBack
<1>7. moves => full /\ ~manual /\ o.state \in FullRefundSources
  BY Zenon
<1>8. full <=> Effective(plain) >= Total
  OBVIOUS
<1>9. full /\ ~moves /\ ~manual => o.state \notin FullRefundSources
  OBVIOUS
<1>10. Countable(plain) /\ Countable(M)
  <2> HIDE DEF row, blank
  <2> QED
    BY <1>1, <1>3, <1>4, AmountAdd, Zenon
<1>11. /\ Effective(plain) = Effective(M)
       /\ OutstandingReversal(plain) = OutstandingReversal(M)
  <2> HIDE DEF row, blank, moves
  <2>1. /\ blank.txn \notin Recorded(L) /\ blank.txn = row.txn
        /\ blank.status = row.status /\ blank.amount = row.amount
    BY <1>3, <1>4, Zenon
  <2> QED
    BY <1>1, <1>3, <1>4, <2>1, SameTotals, Zenon
<1>12. /\ row.status = "Refunded" =>
             OutstandingReversal(M) = OutstandingReversal(L) /\ Amount(M, "Refunded") > 0
       /\ Effective(M) >= Effective(L)
       /\ Amount(M, "Refunded") >= Amount(L, "Refunded")
  <2> HIDE DEF row
  <2> QED
    BY <1>1, <1>4, TotalsAfter, Zenon
<1>13. manual <=> ManualExternal(o, L)
  OBVIOUS
<1>14. /\ RunningRefund(plain, t) \in [txn : Nat, amount : Nat]
       /\ RunningRefund(plain, t) = NoRefund => Effective(plain) = 0
       /\ RunningRefund(plain, t) # NoRefund => RunningRefund(plain, t).txn = t
  <2>1. t \in Nat
    BY NoticeAssumption
  <2> HIDE DEF plain
  <2> QED
    BY <1>10, <2>1, Running, Zenon
<1> HIDE DEF p, row, moves, full, plain, blank, manual
<1>15. ReversedAfter(o, Notice[t].status, plain) = (OutstandingReversal(M) > 0)
  <2>1. Notice[t].status \in {"Refunded", "Reversed"}
    BY NoticeAssumption DEF Statuses
  <2>2. CASE Notice[t].status = "Reversed"
    BY <1>11, <2>2 DEF ReversedAfter
  <2>3. CASE Notice[t].status = "Refunded"
    <3>1. ReversedAfter(o, Notice[t].status, plain) = o.reversed
      BY <2>3 DEF ReversedAfter
    <3>2. o.reversed <=> OutstandingReversal(L) > 0
      BY <1>1, Zenon DEF RefundSound
    <3>3. OutstandingReversal(M) = OutstandingReversal(L)
      BY <1>4, <1>12, <2>3, Zenon
    <3> QED
      BY <1>2, <3>1, <3>2, <3>3
  <2> QED
    BY <2>1, <2>2, <2>3, Zenon
<1>16. /\ p \in Rows
       /\ p.kind = o.kind /\ p.receipt = o.receipt /\ p.sold = o.sold
       /\ p.state = IF moves THEN "refunded_external" ELSE o.state
       /\ p.note = IF moves THEN "refunded" ELSE o.note
       /\ p.refund = IF manual THEN o.refund ELSE RunningRefund(plain, t)
       /\ p.reversed = (OutstandingReversal(M) > 0)
       /\ p.review = (o.review \/ manual \/ Effective(plain) > Total \/ (full /\ ~moves))
  <2> DEFINE state == IF moves THEN "refunded_external" ELSE o.state
             ret == IF moves /\ o.ret # "none" THEN "refunded" ELSE o.ret
             note == IF moves THEN "refunded" ELSE o.note
             refund == IF manual THEN o.refund ELSE RunningRefund(plain, t)
             reversed == ReversedAfter(o, Notice[t].status, plain)
             review == o.review \/ manual \/ Effective(plain) > Total \/ (full /\ ~moves)
  <2>1. /\ state \in States /\ ret \in Returns
        /\ note \in {"none", "refunded", "refund_reversal_cancelled"}
        /\ refund \in [txn : Nat, amount : Nat]
    BY <1>2, <1>14, Zenon DEF States, Returns
  <2>2. reversed \in BOOLEAN /\ review \in BOOLEAN
    BY <1>15
  <2>3. p = [o EXCEPT !.state = state, !.ret = ret, !.note = note, !.refund = refund,
                      !.reversed = reversed, !.review = review]
    BY <1>6, Zenon
  <2>4. reversed = (OutstandingReversal(M) > 0)
    BY <1>15, Zenon
  <2> HIDE DEF state, ret, note, refund, reversed, review
  <2>5. /\ p \in Rows
        /\ p.kind = o.kind /\ p.state = state /\ p.receipt = o.receipt
        /\ p.note = note /\ p.refund = refund /\ p.reversed = reversed
        /\ p.review = review /\ p.sold = o.sold
    BY <1>1, <2>1, <2>2, <2>3, Zenon DEF Rows
  <2> QED
    BY <2>4, <2>5, Zenon DEF state, note, refund, review
<1>17. p.state # "pending_payment"
  BY <1>1, <1>16, Zenon
<1>18. /\ Effective(M) \in Nat /\ OutstandingReversal(M) \in Nat
       /\ Effective(L) \in Nat /\ OutstandingReversal(L) \in Nat
       /\ Total \in Nat
       /\ Amount(M, "Refunded") \in Nat /\ Amount(L, "Refunded") \in Nat
  BY <1>1, <1>10, Totals, TotalAssumption, Zenon
<1>19. ManualExternal(p, M) <=> manual /\ o.refund.txn # t
  <2>1. CASE manual
    <3>1. ManualExternal(p, M) <=> ManualExternal(o, M)
      BY <1>16, <2>1, Zenon DEF ManualExternal
    <3>2. ManualExternal(o, M) <=> ManualExternal(o, L) /\ o.refund.txn # row.txn
      BY ManualAfter, Zenon
    <3> QED
      BY <1>4, <1>13, <2>1, <3>1, <3>2, Zenon
  <2>2. CASE ~manual
    <3>1. p.refund # NoRefund => p.refund.txn = t
      BY <1>14, <1>16, <2>2, Zenon
    <3>2. t \in Recorded(M)
      BY <1>4 DEF Recorded
    <3> QED
      BY <2>2, <3>1, <3>2, Zenon DEF ManualExternal
  <2> QED
    BY <2>1, <2>2, Zenon
<1>20. RefundSound(p, M)
  <2>1. p.state = "refunded_external" => Effective(M) >= Total \/ ManualExternal(p, M) \/ p.review
    <3>1. CASE moves
      BY <1>7, <1>8, <1>11, <3>1
    <3>2. CASE ~moves
      <4>1. o.state = "refunded_external" => Effective(L) >= Total \/ manual \/ o.review
        BY <1>1, <1>13, Zenon DEF RefundSound
      <4>2. Effective(L) >= Total => Effective(M) >= Total
        BY <1>4, <1>12, <1>18
      <4> QED
        BY <1>16, <3>2, <4>1, <4>2, Zenon
    <3> QED
      BY <3>1, <3>2, Zenon
  <2>2. Effective(M) >= Total => p.state = "refunded_external" \/ p.review
    BY <1>8, <1>11, <1>16, Zenon
  <2>3. p.reversed <=> OutstandingReversal(M) > 0
    BY <1>16, Zenon
  <2>4. p.refund = NoRefund => Effective(M) = 0
    <3>1. manual => o.refund # NoRefund
      BY <1>13, Zenon DEF ManualExternal
    <3> QED
      BY <1>11, <1>14, <1>16, <3>1, Zenon
  <2>5. ManualExternal(p, M) /\ p.refund.txn \in Txns => Notice[p.refund.txn].status = "Refunded"
    BY <1>1, <1>13, <1>16, <1>19, Zenon DEF RefundSound
  <2>6. p.note = "refunded" => p.state = "refunded_external"
    BY <1>1, <1>16, Zenon DEF RefundSound
  <2> QED
    BY <2>1, <2>2, <2>3, <2>4, <2>5, <2>6, Zenon DEF RefundSound
<1>21. /\ \A s : Matches(p, s) <=> Matches(o, s)
       /\ Adopted(o, L) => Adopted(p, M)
  <2>1. \A s : Matches(p, s) <=> Matches(o, s)
    BY <1>16, Zenon DEF Matches
  <2>2. Amount(L, "Refunded") > 0 => Amount(M, "Refunded") > 0
    BY <1>12, <1>18
  <2>3. o.review => p.review
    BY <1>16, Zenon
  <2> QED
    BY <2>1, <2>2, <2>3, Zenon DEF Adopted
<1>22. o.receipt /\ moves => Adopted(p, M) \/ Matches(p, row.from)
  <2>1. moves => o.state # "refunded_external" /\ row.from = o.state
    BY <1>4, <1>7 DEF FullRefundSources
  <2>2. o.receipt /\ moves => Matches(o, o.state) \/ Adopted(o, L)
    BY <1>1, <2>1, Zenon DEF StockSound
  <2> QED
    BY <1>21, <2>1, <2>2, Zenon
<1>23. /\ ~moves => Replaced(M) = Replaced(L)
       /\ Replaced(M) \subseteq Replaced(L) \union {row}
       /\ moves => row \in Replaced(M)
  <2>1. moves => row.from # "none"
    BY <1>4, <1>7 DEF FullRefundSources
  <2>2. ~moves => row.from = "none"
    BY <1>4
  <2> QED
    BY <2>1, <2>2, ReplacedAfter, Zenon
<1>24. InstantSound(p, M, at)
  <2>1. \A r \in M : r.at <= at
    BY <1>1, <1>4 DEF InstantSound
  <2>2. ASSUME o.receipt, ~Adopted(p, M), NEW r \in Replaced(M), r.at = at
        PROVE  Matches(p, r.from)
    <3>1. CASE r \in Replaced(L)
      BY <1>1, <1>21, <2>2, <3>1, Zenon DEF InstantSound
    <3>2. CASE r \notin Replaced(L)
      BY <1>22, <1>23, <2>2, <3>2
    <3> QED
      BY <3>1, <3>2, Zenon
  <2> QED
    BY <1>16, <2>1, <2>2, Zenon DEF InstantSound
<1>25. StockSound(p, M)
  <2> SUFFICES ASSUME p.receipt
               PROVE  /\ opened \subseteq p.sold
                      /\ \/ p.state = "refunded_external"
                         \/ Matches(p, p.state)
                         \/ Adopted(p, M) /\ p.note = "refund_reversal_cancelled"
                      /\ p.state = "refunded_external" /\ ~ManualExternal(p, M) =>
                           \/ Adopted(p, M)
                           \/ \A r \in Replaced(M) :
                                (\A q \in Replaced(M) : q.at <= r.at) => Matches(p, r.from)
    BY Zenon DEF StockSound
  <2>1. o.receipt
    BY <1>16, Zenon
  <2>2. opened \subseteq p.sold
    BY <1>1, <1>16, <2>1, Zenon DEF StockSound
  <2>3. \/ p.state = "refunded_external"
        \/ Matches(p, p.state)
        \/ Adopted(p, M) /\ p.note = "refund_reversal_cancelled"
    BY <1>1, <1>16, <1>21, <2>1, Zenon DEF StockSound
  <2>4. ASSUME p.state = "refunded_external", ~ManualExternal(p, M), ~Adopted(p, M),
               NEW r \in Replaced(M), \A q \in Replaced(M) : q.at <= r.at
        PROVE  Matches(p, r.from)
    <3>1. ~manual
      <4> SUFFICES ASSUME manual PROVE FALSE
        OBVIOUS
      <4>1. o.refund.txn = t
        BY <1>19, <2>4, Zenon
      <4>2. row.status = "Refunded"
        BY <1>1, <1>4, <1>13, <4>1, Zenon DEF RefundSound
      <4>3. Adopted(p, M)
        BY <1>12, <1>16, <4>2, Zenon DEF Adopted
      <4> QED
        BY <2>4, <4>3
    <3>2. CASE moves
      <4>1. r.at \in Nat /\ r.at <= at /\ row.at <= r.at
        <5>1. r \in M /\ row \in Replaced(M)
          BY <1>23, <3>2 DEF Replaced
        <5>2. r.at \in Nat
          BY <1>10, <5>1 DEF Countable, LedgerRows
        <5> QED
          BY <1>24, <2>4, <5>1, <5>2, Zenon DEF InstantSound
      <4>2. r.at = at
        BY <1>4, <4>1
      <4> QED
        BY <1>24, <2>4, <4>2, Zenon DEF InstantSound
    <3>3. CASE ~moves
      <4>1. o.state = "refunded_external" /\ ~ManualExternal(o, L) /\ ~Adopted(o, L)
        BY <1>13, <1>16, <1>21, <2>4, <3>1, <3>3, Zenon
      <4>2. Replaced(M) = Replaced(L)
        BY <1>23, <3>3, Zenon
      <4>3. Matches(o, r.from)
        BY <1>1, <2>1, <2>4, <4>1, <4>2, Zenon DEF StockSound
      <4> QED
        BY <1>21, <4>3, Zenon
    <3> QED
      BY <3>2, <3>3, Zenon
  <2> QED
    BY <2>2, <2>3, <2>4, Zenon
<1> QED
  BY <1>5, <1>10, <1>16, <1>17, <1>20, <1>24, <1>25, Zenon DEF Sound, p

(* Canceled_Reversal on an order keeps it sound: what it goes back to is   *)
(* a state that fits the stock, or a person has been asked to look.        *)
LEMMA GiveBackSound ==
    ASSUME NEW o, NEW L, NEW at \in Nat, Sound(o, L, at),
           NEW t \in Txns, t \notin Recorded(L), Notice[t].status = "Canceled_Reversal"
    PROVE  Sound(GiveBack(o, L, t, at).order, GiveBack(o, L, t, at).ledger, at)
<1> DEFINE manual == ManualExternal(o, L)
           blank == NewRow(t, at, "none", "none")
           M == L \union {blank}
           refunds == {r \in L : r.status = "Refunded"}
           named == IF refunds # {} THEN refunds ELSE {r \in L : r.status = "Reversed"}
           txn == IF named = {} THEN t ELSE Latest(named).txn
           reopen == o.state = "refunded_external" /\ Effective(M) < Total
           restores == reopen /\ Replaced(L) # {} /\ ~manual
           before == Latest(Replaced(L))
           p == GiveBack(o, L, t, at).order
<1>1. /\ o \in Rows /\ o.state # "pending_payment" /\ Countable(L)
      /\ RefundSound(o, L) /\ StockSound(o, L) /\ InstantSound(o, L, at)
  BY Zenon DEF Sound
<1>2. /\ o.state \in States /\ o.ret \in Returns /\ o.review \in BOOLEAN
      /\ o.reversed \in BOOLEAN /\ o.refund \in [txn : Nat, amount : Nat]
      /\ o.note \in {"none", "refunded", "refund_reversal_cancelled"}
  BY <1>1, RowFields, Zenon
<1>3. /\ blank \in LedgerRows /\ blank.txn = t /\ blank.status = "Canceled_Reversal"
      /\ blank.at = at /\ blank.from = "none"
  <2>1. "none" \in FullRefundSources \union {"none"} /\ "none" \in Returns
    BY DEF Returns
  <2> QED
    BY <2>1, NewRowTyped
<1>4. GiveBack(o, L, t, at).ledger = M
  BY Zenon DEF GiveBack
<1>5. p = [o EXCEPT !.state = IF restores THEN before.from ELSE @,
                    !.ret = IF restores THEN ReturnBefore(o, before) ELSE @,
                    !.note = IF restores THEN "refund_reversal_cancelled" ELSE @,
                    !.refund = IF manual THEN @ ELSE RunningRefund(M, txn),
                    !.reversed = ReversedAfter(o, "Canceled_Reversal", M),
                    !.review = \/ @
                               \/ reopen /\ ~restores
                               \/ ~reopen /\ OutstandingReversal(L) = 0]
  BY Zenon DEF GiveBack, Replaced
<1>6. restores => o.state = "refunded_external" /\ ~manual /\ Replaced(L) # {}
  BY Zenon
<1>7. o.state = "refunded_external" /\ Effective(M) < Total <=> reopen
  BY Zenon
<1>8. manual <=> ManualExternal(o, L)
  OBVIOUS
<1>9. restores => reopen
  OBVIOUS
<1>10. t \in Nat
  BY NoticeAssumption
<1>11. Countable(M)
  <2> HIDE DEF blank
  <2> QED
    BY <1>1, <1>3, AmountAdd, Zenon
<1>12. /\ OutstandingReversal(M) <= OutstandingReversal(L)
       /\ Effective(M) <= Effective(L)
       /\ Amount(M, "Refunded") >= Amount(L, "Refunded")
  <2> HIDE DEF blank
  <2>1. blank.txn \notin Recorded(L)
    BY <1>3, Zenon
  <2> QED
    BY <1>1, <1>3, <2>1, TotalsAfter, Zenon
<1>13. txn \in Recorded(M) /\ txn \in Nat
  <2>1. CASE named = {}
    <3>1. t \in Recorded(M)
      BY <1>3 DEF Recorded
    <3> QED
      BY <1>10, <2>1, <3>1, Zenon
  <2>2. CASE named # {}
    <3>1. named \in SUBSET L
      OBVIOUS
    <3> HIDE DEF named
    <3>2. Latest(named) \in L
      BY <1>1, <2>2, <3>1, LatestLast, Zenon
    <3>3. Latest(named).txn \in Recorded(M) /\ Latest(named).txn \in Nat
      BY <1>1, <3>2, NoticeAssumption, SMTT(60) DEF Recorded, Countable, LedgerRows
    <3> QED
      BY <2>2, <3>3, Zenon
  <2> QED
    BY <2>1, <2>2, Zenon
<1>14. restores => /\ before \in Replaced(L)
                   /\ \A q \in Replaced(L) : q.at <= before.at
                   /\ before.from \in FullRefundSources /\ before.ret \in Returns
  <2>1. Replaced(L) \in SUBSET L
    BY DEF Replaced
  <2>2. Replaced(L) # {} => before \in Replaced(L) /\ \A q \in Replaced(L) : q.at <= before.at
    BY <1>1, <2>1, LatestLast, Zenon
  <2> HIDE DEF before, restores
  <2>3. before \in Replaced(L) => before.from \in FullRefundSources /\ before.ret \in Returns
    BY <1>1 DEF Replaced, Countable, LedgerRows
  <2> QED
    BY <1>6, <2>2, <2>3, Zenon
<1>15. Replaced(M) = Replaced(L)
  BY <1>3, ReplacedAfter, Zenon
<1> HIDE DEF p, before, restores, reopen, txn, named, refunds, M, blank, manual
<1>16. /\ RunningRefund(M, txn) \in [txn : Nat, amount : Nat]
       /\ RunningRefund(M, txn) = NoRefund => Effective(M) = 0
       /\ RunningRefund(M, txn) # NoRefund => RunningRefund(M, txn).txn = txn
  BY <1>11, <1>13, Running, Zenon
<1>17. /\ Effective(M) \in Nat /\ OutstandingReversal(M) \in Nat
       /\ Effective(L) \in Nat /\ OutstandingReversal(L) \in Nat
       /\ Total \in Nat
       /\ Amount(M, "Refunded") \in Nat /\ Amount(L, "Refunded") \in Nat
  BY <1>1, <1>11, Totals, TotalAssumption, Zenon
<1>18. ReversedAfter(o, "Canceled_Reversal", M) = (OutstandingReversal(M) > 0)
  <2>1. o.reversed <=> OutstandingReversal(L) > 0
    BY <1>1, Zenon DEF RefundSound
  <2>2. ReversedAfter(o, "Canceled_Reversal", M) = (o.reversed /\ OutstandingReversal(M) > 0)
    BY DEF ReversedAfter
  <2> QED
    BY <1>12, <1>17, <2>1, <2>2
<1>19. /\ p \in Rows
       /\ p.kind = o.kind /\ p.receipt = o.receipt /\ p.sold = o.sold
       /\ p.state = IF restores THEN before.from ELSE o.state
       /\ p.note = IF restores THEN "refund_reversal_cancelled" ELSE o.note
       /\ p.refund = IF manual THEN o.refund ELSE RunningRefund(M, txn)
       /\ p.reversed = (OutstandingReversal(M) > 0)
       /\ p.review = (\/ o.review
                      \/ reopen /\ ~restores
                      \/ ~reopen /\ OutstandingReversal(L) = 0)
  <2> DEFINE state == IF restores THEN before.from ELSE o.state
             ret == IF restores THEN ReturnBefore(o, before) ELSE o.ret
             note == IF restores THEN "refund_reversal_cancelled" ELSE o.note
             refund == IF manual THEN o.refund ELSE RunningRefund(M, txn)
             reversed == ReversedAfter(o, "Canceled_Reversal", M)
             review == \/ o.review
                       \/ reopen /\ ~restores
                       \/ ~reopen /\ OutstandingReversal(L) = 0
  <2>1. /\ state \in States
        /\ note \in {"none", "refunded", "refund_reversal_cancelled"}
        /\ refund \in [txn : Nat, amount : Nat]
    BY <1>2, <1>14, <1>16 DEF States, FullRefundSources
  <2>2. ret \in Returns
    BY <1>2, <1>14, Zenon DEF ReturnBefore
  <2>3. reversed \in BOOLEAN /\ review \in BOOLEAN
    <3>1. reversed \in BOOLEAN
      <4>1. reversed = (OutstandingReversal(M) > 0)
        BY <1>18, Zenon
      <4>2. (OutstandingReversal(M) > 0) \in BOOLEAN
        OBVIOUS
      <4> QED
        BY <4>1, <4>2, Zenon
    <3>2. review \in BOOLEAN
      OBVIOUS
    <3> QED
      BY <3>1, <3>2, Zenon
  <2>4. p = [o EXCEPT !.state = state, !.ret = ret, !.note = note, !.refund = refund,
                      !.reversed = reversed, !.review = review]
    BY <1>5, Zenon
  <2>5. reversed = (OutstandingReversal(M) > 0)
    BY <1>18, Zenon
  <2> HIDE DEF state, ret, note, refund, reversed, review
  <2>6. /\ p \in Rows
        /\ p.kind = o.kind /\ p.state = state /\ p.receipt = o.receipt
        /\ p.note = note /\ p.refund = refund /\ p.reversed = reversed
        /\ p.review = review /\ p.sold = o.sold
    BY <1>1, <2>1, <2>2, <2>3, <2>4, Zenon DEF Rows
  <2> QED
    BY <2>5, <2>6, Zenon DEF state, note, refund, review
<1>20. restores => p.state # "refunded_external" /\ p.state # "pending_payment"
  BY <1>14, <1>19 DEF FullRefundSources
<1>21. p.state # "pending_payment"
  BY <1>1, <1>19, <1>20, Zenon
<1>22. ManualExternal(p, M) <=> manual
  <2>1. CASE manual
    <3>1. o.refund.txn # t
      BY <1>1, <1>8, <2>1, SMTT(60) DEF RefundSound
    <3>2. ManualExternal(o, M)
      BY <1>3, <1>8, <2>1, <3>1, ManualAfter DEF M
    <3> QED
      BY <1>19, <2>1, <3>2, Zenon DEF ManualExternal
  <2>2. CASE ~manual
    BY <1>13, <1>16, <1>19, <2>2, Zenon DEF ManualExternal
  <2> QED
    BY <2>1, <2>2, Zenon
<1>23. RefundSound(p, M)
  <2>1. p.state = "refunded_external" => Effective(M) >= Total \/ ManualExternal(p, M) \/ p.review
    <3>1. ~(Effective(M) < Total) => Effective(M) >= Total
      BY <1>17
    <3> QED
      BY <1>7, <1>19, <1>20, <3>1, Zenon
  <2>2. Effective(M) >= Total => p.state = "refunded_external" \/ p.review
    <3>1. Effective(M) >= Total => ~(Effective(M) < Total) /\ Effective(L) >= Total
      BY <1>12, <1>17
    <3>2. Effective(L) >= Total => o.state = "refunded_external" \/ o.review
      BY <1>1, Zenon DEF RefundSound
    <3> QED
      BY <1>7, <1>9, <1>19, <3>1, <3>2, Zenon
  <2>3. p.reversed <=> OutstandingReversal(M) > 0
    BY <1>19, Zenon
  <2>4. p.refund = NoRefund => Effective(M) = 0
    <3>1. manual => o.refund # NoRefund
      BY <1>8, Zenon DEF ManualExternal
    <3> QED
      BY <1>16, <1>19, <3>1, Zenon
  <2>5. ManualExternal(p, M) /\ p.refund.txn \in Txns => Notice[p.refund.txn].status = "Refunded"
    BY <1>1, <1>8, <1>19, <1>22, Zenon DEF RefundSound
  <2>6. p.note = "refunded" => p.state = "refunded_external"
    <3>1. restores => p.note # "refunded"
      BY <1>19
    <3> QED
      BY <1>1, <1>19, <3>1, Zenon DEF RefundSound
  <2> QED
    BY <2>1, <2>2, <2>3, <2>4, <2>5, <2>6, Zenon DEF RefundSound
<1>24. /\ \A s : Matches(p, s) <=> Matches(o, s)
       /\ Adopted(o, L) => Adopted(p, M)
  <2>1. \A s : Matches(p, s) <=> Matches(o, s)
    BY <1>19, Zenon DEF Matches
  <2>2. Amount(L, "Refunded") > 0 => Amount(M, "Refunded") > 0
    BY <1>12, <1>17
  <2>3. o.review => p.review
    BY <1>19, Zenon
  <2> QED
    BY <2>1, <2>2, <2>3, Zenon DEF Adopted
<1>25. InstantSound(p, M, at)
  <2>1. \A r \in M : r.at <= at
    BY <1>1, <1>3 DEF InstantSound, M
  <2> QED
    BY <1>1, <1>15, <1>19, <1>24, <2>1, Zenon DEF InstantSound
<1>26. StockSound(p, M)
  <2> SUFFICES ASSUME p.receipt
               PROVE  /\ opened \subseteq p.sold
                      /\ \/ p.state = "refunded_external"
                         \/ Matches(p, p.state)
                         \/ Adopted(p, M) /\ p.note = "refund_reversal_cancelled"
                      /\ p.state = "refunded_external" /\ ~ManualExternal(p, M) =>
                           \/ Adopted(p, M)
                           \/ \A r \in Replaced(M) :
                                (\A q \in Replaced(M) : q.at <= r.at) => Matches(p, r.from)
    BY Zenon DEF StockSound
  <2>1. o.receipt
    BY <1>19, Zenon
  <2>2. opened \subseteq p.sold
    BY <1>1, <1>19, <2>1, Zenon DEF StockSound
  <2>3. CASE restores
    <3>1. Adopted(o, L) \/ Matches(o, before.from)
      BY <1>1, <1>6, <1>8, <1>14, <2>1, <2>3, Zenon DEF StockSound
    <3>2. p.note = "refund_reversal_cancelled" /\ p.state = before.from
      BY <1>19, <2>3, Zenon
    <3> QED
      BY <1>20, <1>24, <2>2, <2>3, <3>1, <3>2, Zenon
  <2>4. CASE ~restores
    <3>1. p.state = o.state /\ p.note = o.note
      BY <1>19, <2>4, Zenon
    <3> QED
      BY <1>1, <1>8, <1>15, <1>22, <1>24, <2>1, <2>2, <3>1, Zenon DEF StockSound
  <2> QED
    BY <2>3, <2>4, Zenon
<1> QED
  BY <1>4, <1>11, <1>19, <1>21, <1>23, <1>25, <1>26, Zenon DEF Sound, p, M

(* An inbox without one of its rows is an inbox.                           *)
LEMMA WithoutTyped ==
    ASSUME NEW S, NEW s \in Seq(S), NEW e
    PROVE  Without(s, e) \in Seq(S)
<1>1. CASE e \notin Range(s)
  BY <1>1, Zenon DEF Without
<1>2. CASE e \in Range(s)
  <2> DEFINE k == CHOOSE j \in DOMAIN s : s[j] = e
  <2>1. k \in DOMAIN s
    BY <1>2 DEF Range
  <2>2. Without(s, e) = SubSeq(s, 1, k - 1) \o SubSeq(s, k + 1, Len(s))
    BY <1>2, Zenon DEF Without
  <2> HIDE DEF k
  <2>3. SubSeq(s, 1, k - 1) \in Seq(S)
    BY <2>1
  <2>4. SubSeq(s, k + 1, Len(s)) \in Seq(S)
    BY <2>1
  <2> QED
    BY <2>2, <2>3, <2>4
<1> QED
  BY <1>1, <1>2, Zenon

(* Columns no refund notification writes.                                  *)
LEMMA TakeBackKeeps ==
    ASSUME NEW o \in Rows, NEW L, NEW t, NEW at
    PROVE  LET p == TakeBack(o, L, t, at).order
           IN p.kind = o.kind /\ p.receipt = o.receipt /\ p.handed = o.handed
BY Zenon DEF TakeBack, Rows

(* Nor does a cancelled reversal write them.                               *)
LEMMA GiveBackKeeps ==
    ASSUME NEW o \in Rows, NEW L, NEW t, NEW at
    PROVE  LET p == GiveBack(o, L, t, at).order
           IN p.kind = o.kind /\ p.receipt = o.receipt /\ p.handed = o.handed
BY Zenon DEF GiveBack, Rows

-----------------------------------------------------------------------------
(* A transaction on a settled payment's order, at one instant.             *)

Worlds == [order : Rows, gateway : Books]

InTransaction(w, o, at) ==
    /\ w \in Worlds /\ w.gateway.settled
    /\ w.order.kind = o.kind /\ w.order.receipt = o.receipt /\ w.order.handed = o.handed
    /\ Sound(w.order, w.gateway.ledger, at)

(* record_on_order writes the order row and the ledger row as TakeBack or  *)
(* GiveBack leaves them.                                                   *)
LEMMA RecordOnOrderSound ==
    ASSUME NEW o, NEW at \in Nat, NEW w, InTransaction(w, o, at), NEW t \in Txns,
           t \notin Recorded(w.gateway.ledger)
    PROVE  InTransaction(RecordOnOrder(w, t, at), o, at)
<1> DEFINE L == w.gateway.ledger
           done == IF Notice[t].status = "Canceled_Reversal"
                     THEN GiveBack(w.order, L, t, at) ELSE TakeBack(w.order, L, t, at)
           v == RecordOnOrder(w, t, at)
           g == w.gateway
<1>1. /\ w \in Worlds /\ g \in Books /\ g.settled /\ w.order \in Rows /\ Sound(w.order, L, at)
      /\ w.order.kind = o.kind /\ w.order.receipt = o.receipt /\ w.order.handed = o.handed
  BY Zenon DEF InTransaction, Worlds
<1>2. /\ Sound(done.order, done.ledger, at)
      /\ done.order.kind = o.kind /\ done.order.receipt = o.receipt
      /\ done.order.handed = o.handed
  <2> HIDE DEF L
  <2>1. CASE Notice[t].status = "Canceled_Reversal"
    <3>1. done = GiveBack(w.order, L, t, at)
      BY <2>1, Zenon
    <3> HIDE DEF done
    <3> QED
      BY <1>1, <2>1, <3>1, GiveBackSound, GiveBackKeeps, Zenon DEF L
  <2>2. CASE Notice[t].status # "Canceled_Reversal"
    <3>1. done = TakeBack(w.order, L, t, at)
      BY <2>2, Zenon
    <3> HIDE DEF done
    <3> QED
      BY <1>1, <2>2, <3>1, TakeBackSound, TakeBackKeeps, Zenon DEF L
  <2> QED
    BY <2>1, <2>2, Zenon
<1>3. v = [order |-> done.order,
           gateway |-> [g EXCEPT !.ledger = done.ledger, !.held = Without(g.held, t),
                                 !.rejected = g.rejected \ {t}]]
  BY Zenon DEF RecordOnOrder, Written
<1> HIDE DEF done, v, L
<1>4. done.order \in Rows /\ done.ledger \in SUBSET LedgerRows
  BY <1>2, SMTT(60) DEF Sound, Countable
<1>5. g.held \in Seq(Txns) /\ g.rejected \in SUBSET Txns
  BY <1>1, Zenon DEF Books
<1>6. Without(g.held, t) \in Seq(Txns)
  BY <1>5, WithoutTyped, Zenon
<1>7. v \in Worlds /\ v.gateway.settled /\ v.order = done.order /\ v.gateway.ledger = done.ledger
  <2> DEFINE held == Without(g.held, t)
             ledger == done.ledger
             rejected == g.rejected \ {t}
             h == [g EXCEPT !.ledger = ledger, !.held = held, !.rejected = rejected]
  <2>1. rejected \in SUBSET Txns /\ held \in Seq(Txns) /\ ledger \in SUBSET LedgerRows
    BY <1>4, <1>5, <1>6
  <2> HIDE DEF held, ledger, rejected, g
  <2>2. h \in Books /\ h.settled /\ h.ledger = ledger
    BY <1>1, <2>1, Zenon DEF Books
  <2>3. v = [order |-> done.order, gateway |-> h]
    BY <1>3, Zenon DEF held, ledger, rejected
  <2> HIDE DEF h
  <2> QED
    BY <1>4, <2>2, <2>3, Zenon DEF Worlds, ledger
<1> QED
  BY <1>2, <1>7, Zenon DEF InTransaction, v

(* The inbox upsert touches the inbox only.                                *)
LEMMA StoredTyped ==
    ASSUME NEW w \in Worlds, NEW t \in Txns, NEW reason
    PROVE  LET v == Stored(w, t, reason)
           IN /\ v \in Worlds
              /\ v.order = w.order
              /\ v.gateway.settled = w.gateway.settled
              /\ v.gateway.ledger = w.gateway.ledger
<1> DEFINE g == w.gateway
           v == Stored(w, t, reason)
<1>1. /\ w.order \in Rows /\ g \in Books /\ g.held \in Seq(Txns) /\ g.rejected \in SUBSET Txns
      /\ w = [order |-> w.order, gateway |-> g]
  BY DEF Worlds, Books
<1>2. CASE reason = "unknown_parent"
  <2> DEFINE held == IF t \in Range(g.held) THEN g.held ELSE Append(g.held, t)
  <2>1. held \in Seq(Txns)
    BY <1>1
  <2>2. v = [w EXCEPT !.gateway.held = held]
    BY <1>2, Zenon DEF Stored
  <2> HIDE DEF held, v
  <2>3. v = [order |-> w.order, gateway |-> [g EXCEPT !.held = held]]
    BY <2>2 DEF Worlds
  <2>4. [g EXCEPT !.held = held] \in Books
    BY <1>1, <2>1, SMTT(60) DEF Books
  <2>5. [g EXCEPT !.held = held].settled = g.settled /\ [g EXCEPT !.held = held].ledger = g.ledger
    BY <1>1 DEF Books
  <2>6. v \in Worlds /\ v.order = w.order /\ v.gateway = [g EXCEPT !.held = held]
    BY <1>1, <2>3, <2>4 DEF Worlds
  <2> QED
    BY <2>5, <2>6, Zenon DEF v
<1>3. CASE reason # "unknown_parent"
  <2> DEFINE held == Without(g.held, t)
             rejected == g.rejected \union {t}
             h == [g EXCEPT !.held = held, !.rejected = rejected]
  <2>1. held \in Seq(Txns) /\ rejected \in SUBSET Txns
    BY <1>1, WithoutTyped
  <2>2. v = [w EXCEPT !.gateway.held = held, !.gateway.rejected = rejected]
    BY <1>3 DEF Stored
  <2> HIDE DEF held, rejected, v
  <2>3. v = [order |-> w.order, gateway |-> h]
    BY <2>2, Zenon DEF Worlds
  <2>4. h \in Books /\ h.settled = g.settled /\ h.ledger = g.ledger
    BY <1>1, <2>1, Zenon DEF Books
  <2> HIDE DEF h
  <2>5. v \in Worlds /\ v.order = w.order /\ v.gateway = h
    BY <1>1, <2>3, <2>4 DEF Worlds
  <2> QED
    BY <2>4, <2>5, Zenon DEF v
<1> QED
  BY <1>2, <1>3, Zenon

(* Every notification about a settled payment keeps its order sound.       *)
LEMMA EvaluateSound ==
    ASSUME NEW o, NEW at \in Nat, NEW w, InTransaction(w, o, at), NEW t \in Txns
    PROVE  InTransaction(Evaluate(w, t, at), o, at)
<1>1. w \in Worlds /\ w.gateway.settled
  BY Zenon DEF InTransaction
<1>2. CASE t \in Recorded(w.gateway.ledger)
  BY <1>2, Zenon DEF Evaluate
<1>3. CASE t \notin Recorded(w.gateway.ledger) /\ t \in Misfits[w.order.kind]
  <2> DEFINE v == Stored(w, t, "mismatch")
  <2>1. /\ v \in Worlds /\ v.order = w.order
        /\ v.gateway.settled = w.gateway.settled /\ v.gateway.ledger = w.gateway.ledger
    BY <1>1, StoredTyped, Zenon
  <2> HIDE DEF v
  <2>2. InTransaction(v, o, at)
    BY <1>1, <2>1, Zenon DEF InTransaction
  <2> QED
    BY <1>1, <1>3, <2>2, Zenon DEF Evaluate, v
<1>4. CASE t \notin Recorded(w.gateway.ledger) /\ t \notin Misfits[w.order.kind]
  <2>1. InTransaction(RecordOnOrder(w, t, at), o, at)
    BY <1>4, RecordOnOrderSound, Zenon
  <2> QED
    BY <1>1, <1>4, <2>1, Zenon DEF Evaluate
<1> QED
  BY <1>2, <1>3, <1>4, Zenon

(* g is what a replay of the held rows passes through, row by row.         *)
Replays(g, known, held, at) ==
    /\ g[0] = known
    /\ \A i \in 1..Len(held) : g[i] = Evaluate(g[i - 1], held[i], at)

(* The replay is one evaluation after another, from the first row held to  *)
(* the last.                                                               *)
LEMMA ReplayedSteps ==
    ASSUME NEW known, NEW held, Len(held) \in Nat, NEW at
    PROVE  \E g : Replays(g, known, held, at) /\ Replayed(known, held, at) = g[Len(held)]
<1> DEFINE Good(g, n) ==
             g = [i \in 0..n |-> IF i = 0 THEN known ELSE Evaluate(g[i - 1], held[i], at)]
           F == CHOOSE g : Good(g, Len(held))
<1>1. Replayed(known, held, at) = F[Len(held)]
  BY DEF Replayed
<1>2. \E g : Good(g, Len(held))
  <2> SUFFICES ASSUME ~\E g : Good(g, Len(held)) PROVE FALSE
    OBVIOUS
  <2> DEFINE T == {n \in Nat : ~\E g : Good(g, n)}
  <2>1. PICK m \in T : \A n \in T : m <= n
    BY LeastNat, Zenon
  <2>2. Good([i \in 0..0 |-> known], 0)
    OBVIOUS
  <2>3. m \in Nat /\ ~\E g : Good(g, m)
    BY <2>1
  <2>4. m # 0
    BY <2>2, <2>3, Zenon
  <2>5. m - 1 \in Nat /\ m - 1 \notin T
    <3> HIDE DEF T
    <3> QED
      BY <2>1, <2>3, <2>4
  <2>6. PICK g : Good(g, m - 1)
    BY <2>5
  <2> DEFINE h == [i \in 0..m |-> IF i = m THEN Evaluate(g[m - 1], held[m], at) ELSE g[i]]
  <2>7. Good(h, m)
    BY <2>3, <2>4, <2>5, <2>6, SMTT(60)
  <2> QED
    BY <2>1, <2>7, Zenon
<1>3. Good(F, Len(held))
  BY <1>2, SMTT(60)
<1>4. Replays(F, known, held, at)
  <2> HIDE DEF F
  <2> QED
    BY <1>3 DEF Replays
<1> QED
  BY <1>1, <1>4, Zenon

(* And so keeps a settled order sound to its end.                          *)
LEMMA ReplayedSound ==
    ASSUME NEW o, NEW at \in Nat, NEW known, InTransaction(known, o, at),
           NEW held \in Seq(Txns)
    PROVE  InTransaction(Replayed(known, held, at), o, at)
<1>1. Len(held) \in Nat /\ \A i \in 1..Len(held) : held[i] \in Txns
  OBVIOUS
<1>2. PICK g : Replays(g, known, held, at) /\ Replayed(known, held, at) = g[Len(held)]
  BY <1>1, ReplayedSteps, Zenon
<1> DEFINE T == {n \in 0..Len(held) : ~InTransaction(g[n], o, at)}
<1>3. T = {}
  <2> SUFFICES ASSUME T # {} PROVE FALSE
    OBVIOUS
  <2>1. T \in SUBSET Nat
    BY <1>1
  <2>2. PICK m \in T : \A n \in T : m <= n
    BY <2>1, LeastNat, Zenon
  <2>3. m \in 0..Len(held) /\ ~InTransaction(g[m], o, at)
    OBVIOUS
  <2>4. m # 0
    BY <1>2, <2>3, Zenon DEF Replays
  <2>5. m \in 1..Len(held) /\ m - 1 \in 0..Len(held) /\ ~(m <= m - 1)
    BY <1>1, <2>3, <2>4
  <2>6. InTransaction(g[m - 1], o, at)
    BY <2>2, <2>5
  <2>7. g[m] = Evaluate(g[m - 1], held[m], at) /\ held[m] \in Txns
    BY <1>1, <1>2, <2>5, Zenon DEF Replays
  <2> QED
    BY <2>3, <2>6, <2>7, EvaluateSound, Zenon
<1>4. Len(held) \in 0..Len(held)
  BY <1>1
<1> QED
  BY <1>2, <1>3, <1>4, Zenon

(* A transaction's instant is later than every row's.                      *)
LEMMA NextAtLater ==
    ASSUME NEW g, Countable(g.ledger)
    PROVE  NextAt(g) \in Nat /\ \A r \in g.ledger : r.at < NextAt(g)
<1> DEFINE T == {0} \union {r.at : r \in g.ledger}
<1>1. \A r \in g.ledger : r.at \in Nat
  BY DEF Countable, LedgerRows
<1>2. PICK n \in Nat : \A r \in g.ledger : r.at <= n
  BY Zenon DEF Countable
<1>3. T \in SUBSET Nat /\ T # {} /\ \A x \in T : x <= n
  BY <1>1, <1>2
<1>4. \A r \in g.ledger : r.at \in T
  OBVIOUS
<1>5. NextAt(g) = 1 + Max(T)
  BY Zenon DEF NextAt
<1> HIDE DEF T
<1>6. PICK m \in T : \A x \in T : x <= m
  BY <1>3, GreatestNat, Zenon
<1>7. m \in Nat /\ \A x \in T : x \in Nat /\ m >= x
  BY <1>3, <1>6
<1>8. Max(T) \in T /\ \A x \in T : Max(T) >= x
  BY <1>6, <1>7, Zenon DEF Max
<1>9. Max(T) \in Nat
  BY <1>3, <1>8, Zenon
<1> QED
  BY <1>1, <1>4, <1>5, <1>8, <1>9

(* An order that is sound between transactions is sound as one starts.     *)
LEMMA TransactionStart ==
    ASSUME NEW o \in Rows, NEW g \in Books, g.settled, o.state # "pending_payment",
           Countable(g.ledger), RefundSound(o, g.ledger), StockSound(o, g.ledger)
    PROVE  InTransaction([order |-> o, gateway |-> g], o, NextAt(g))
<1> DEFINE w == [order |-> o, gateway |-> g]
<1>1. NextAt(g) \in Nat /\ \A r \in g.ledger : r.at < NextAt(g) /\ r.at \in Nat
  BY NextAtLater, SMTT(60) DEF Countable, LedgerRows
<1>2. \A r \in g.ledger : r.at <= NextAt(g) /\ r.at # NextAt(g)
  BY <1>1
<1>3. InstantSound(o, g.ledger, NextAt(g))
  BY <1>2, Zenon DEF InstantSound, Replaced
<1>4. Sound(o, g.ledger, NextAt(g))
  BY <1>3, Zenon DEF Sound
<1>5. w \in Worlds /\ w.order = o /\ w.gateway = g
  BY DEF Worlds
<1> QED
  BY <1>4, <1>5, Zenon DEF InTransaction

(* The Completed notification's tail leaves a sound order.                 *)
LEMMA SettledSound ==
    ASSUME NEW o \in Rows, o.state # "pending_payment", gateway \in Books,
           Countable(gateway.ledger), RefundSound(o, gateway.ledger),
           StockSound(o, gateway.ledger)
    PROVE  InTransaction(SettleVerifiedPayment(o), o, NextAt(gateway))
<1> DEFINE g == [gateway EXCEPT !.settled = TRUE]
<1>1. g \in Books /\ g.settled /\ g.ledger = gateway.ledger /\ gateway.held \in Seq(Txns)
  BY Zenon DEF Books
<1>2. SettleVerifiedPayment(o) = Replayed([order |-> o, gateway |-> g], gateway.held, NextAt(gateway))
  BY Zenon DEF SettleVerifiedPayment
<1>3. NextAt(g) = NextAt(gateway) /\ NextAt(gateway) \in Nat
  BY <1>1, NextAtLater, Zenon DEF NextAt
<1> HIDE DEF g
<1>4. InTransaction([order |-> o, gateway |-> g], o, NextAt(gateway))
  BY <1>1, <1>3, TransactionStart, Zenon
<1> QED
  BY <1>1, <1>2, <1>3, <1>4, ReplayedSound, Zenon

(* Moves between the states that are neither an end nor the beginning.     *)
LEMMA MoveSound ==
    ASSUME NEW o, NEW p, NEW L, RefundSound(o, L), StockSound(o, L),
           o.state \notin {"pending_payment", "cancelled", "refunded_external"},
           p.state \notin {"pending_payment", "cancelled", "refunded_external"},
           p.kind = o.kind, p.receipt = o.receipt, p.refund = o.refund,
           p.reversed = o.reversed, p.review = o.review, p.note = o.note, p.sold = o.sold
    PROVE  RefundSound(p, L) /\ StockSound(p, L)
<1>1. ManualExternal(p, L) <=> ManualExternal(o, L)
  BY Zenon DEF ManualExternal
<1>2. Adopted(p, L) <=> Adopted(o, L)
  BY Zenon DEF Adopted
<1>3. o.state # "refunded_external" /\ p.state # "refunded_external"
  OBVIOUS
<1>4. Matches(o, o.state) => Matches(p, p.state)
  BY DEF Matches
<1>5. RefundSound(p, L)
  BY <1>1, <1>3, Zenon DEF RefundSound
<1>6. StockSound(p, L)
  BY <1>2, <1>3, <1>4, Zenon DEF StockSound
<1> QED
  BY <1>5, <1>6, Zenon

(* The receipt transaction: a waiting order gets its stock.                *)
LEMMA ConfirmedSound ==
    ASSUME NEW o \in Rows, o.state = "pending_payment", NEW delivered \in BOOLEAN,
           NEW L, RefundSound(o, L), opened \subseteq LinesOf[o.kind]
    PROVE  LET p == Confirmed(o, delivered)
           IN /\ p \in Rows /\ p.kind = o.kind /\ p.handed = o.handed /\ p.receipt
              /\ p.state \in {"paid", "delivered"}
              /\ RefundSound(p, L) /\ StockSound(p, L)
<1> DEFINE p == Confirmed(o, delivered)
<1>1. LinesOf[o.kind] \in SUBSET Lines
  BY DEF Rows, Lines
<1> DEFINE state == IF delivered THEN "delivered" ELSE "paid"
<1>2. state \in States /\ state \in {"paid", "delivered"}
  BY DEF States
<1>3. p = [o EXCEPT !.state = state, !.receipt = TRUE, !.sold = LinesOf[o.kind],
                    !.instant = delivered]
  BY Zenon DEF Confirmed
<1> HIDE DEF p, state
<1>4. /\ p \in Rows /\ p.kind = o.kind /\ p.handed = o.handed /\ p.receipt /\ p.state = state
      /\ p.refund = o.refund /\ p.reversed = o.reversed /\ p.review = o.review
      /\ p.note = o.note /\ p.sold = LinesOf[o.kind]
  BY <1>1, <1>2, <1>3, Zenon DEF Rows
<1>5. ManualExternal(p, L) <=> ManualExternal(o, L)
  BY <1>4, Zenon DEF ManualExternal
<1>6. p.state # "refunded_external" /\ p.state # "cancelled" /\ o.state # "refunded_external"
  BY <1>2, <1>4
<1>7. RefundSound(p, L)
  BY <1>4, <1>5, <1>6, Zenon DEF RefundSound
<1>8. StockSound(p, L)
  BY <1>4, <1>6, Zenon DEF StockSound, Matches
<1> QED
  BY <1>2, <1>4, <1>7, <1>8, Zenon DEF p

-----------------------------------------------------------------------------
(* The inductive invariant.                                                *)

(* The order row and PayPal's ledger of it.                                *)
OrderInv ==
    /\ order \in Rows /\ gateway \in Books /\ Countable(gateway.ledger)
    /\ RefundSound(order, gateway.ledger)
    /\ StockSound(order, gateway.ledger)
    /\ gateway.settled => order.state # "pending_payment"
    /\ ~gateway.settled => gateway.ledger = {}
    /\ order.state = "pending_payment" => ~order.receipt

TermRows == [version : Nat \ {0}, place : Nat]

(* A version number names one row of a listing's details, the newest is in *)
(* force until a clear, and a pinned row is still the one of its number.   *)
PickupInv ==
    /\ terms \in [Lines -> [last : Nat, cleared : BOOLEAN, edits : Nat, rows : SUBSET TermRows]]
    /\ pinned \in [Lines -> TermRows \union {NoRow}]
    /\ \A l \in Lines :
         /\ \A r \in terms[l].rows : r.version <= terms[l].last
         /\ \A r, q \in terms[l].rows : r.version = q.version => r = q
         /\ ~terms[l].cleared /\ terms[l].rows # {} =>
              \E r \in terms[l].rows : r.version = terms[l].last
         /\ pinned[l].version <= terms[l].last
         /\ \A r \in terms[l].rows : r.version = pinned[l].version => r = pinned[l]
         /\ pinned[l] # NoRow => l \in OrderLines

(* Pins and opened lines are instant lines of a digital order.             *)
DigitalInv ==
    /\ catalogue = [l \in Lines |-> [last |-> catalogue[l].last, rows |-> catalogue[l].rows]]
    /\ \A l \in Lines : pins[l] # 0 => order.kind = "digital" /\ l \in InstantLines
    /\ opened \subseteq InstantLines
    /\ opened # {} => order.kind = "digital"
    /\ PayableIsDeliverable

Inv == OrderInv /\ PickupInv /\ DigitalInv

(* Lines of the order are lines.                                           *)
LEMMA OrderLinesTyped ==
    ASSUME order \in Rows
    PROVE  OrderLines \in SUBSET Lines /\ InstantLines \in SUBSET OrderLines
BY DEF Rows, OrderLines, Lines, InstantLines

(* A placed order satisfies it.                                            *)
LEMMA InitInv == Init => Inv
<1> SUFFICES ASSUME Init PROVE Inv
  OBVIOUS
<1>1. PICK kind \in DOMAIN LinesOf : 
      /\ order = Placed(kind)
      /\ gateway = NotSeen
      /\ \E kept \in SUBSET LinesOf[kind] :
           /\ kept # {} => kind = "pickup"
           /\ terms = [l \in Lines |-> IF l \in kept THEN FirstTerms ELSE NoTerms]
      /\ pinned = [l \in Lines |-> NoRow]
      /\ catalogue = [l \in Lines |-> FirstVersion(lineKind[l])]
      /\ pins = [l \in Lines |-> 0]
      /\ opened = {}
  BY Zenon DEF Init
<1>2. OrderInv
  <2>1. gateway.ledger = {} /\ ~gateway.settled /\ gateway \in Books
    BY <1>1, SMTT(60) DEF NotSeen, Books
  <2>2. Countable({}) /\ Effective({}) = 0 /\ OutstandingReversal({}) = 0
    <3>1. Countable({}) /\ \A s : Amount({}, s) = 0
      BY AmountNone, Zenon
    <3> QED
      BY <3>1, Totals
  <2>3. /\ order \in Rows /\ order.state = "pending_payment" /\ ~order.receipt
        /\ order.refund = NoRefund /\ ~order.reversed /\ order.note = "none"
    BY <1>1, SMTT(60) DEF Placed, Rows, States, Returns, NoRefund, OwnTxn
  <2>4. Total \in Nat /\ Total # 0
    BY TotalAssumption
  <2>5. ~(0 >= Total) /\ ~(0 > 0)
    BY <2>4
  <2>6. RefundSound(order, {})
    BY <2>2, <2>3, <2>5, SMTT(60) DEF RefundSound, ManualExternal
  <2>7. StockSound(order, {})
    BY <2>3, Zenon DEF StockSound
  <2> QED
    BY <2>1, <2>2, <2>3, <2>6, <2>7, Zenon DEF OrderInv
<1>3. PickupInv
  BY <1>1, SMTT(60) DEF PickupInv, FirstTerms, NoTerms, NoRow, TermRows
<1>4. DigitalInv
  <2>1. order \in Rows
    BY <1>2, Zenon DEF OrderInv
  <2>2. ASSUME NEW l \in InstantLines PROVE \E r \in Live(catalogue[l].rows) : r.kind = lineKind[l]
    <3>1. l \in Lines
      BY <2>1, OrderLinesTyped
    <3>2. catalogue[l].rows = {[version |-> 1, kind |-> lineKind[l], live |-> TRUE]}
      BY <1>1, <3>1, SMTT(60) DEF FirstVersion
    <3> DEFINE r == [version |-> 1, kind |-> lineKind[l], live |-> TRUE]
    <3>3. r.live /\ r.kind = lineKind[l]
      OBVIOUS
    <3> HIDE DEF r
    <3>4. r \in Live(catalogue[l].rows)
      BY <3>2, <3>3, Zenon DEF Live, r
    <3> QED
      BY <3>3, <3>4, Zenon
  <2>3. PayableIsDeliverable
    BY <2>2, Zenon DEF PayableIsDeliverable, Unpinnable
  <2>4. catalogue = [l \in Lines |-> [last |-> catalogue[l].last, rows |-> catalogue[l].rows]]
    BY <1>1, SMTT(60) DEF FirstVersion
  <2> QED
    BY <1>1, <2>3, <2>4 DEF DigitalInv
<1> QED
  BY <1>2, <1>3, <1>4, Zenon DEF Inv

-----------------------------------------------------------------------------
(* What an action leaves alone.                                            *)

(* The order row and its ledger.                                           *)
LEMMA OrderFrame ==
    ASSUME OrderInv, UNCHANGED <<order, gateway, opened>>
    PROVE  OrderInv'
BY SMTT(60)
DEF OrderInv, RefundSound, StockSound, Matches, Adopted, ManualExternal, Replaced, Recorded

(* The pickup details and the pinned copies.                               *)
LEMMA PickupFrame ==
    ASSUME PickupInv, order'.kind = order.kind, UNCHANGED <<terms, pinned>>
    PROVE  PickupInv'
BY SMTT(60) DEF PickupInv, OrderLines

(* The deliverables and what was opened of them.                           *)
LEMMA DigitalFrame ==
    ASSUME DigitalInv, order'.kind = order.kind,
           order'.state = "pending_payment" => order.state = "pending_payment",
           UNCHANGED <<lineKind, catalogue, pins, opened>>
    PROVE  DigitalInv'
<1>1. InstantLines' = InstantLines
  BY DEF InstantLines, OrderLines
<1>2. Unpinnable' <=> Unpinnable
  BY <1>1, Zenon DEF Unpinnable
<1>3. PayableIsDeliverable'
  BY <1>2, Zenon DEF DigitalInv, PayableIsDeliverable
<1> QED
  BY <1>1, <1>3, Zenon DEF DigitalInv

(* What every step of the order's own life keeps.                          *)
OrderKept ==
    /\ OrderInv'
    /\ order'.kind = order.kind
    /\ order'.state # "pending_payment"

Ended == {"pending_payment", "cancelled", "refunded_external"}

(* A move of the order's state keeps the row and the ledger in agreement.  *)
LEMMA OrderMoves ==
    ASSUME OrderInv, UNCHANGED <<gateway, opened>>, order' \in Rows,
           order.state \notin Ended, order'.state \notin Ended,
           order'.kind = order.kind, order'.receipt = order.receipt,
           order'.refund = order.refund, order'.reversed = order.reversed,
           order'.review = order.review, order'.note = order.note, order'.sold = order.sold
    PROVE  OrderKept
<1>1. RefundSound(order', gateway.ledger) /\ StockSound(order', gateway.ledger)
  BY MoveSound, Zenon DEF OrderInv, Ended
<1>2. StockSound(order, gateway.ledger)'
  BY <1>1, Zenon DEF StockSound, Matches, Adopted, ManualExternal, Replaced, Recorded
<1>3. RefundSound(order, gateway.ledger)'
  BY <1>1, Zenon DEF RefundSound
<1>4. order'.state # "pending_payment"
  BY DEF Ended
<1> QED
  BY <1>2, <1>3, <1>4, Zenon DEF OrderInv, OrderKept

(* ship, confirm_delivery, mark_ready, confirm_pickup.                     *)
LEMMA FulfilmentKeeps ==
    ASSUME OrderInv, UNCHANGED <<gateway, opened>>, Fulfilment
    PROVE  /\ OrderKept
           /\ \/ order'.handed = order.handed
              \/ \E who \in Parties : ConfirmPickup(who, TermsChanged)
<1>1. order \in Rows
  BY Zenon DEF OrderInv
<1>2. CASE Ship
  <2>1. /\ order' \in Rows /\ order.state \notin Ended /\ order'.state \notin Ended
        /\ order'.kind = order.kind /\ order'.receipt = order.receipt
        /\ order'.refund = order.refund /\ order'.reversed = order.reversed
        /\ order'.review = order.review /\ order'.note = order.note
        /\ order'.sold = order.sold /\ order'.handed = order.handed
    BY <1>1, <1>2 DEF Ship, Rows, States, Ended
  <2> QED
    BY <2>1, OrderMoves, Zenon
<1>3. CASE ConfirmDelivery
  <2>1. /\ order' \in Rows /\ order.state \notin Ended /\ order'.state \notin Ended
        /\ order'.kind = order.kind /\ order'.receipt = order.receipt
        /\ order'.refund = order.refund /\ order'.reversed = order.reversed
        /\ order'.review = order.review /\ order'.note = order.note
        /\ order'.sold = order.sold /\ order'.handed = order.handed
    BY <1>1, <1>3, Zenon DEF ConfirmDelivery, Rows, States, Ended
  <2> QED
    BY <2>1, OrderMoves, Zenon
<1>4. CASE MarkReady
  <2>1. /\ order' \in Rows /\ order.state \notin Ended /\ order'.state \notin Ended
        /\ order'.kind = order.kind /\ order'.receipt = order.receipt
        /\ order'.refund = order.refund /\ order'.reversed = order.reversed
        /\ order'.review = order.review /\ order'.note = order.note
        /\ order'.sold = order.sold /\ order'.handed = order.handed
    BY <1>1, <1>4 DEF MarkReady, Rows, States, Ended
  <2> QED
    BY <2>1, OrderMoves, Zenon
<1>5. ASSUME NEW who \in Parties, ConfirmPickup(who, TermsChanged)
      PROVE  OrderKept
  <2>1. /\ order' \in Rows /\ order.state \notin Ended /\ order'.state \notin Ended
        /\ order'.kind = order.kind /\ order'.receipt = order.receipt
        /\ order'.refund = order.refund /\ order'.reversed = order.reversed
        /\ order'.review = order.review /\ order'.note = order.note
        /\ order'.sold = order.sold
    BY <1>1, <1>5, Zenon DEF ConfirmPickup, Rows, States, Ended
  <2> QED
    BY <2>1, OrderMoves, Zenon
<1> QED
  BY <1>2, <1>3, <1>4, <1>5, Zenon DEF Fulfilment

(* The two sweeps.                                                         *)
LEMMA SweepsKeep ==
    ASSUME OrderInv, UNCHANGED <<gateway, opened>>, AssumeDelivered \/ CompleteDelivered
    PROVE  OrderKept /\ order'.handed = order.handed
<1>1. order \in Rows
  BY Zenon DEF OrderInv
<1>2. CASE AssumeDelivered
  <2>1. /\ order' \in Rows /\ order.state \notin Ended /\ order'.state \notin Ended
        /\ order'.kind = order.kind /\ order'.receipt = order.receipt
        /\ order'.refund = order.refund /\ order'.reversed = order.reversed
        /\ order'.review = order.review /\ order'.note = order.note
        /\ order'.sold = order.sold /\ order'.handed = order.handed
    BY <1>1, <1>2, Zenon DEF AssumeDelivered, Rows, States, Ended
  <2> QED
    BY <2>1, OrderMoves, Zenon
<1>3. CASE CompleteDelivered
  <2>1. /\ order' \in Rows /\ order.state \notin Ended /\ order'.state \notin Ended
        /\ order'.kind = order.kind /\ order'.receipt = order.receipt
        /\ order'.refund = order.refund /\ order'.reversed = order.reversed
        /\ order'.review = order.review /\ order'.note = order.note
        /\ order'.sold = order.sold /\ order'.handed = order.handed
    BY <1>1, <1>3 DEF CompleteDelivered, Rows, States, Ended
  <2> QED
    BY <2>1, OrderMoves, Zenon
<1> QED
  BY <1>2, <1>3, Zenon

(* A review completes a delivered order at most.                           *)
LEMMA ReviewKeeps ==
    ASSUME OrderInv, UNCHANGED <<gateway, opened>>, NEW who \in Reviewers, Review(who)
    PROVE  OrderKept /\ order'.handed = order.handed
<1>1. order \in Rows
  BY Zenon DEF OrderInv
<1>2. /\ order' \in Rows /\ order.state \notin Ended /\ order'.state \notin Ended
      /\ order'.kind = order.kind /\ order'.receipt = order.receipt
      /\ order'.refund = order.refund /\ order'.reversed = order.reversed
      /\ order'.review = order.review /\ order'.note = order.note
      /\ order'.sold = order.sold /\ order'.handed = order.handed
  BY <1>1, Zenon DEF Review, Rows, States, Ended
<1> QED
  BY <1>2, OrderMoves, Zenon

(* The seller marks a manual channel delivered.                            *)
LEMMA DeliverDigitalKeeps ==
    ASSUME OrderInv, UNCHANGED gateway, NEW channel, DeliverDigital(channel)
    PROVE  OrderKept /\ order'.handed = order.handed
<1>1. order \in Rows /\ UNCHANGED opened
  BY Zenon DEF OrderInv, DeliverDigital
<1>2. /\ order' \in Rows /\ order.state \notin Ended /\ order'.state \notin Ended
      /\ order'.kind = order.kind /\ order'.receipt = order.receipt
      /\ order'.refund = order.refund /\ order'.reversed = order.reversed
      /\ order'.review = order.review /\ order'.note = order.note
      /\ order'.sold = order.sold /\ order'.handed = order.handed
  BY <1>1, Zenon DEF DeliverDigital, Rows, States, Ended
<1> QED
  BY <1>1, <1>2, OrderMoves, Zenon

(* A cancellation restocks every line but the opened ones.                 *)
LEMMA OrderCancelled ==
    ASSUME OrderInv, UNCHANGED <<gateway, opened>>, order' \in Rows,
           order.state # "refunded_external", order'.state = "cancelled",
           order'.kind = order.kind, order'.receipt = order.receipt,
           order'.refund = order.refund, order'.reversed = order.reversed,
           order'.review = order.review, order'.note = order.note,
           order.receipt => order'.sold = opened
    PROVE  OrderKept
<1>1. order'.state # "pending_payment" /\ order'.state # "refunded_external"
  OBVIOUS
<1>2. RefundSound(order, gateway.ledger) /\ gateway' = gateway
  BY Zenon DEF OrderInv
<1>3. ManualExternal(order', gateway.ledger) <=> ManualExternal(order, gateway.ledger)
  BY Zenon DEF ManualExternal
<1>4. RefundSound(order', gateway.ledger)
  BY <1>1, <1>2, <1>3, Zenon DEF RefundSound
<1>5. RefundSound(order, gateway.ledger)'
  BY <1>2, <1>4, Zenon DEF RefundSound
<1>6. StockSound(order, gateway.ledger)'
  BY <1>1, SMTT(60) DEF StockSound, Matches
<1> QED
  BY <1>1, <1>5, <1>6, Zenon DEF OrderInv, OrderKept

(* request_cancel, approve_cancel and the return path.                     *)
LEMMA WithdrawalKeeps ==
    ASSUME OrderInv, DigitalInv, UNCHANGED <<gateway, opened>>, Withdrawal
    PROVE  OrderKept /\ order'.handed = order.handed
<1>1. /\ order \in Rows /\ (order.state = "pending_payment" => ~order.receipt)
      /\ StockSound(order, gateway.ledger)
  BY Zenon DEF OrderInv
<1>2. ASSUME NEW atOnce, RequestCancel(atOnce)
      PROVE  OrderKept /\ order'.handed = order.handed
  <2>1. CASE /\ order.state = "pending_payment"
             /\ order' = [order EXCEPT !.state = "cancelled"]
    <3>1. /\ order' \in Rows /\ order.state # "refunded_external" /\ order'.state = "cancelled"
          /\ order'.kind = order.kind /\ order'.receipt = order.receipt
          /\ order'.refund = order.refund /\ order'.reversed = order.reversed
          /\ order'.review = order.review /\ order'.note = order.note
          /\ order'.handed = order.handed
      BY <1>1, <2>1 DEF Rows, States
    <3> QED
      BY <1>1, <2>1, <3>1, OrderCancelled, Zenon
  <2>2. CASE /\ order.kind = "pickup"
             /\ order.state \in {"paid", "ready_for_pickup"}
             /\ order' = [order EXCEPT !.state = "cancelled", !.sold = {}]
    <3>1. opened = {}
      BY <2>2 DEF DigitalInv
    <3>2. /\ order' \in Rows /\ order.state # "refunded_external" /\ order'.state = "cancelled"
          /\ order'.kind = order.kind /\ order'.receipt = order.receipt
          /\ order'.refund = order.refund /\ order'.reversed = order.reversed
          /\ order'.review = order.review /\ order'.note = order.note
          /\ order'.handed = order.handed /\ order'.sold = {}
      BY <1>1, <2>2, Zenon DEF Rows, States
    <3> QED
      BY <3>1, <3>2, OrderCancelled, Zenon
  <2>3. CASE /\ order.state \in {"paid", "processing", "ready_for_pickup"}
             /\ order' = [order EXCEPT !.state = "cancel_requested"]
    <3>1. /\ order' \in Rows /\ order.state \notin Ended /\ order'.state \notin Ended
          /\ order'.kind = order.kind /\ order'.receipt = order.receipt
          /\ order'.refund = order.refund /\ order'.reversed = order.reversed
          /\ order'.review = order.review /\ order'.note = order.note
          /\ order'.sold = order.sold /\ order'.handed = order.handed
      BY <1>1, <2>3 DEF Rows, States, Ended
    <3> QED
      BY <3>1, OrderMoves, Zenon
  <2> QED
    BY <1>2, <2>1, <2>2, <2>3, Zenon DEF RequestCancel
<1>3. CASE ApproveCancel(opened \intersect InstantLines)
  <2>1. order.receipt => order.sold \intersect (opened \intersect InstantLines) = opened
    <3>1. opened \subseteq InstantLines
      BY Zenon DEF DigitalInv
    <3>2. order.receipt => opened \subseteq order.sold
      BY <1>1, Zenon DEF StockSound
    <3> QED
      BY <3>1, <3>2
  <2> DEFINE kept == order.sold \intersect (opened \intersect InstantLines)
  <2>2. kept \in SUBSET Lines
    BY <1>1 DEF Rows
  <2>3. order.state = "cancel_requested" /\ order' = [order EXCEPT !.state = "cancelled", !.sold = kept]
    BY <1>3, Zenon DEF ApproveCancel
  <2> HIDE DEF kept
  <2>4. /\ order' \in Rows /\ order.state # "refunded_external" /\ order'.state = "cancelled"
        /\ order'.kind = order.kind /\ order'.receipt = order.receipt
        /\ order'.refund = order.refund /\ order'.reversed = order.reversed
        /\ order'.review = order.review /\ order'.note = order.note
        /\ order'.handed = order.handed /\ order'.sold = kept
    BY <1>1, <2>2, <2>3, Zenon DEF Rows, States
  <2> QED
    BY <2>1, <2>4, OrderCancelled, Zenon DEF kept
<1>4. CASE RequestReturn
  <2>1. /\ order' \in Rows /\ order.state \notin Ended /\ order'.state \notin Ended
        /\ order'.kind = order.kind /\ order'.receipt = order.receipt
        /\ order'.refund = order.refund /\ order'.reversed = order.reversed
        /\ order'.review = order.review /\ order'.note = order.note
        /\ order'.sold = order.sold /\ order'.handed = order.handed
    BY <1>1, <1>4, Zenon DEF RequestReturn, Rows, States, Returns, Ended
  <2> QED
    BY <2>1, OrderMoves, Zenon
<1>5. CASE ApproveReturn
  <2>1. /\ order' \in Rows /\ order.state \notin Ended /\ order'.state \notin Ended
        /\ order'.kind = order.kind /\ order'.receipt = order.receipt
        /\ order'.refund = order.refund /\ order'.reversed = order.reversed
        /\ order'.review = order.review /\ order'.note = order.note
        /\ order'.sold = order.sold /\ order'.handed = order.handed
    BY <1>1, <1>5, Zenon DEF ApproveReturn, Rows, States, Returns, Ended
  <2> QED
    BY <2>1, OrderMoves, Zenon
<1>6. CASE ReceiveReturn
  <2>1. /\ order' \in Rows /\ order.state \notin Ended /\ order'.state \notin Ended
        /\ order'.kind = order.kind /\ order'.receipt = order.receipt
        /\ order'.refund = order.refund /\ order'.reversed = order.reversed
        /\ order'.review = order.review /\ order'.note = order.note
        /\ order'.sold = order.sold /\ order'.handed = order.handed
    BY <1>1, <1>6, Zenon DEF ReceiveReturn, Rows, States, Returns, Ended
  <2> QED
    BY <2>1, OrderMoves, Zenon
<1> QED
  BY <1>2, <1>3, <1>4, <1>5, <1>6, Zenon DEF Withdrawal

(* The seller's own record: from then on the refund is manual.             *)
LEMMA SellerRefundKeeps ==
    ASSUME OrderInv, UNCHANGED <<gateway, opened>>, SellerRefund
    PROVE  OrderKept /\ order'.handed = order.handed
<1> DEFINE L == gateway.ledger
<1>1. order \in Rows /\ RefundSound(order, L) /\ StockSound(order, L) /\ Countable(L)
  BY Zenon DEF OrderInv
<1>2. PICK txn \in RefundIds, amount \in 1..Total : RecordExternalRefund(txn, amount, Recorded(L))
  BY Zenon DEF SellerRefund
<1>3. /\ txn \in Nat /\ txn \notin Recorded(L)
      /\ txn \in Txns => Notice[txn].status = "Refunded"
  <2>1. Sent[order.kind] \subseteq Txns
    BY <1>1, NoticeAssumption, SMTT(60) DEF Rows
  <2>2. OwnTxn \notin Txns /\ OwnTxn \in Nat /\ Txns \subseteq Nat
    BY NoticeAssumption, SMTT(60) DEF OwnTxn
  <2>3. Recorded(L) \subseteq Txns
    BY <1>1, SMTT(60) DEF Recorded, Countable, LedgerRows
  <2> QED
    BY <2>1, <2>2, <2>3 DEF RefundIds
<1> DEFINE refund == [txn |-> txn, amount |-> amount]
           ret == IF order.ret = "none" THEN order.ret ELSE "refunded"
<1>4. refund \in [txn : Nat, amount : Nat] /\ refund # NoRefund /\ refund.txn = txn
  <2>1. amount \in Nat /\ amount # 0
    BY <1>2, TotalAssumption
  <2> QED
    BY <1>3, <2>1, SMTT(60) DEF NoRefund
<1>5. ret \in Returns
  BY <1>1 DEF Rows, Returns
<1>6. order' = [order EXCEPT !.state = "refunded_external", !.refund = refund, !.ret = ret,
                             !.note = "refunded"]
  BY <1>2, Zenon DEF RecordExternalRefund
<1> HIDE DEF refund, ret
<1>7. /\ order' \in Rows /\ order'.state = "refunded_external" /\ order'.refund = refund
      /\ order'.kind = order.kind /\ order'.receipt = order.receipt
      /\ order'.reversed = order.reversed /\ order'.review = order.review
      /\ order'.note = "refunded" /\ order'.sold = order.sold /\ order'.handed = order.handed
  BY <1>1, <1>4, <1>5, <1>6, Zenon DEF Rows, States
<1>8. ManualExternal(order', L)
  BY <1>3, <1>4, <1>7, Zenon DEF ManualExternal
<1>9. RefundSound(order', L)
  BY <1>1, <1>3, <1>4, <1>7, <1>8, Zenon DEF RefundSound
<1>10. StockSound(order', L)
  BY <1>1, <1>7, <1>8, Zenon DEF StockSound
<1>11. RefundSound(order, L)' /\ StockSound(order, L)'
  BY <1>9, <1>10, Zenon DEF RefundSound, StockSound, Matches, Adopted
<1> QED
  BY <1>7, <1>11, SMTT(60) DEF OrderInv, OrderKept

(* What a transaction on a settled payment commits.                        *)
LEMMA TransactionEnd ==
    ASSUME NEW w, NEW o, NEW at, InTransaction(w, o, at),
           order' = w.order, gateway' = w.gateway, UNCHANGED opened
    PROVE  /\ OrderInv'
           /\ order'.kind = o.kind /\ order'.handed = o.handed
           /\ order'.state # "pending_payment"
<1>1. /\ order' \in Rows /\ gateway' \in Books /\ gateway'.settled
      /\ order'.kind = o.kind /\ order'.handed = o.handed
      /\ Sound(order', gateway'.ledger, at)
  BY Zenon DEF InTransaction, Worlds
<1>2. /\ order'.state # "pending_payment" /\ Countable(gateway'.ledger)
      /\ RefundSound(order', gateway'.ledger) /\ StockSound(order', gateway'.ledger)
  BY <1>1, Zenon DEF Sound
<1>3. RefundSound(order, gateway.ledger)' /\ StockSound(order, gateway.ledger)'
  BY <1>2, Zenon DEF RefundSound, StockSound, Matches, Adopted
<1> QED
  BY <1>1, <1>2, <1>3, Zenon DEF OrderInv

(* The details in force are the newest row.                                *)
LEMMA CurrentIsLast ==
    ASSUME PickupInv, NEW l \in Lines
    PROVE  \/ CurrentDetails(l) = NoRow
           \/ CurrentDetails(l) \in terms[l].rows /\ CurrentDetails(l).version = terms[l].last
<1>1. CASE terms[l].cleared \/ terms[l].rows = {}
  BY <1>1, Zenon DEF CurrentDetails
<1>2. CASE ~(terms[l].cleared \/ terms[l].rows = {})
  <2>1. PICK r \in terms[l].rows : r.version = terms[l].last
    BY <1>2, Zenon DEF PickupInv
  <2>2. \A q \in terms[l].rows : q.version <= r.version
    BY <2>1, Zenon DEF PickupInv
  <2>3. /\ CurrentDetails(l) \in terms[l].rows
        /\ \A q \in terms[l].rows : q.version <= CurrentDetails(l).version
    BY <1>2, <2>2, Zenon DEF CurrentDetails
  <2>4. /\ terms[l].last \in Nat /\ CurrentDetails(l).version \in Nat
        /\ CurrentDetails(l).version <= terms[l].last
    BY <2>3 DEF PickupInv, TermRows
  <2>5. terms[l].last <= CurrentDetails(l).version
    BY <2>1, <2>3, Zenon
  <2>6. CurrentDetails(l).version = terms[l].last
    BY <2>4, <2>5
  <2> QED
    BY <2>3, <2>6, Zenon
<1> QED
  BY <1>1, <1>2, Zenon

(* The receipt pins the details in force.                                  *)
LEMMA PinPickupKeeps ==
    ASSUME PickupInv, PinPickupLines, UNCHANGED terms, order'.kind = order.kind
    PROVE  PickupInv'
<1>1. CASE order.kind # "pickup"
  BY <1>1, PickupFrame DEF PinPickupLines
<1>2. CASE order.kind = "pickup"
  <2> DEFINE Now(l) == IF l \in OrderLines THEN CurrentDetails(l) ELSE NoRow
  <2>1. pinned' = [l \in Lines |-> Now(l)]
    BY <1>2, Zenon DEF PinPickupLines
  <2>2. ASSUME NEW l \in Lines
        PROVE  /\ Now(l) \in TermRows \union {NoRow}
               /\ Now(l).version <= terms[l].last
               /\ \A r \in terms[l].rows : r.version = Now(l).version => r = Now(l)
               /\ Now(l) # NoRow => l \in OrderLines
    <3>1. /\ terms[l].rows \subseteq TermRows /\ terms[l].last \in Nat
          /\ \A r, q \in terms[l].rows : r.version = q.version => r = q
      BY SMTT(60) DEF PickupInv
    <3>2. CASE Now(l) = NoRow
      <4> HIDE DEF Now
      <4> QED
        BY <3>1, <3>2, SMTT(60) DEF NoRow, TermRows
    <3>3. CASE Now(l) # NoRow
      <4>1. Now(l) = CurrentDetails(l) /\ l \in OrderLines
        BY <3>3, Zenon
      <4>2. Now(l) \in terms[l].rows /\ Now(l).version = terms[l].last
        BY <3>3, <4>1, CurrentIsLast, Zenon
      <4> HIDE DEF Now
      <4> QED
        BY <3>1, <4>1, <4>2, SMTT(60)
    <3> QED
      BY <3>2, <3>3, Zenon
  <2> HIDE DEF Now
  <2>3. OrderLines' = OrderLines
    BY DEF OrderLines
  <2>4. pinned' \in [Lines -> TermRows \union {NoRow}] /\ \A l \in Lines : pinned'[l] = Now(l)
    BY <2>1, <2>2
  <2> QED
    BY <2>2, <2>3, <2>4, Zenon DEF PickupInv
<1> QED
  BY <1>1, <1>2, Zenon

(* And the instant lines of a digital order.                               *)
LEMMA PinDigitalKeeps ==
    ASSUME DigitalInv, PinDigitalLines, UNCHANGED <<lineKind, catalogue, opened>>,
           order'.kind = order.kind, order'.state # "pending_payment"
    PROVE  DigitalInv'
<1>1. InstantLines' = InstantLines
  BY SMTT(60) DEF InstantLines, OrderLines
<1>2. \A l \in Lines : pins'[l] # 0 => order.kind = "digital" /\ l \in InstantLines
  BY DEF DigitalInv, PinDigitalLines
<1>3. PayableIsDeliverable'
  BY Zenon DEF PayableIsDeliverable
<1> QED
  BY <1>1, <1>2, <1>3, Zenon DEF DigitalInv

(* PayPal's Completed notification, first or again: the receipt, and then  *)
(* the replay of every refund notification that was held for it.           *)
LEMMA PaymentCompletedKeeps ==
    ASSUME Inv, PaymentCompleted
    PROVE  Inv' /\ order'.handed = order.handed
<1> DEFINE o == IF Payable THEN Confirmed(order, AllLinesInstant) ELSE order
           w == SettleVerifiedPayment(o)
<1>1. /\ OrderInv /\ PickupInv /\ DigitalInv
      /\ order \in Rows /\ gateway \in Books /\ Countable(gateway.ledger)
      /\ RefundSound(order, gateway.ledger) /\ StockSound(order, gateway.ledger)
  BY Zenon DEF Inv, OrderInv
<1>2. /\ order' = w.order /\ gateway' = w.gateway
      /\ IF Payable THEN PinPickupLines /\ PinDigitalLines ELSE UNCHANGED <<pinned, pins>>
      /\ UNCHANGED <<terms, reveal, lineKind, catalogue, opened, address, marked>>
  BY Zenon DEF PaymentCompleted
<1>3. /\ o \in Rows /\ o.kind = order.kind /\ o.handed = order.handed
      /\ o.state # "pending_payment"
      /\ RefundSound(o, gateway.ledger) /\ StockSound(o, gateway.ledger)
  <2>1. CASE Payable
    <3>1. opened \subseteq LinesOf[order.kind]
      BY <1>1 DEF DigitalInv, InstantLines, OrderLines
    <3>2. order.state = "pending_payment" /\ AllLinesInstant \in BOOLEAN
      BY <2>1, Zenon DEF Payable, AllLinesInstant
    <3> DEFINE p == Confirmed(order, AllLinesInstant)
    <3>3. /\ p \in Rows /\ p.kind = order.kind /\ p.handed = order.handed
          /\ p.state \in {"paid", "delivered"}
          /\ RefundSound(p, gateway.ledger) /\ StockSound(p, gateway.ledger)
      BY <1>1, <3>1, <3>2, ConfirmedSound, Zenon
    <3>4. p.state # "pending_payment"
      BY <3>3
    <3>5. o = p
      BY <2>1, Zenon
    <3> HIDE DEF o, p
    <3> QED
      BY <3>3, <3>4, <3>5, Zenon
  <2>2. CASE ~Payable
    <3>1. order.state # "pending_payment"
      BY <1>1, <2>2, Zenon DEF Payable, DigitalInv, PayableIsDeliverable
    <3>2. o = order
      BY <2>2, Zenon
    <3> HIDE DEF o
    <3> QED
      BY <1>1, <3>1, <3>2, Zenon
  <2> QED
    BY <2>1, <2>2, Zenon
<1> HIDE DEF o
<1>4. InTransaction(w, o, NextAt(gateway))
  BY <1>1, <1>3, SettledSound, Zenon
<1> HIDE DEF w
<1>5. /\ OrderInv' /\ order'.kind = order.kind /\ order'.handed = order.handed
      /\ order'.state # "pending_payment"
  BY <1>2, <1>3, <1>4, TransactionEnd, Zenon
<1>6. PickupInv'
  <2>1. CASE Payable
    BY <1>1, <1>2, <1>5, <2>1, PinPickupKeeps, Zenon
  <2>2. CASE ~Payable
    BY <1>1, <1>2, <1>5, <2>2, PickupFrame, Zenon
  <2> QED
    BY <2>1, <2>2, Zenon
<1>7. DigitalInv'
  <2>1. CASE Payable
    BY <1>1, <1>2, <1>5, <2>1, PinDigitalKeeps, Zenon
  <2>2. CASE ~Payable
    BY <1>1, <1>2, <1>5, <2>2, DigitalFrame, Zenon
  <2> QED
    BY <2>1, <2>2, Zenon
<1> QED
  BY <1>5, <1>6, <1>7, Zenon DEF Inv

(* The seller attests the payment.                                         *)
LEMMA SellerConfirmsKeeps ==
    ASSUME Inv, SellerConfirms
    PROVE  Inv' /\ order'.handed = order.handed
<1>1. /\ OrderInv /\ PickupInv /\ DigitalInv
      /\ order \in Rows /\ gateway \in Books /\ Countable(gateway.ledger)
      /\ RefundSound(order, gateway.ledger)
      /\ (gateway.settled => order.state # "pending_payment")
      /\ (~gateway.settled => gateway.ledger = {})
  BY Zenon DEF Inv, OrderInv
<1>2. /\ order.state = "pending_payment" /\ order' = Confirmed(order, AllLinesInstant)
      /\ PinPickupLines /\ PinDigitalLines
      /\ UNCHANGED <<gateway, terms, reveal, lineKind, catalogue, opened, address, marked>>
  BY Zenon DEF SellerConfirms, Payable
<1>3. opened \subseteq LinesOf[order.kind] /\ AllLinesInstant \in BOOLEAN
  BY <1>1, SMTT(60) DEF DigitalInv, InstantLines, OrderLines, AllLinesInstant
<1>4. /\ order' \in Rows /\ order'.kind = order.kind /\ order'.handed = order.handed
      /\ order'.state \in {"paid", "delivered"}
      /\ RefundSound(order', gateway.ledger) /\ StockSound(order', gateway.ledger)
  BY <1>1, <1>2, <1>3, ConfirmedSound, Zenon
<1>5. order'.state # "pending_payment"
  BY <1>4
<1>6. RefundSound(order, gateway.ledger)' /\ StockSound(order, gateway.ledger)'
  BY <1>2, <1>4, Zenon DEF RefundSound, StockSound, Matches, Adopted
<1>7. OrderInv'
  BY <1>1, <1>2, <1>4, <1>5, <1>6, Zenon DEF OrderInv
<1>8. PickupInv'
  BY <1>1, <1>2, <1>4, PinPickupKeeps, Zenon
<1>9. DigitalInv'
  BY <1>1, <1>2, <1>4, <1>5, PinDigitalKeeps, Zenon
<1> QED
  BY <1>4, <1>7, <1>8, <1>9, Zenon DEF Inv

(* A refund notification, known parent or not.                             *)
LEMMA ReceiveNoticeKeeps ==
    ASSUME Inv, NEW t \in Sent[order.kind], ReceiveNotice(t),
           UNCHANGED <<pickupVars, digitalVars>>
    PROVE  Inv' /\ order'.handed = order.handed
<1> DEFINE known == [order |-> order, gateway |-> gateway]
           w == Evaluate(known, t, NextAt(gateway))
<1>1. /\ OrderInv /\ PickupInv /\ DigitalInv
      /\ order \in Rows /\ gateway \in Books /\ Countable(gateway.ledger)
      /\ RefundSound(order, gateway.ledger) /\ StockSound(order, gateway.ledger)
      /\ (gateway.settled => order.state # "pending_payment")
      /\ (~gateway.settled => gateway.ledger = {})
      /\ (order.state = "pending_payment" => ~order.receipt)
  BY Zenon DEF Inv, OrderInv
<1>2. t \in Txns
  BY <1>1, NoticeAssumption, SMTT(60) DEF Rows
<1>3. order' = w.order /\ gateway' = w.gateway
  BY Zenon DEF ReceiveNotice
<1>4. UNCHANGED <<terms, pinned, lineKind, catalogue, pins, opened>>
  BY Zenon DEF pickupVars, digitalVars
<1>5. known \in Worlds /\ known.order = order /\ known.gateway = gateway
  BY <1>1, SMTT(60) DEF Worlds
<1>6. /\ OrderInv' /\ order'.kind = order.kind /\ order'.handed = order.handed
      /\ order'.state = "pending_payment" => order.state = "pending_payment"
  <2>1. CASE gateway.settled
    <3>1. InTransaction(known, order, NextAt(gateway))
      BY <1>1, <2>1, TransactionStart, Zenon
    <3>2. NextAt(gateway) \in Nat
      BY <1>1, NextAtLater, Zenon
    <3> HIDE DEF known
    <3>3. InTransaction(w, order, NextAt(gateway))
      BY <1>2, <3>1, <3>2, EvaluateSound, Zenon
    <3> HIDE DEF w
    <3> QED
      BY <1>3, <1>4, <3>3, TransactionEnd, Zenon
  <2>2. CASE ~gateway.settled
    <3> HIDE DEF known
    <3>1. t \notin Recorded(known.gateway.ledger)
      BY <1>1, <1>5, <2>2, SMTT(60) DEF Recorded
    <3>2. w = Stored(known, t, "unknown_parent")
      BY <1>5, <2>2, <3>1, Zenon DEF Evaluate
    <3> HIDE DEF w
    <3>3. /\ w \in Worlds /\ w.order = order
          /\ w.gateway.settled = gateway.settled /\ w.gateway.ledger = gateway.ledger
      BY <1>2, <1>5, <3>2, StoredTyped, Zenon
    <3>4. /\ order' = order /\ gateway' \in Books
          /\ gateway'.settled = gateway.settled /\ gateway'.ledger = gateway.ledger
      BY <1>3, <3>3, Zenon DEF Worlds
    <3>5. RefundSound(order, gateway.ledger)' /\ StockSound(order, gateway.ledger)'
      BY <1>1, <1>4, <3>4, Zenon DEF RefundSound, StockSound, Matches, Adopted
    <3>6. OrderInv'
      BY <1>1, <3>4, <3>5, Zenon DEF OrderInv
    <3> QED
      BY <3>4, <3>6, Zenon
  <2> QED
    BY <2>1, <2>2, Zenon
<1>7. PickupInv'
  BY <1>1, <1>4, <1>6, PickupFrame, Zenon
<1>8. DigitalInv'
  BY <1>1, <1>4, <1>6, DigitalFrame, Zenon
<1> QED
  BY <1>6, <1>7, <1>8, Zenon DEF Inv

(* set and clear of the pickup details.                                    *)
LEMMA PickupDetailsKeep ==
    ASSUME Inv, PickupDetails, UNCHANGED <<order, gateway, digitalVars>>
    PROVE  Inv'
<1>1. OrderInv /\ PickupInv /\ DigitalInv /\ order \in Rows
  BY Zenon DEF Inv, OrderInv
<1>2. UNCHANGED <<lineKind, catalogue, pins, opened>>
  BY Zenon DEF digitalVars
<1>3. OrderInv'
  BY <1>1, <1>2, OrderFrame, Zenon
<1>4. DigitalInv'
  BY <1>1, <1>2, DigitalFrame, Zenon
<1>5. OrderLines \subseteq Lines /\ OrderLines' = OrderLines
  BY <1>1, OrderLinesTyped, SMTT(60) DEF OrderLines
<1>6. ASSUME NEW l \in OrderLines, SetDetails(l) PROVE PickupInv'
  <2> DEFINE b == terms[l]
             new == [version |-> b.last + 1, place |-> b.edits + 1]
             c == [last |-> b.last + 1, cleared |-> FALSE, edits |-> b.edits + 1,
                   rows |-> b.rows \union {new}]
  <2>1. l \in Lines /\ terms' = [terms EXCEPT ![l] = c] /\ pinned' = pinned
    BY <1>5, <1>6, SMTT(60) DEF SetDetails
  <2>2. /\ b.last \in Nat /\ b.edits \in Nat /\ b.rows \subseteq TermRows
        /\ \A r \in b.rows : r.version <= b.last
        /\ \A r, q \in b.rows : r.version = q.version => r = q
        /\ pinned[l].version <= b.last /\ pinned[l].version \in Nat
        /\ \A r \in b.rows : r.version = pinned[l].version => r = pinned[l]
    BY <1>1, <2>1, SMTT(60) DEF PickupInv, TermRows, NoRow
  <2> HIDE DEF b
  <2>3. /\ c \in [last : Nat, cleared : BOOLEAN, edits : Nat, rows : SUBSET TermRows]
        /\ c.rows = b.rows \union {new} /\ c.last = b.last + 1
        /\ new.version = b.last + 1
    BY <2>2, SMTT(60) DEF TermRows
  <2> HIDE DEF c, new
  <2>4. /\ \A r \in c.rows : r.version <= c.last
        /\ \A r, q \in c.rows : r.version = q.version => r = q
        /\ \E r \in c.rows : r.version = c.last
        /\ pinned[l].version <= c.last
        /\ \A r \in c.rows : r.version = pinned[l].version => r = pinned[l]
    BY <2>2, <2>3, SMTT(60) DEF TermRows
  <2>5. /\ terms' \in [Lines -> [last : Nat, cleared : BOOLEAN, edits : Nat, rows : SUBSET TermRows]]
        /\ terms'[l] = c /\ \A k \in Lines : k # l => terms'[k] = terms[k]
    BY <1>1, <2>1, <2>3, SMTT(60) DEF PickupInv
  <2>6. ASSUME NEW k \in Lines
        PROVE /\ \A r \in terms'[k].rows : r.version <= terms'[k].last
              /\ \A r, q \in terms'[k].rows : r.version = q.version => r = q
              /\ ~terms'[k].cleared /\ terms'[k].rows # {} =>
                   \E r \in terms'[k].rows : r.version = terms'[k].last
              /\ pinned[k].version <= terms'[k].last
              /\ \A r \in terms'[k].rows : r.version = pinned[k].version => r = pinned[k]
              /\ pinned[k] # NoRow => k \in OrderLines
    <3>1. CASE k = l
      BY <2>4, <2>5, <3>1, Zenon
    <3>2. CASE k # l
      BY <1>1, <2>5, <3>2, Zenon DEF PickupInv
    <3> QED
      BY <3>1, <3>2, Zenon
  <2> QED
    BY <1>1, <1>5, <2>1, <2>5, <2>6, Zenon DEF PickupInv
<1>7. ASSUME NEW l \in OrderLines, ClearDetails(l) PROVE PickupInv'
  <2> DEFINE kept == {r \in terms[l].rows : /\ r.version = pinned[l].version
                                            /\ order.receipt
                                            /\ order.state \notin Terminal}
             c == [terms[l] EXCEPT !.cleared = TRUE, !.rows = kept]
  <2>1. l \in Lines /\ terms' = [terms EXCEPT ![l] = c] /\ pinned' = pinned
    BY <1>1, <1>5, <1>7, Zenon DEF ClearDetails, PickupInv
  <2>2. kept \subseteq terms[l].rows
    BY SMTT(60)
  <2> HIDE DEF kept
  <2>3. /\ c \in [last : Nat, cleared : BOOLEAN, edits : Nat, rows : SUBSET TermRows]
        /\ c.rows \subseteq terms[l].rows /\ c.last = terms[l].last /\ c.cleared
    <3> DEFINE b == terms[l]
    <3>1. /\ b \in [last : Nat, cleared : BOOLEAN, edits : Nat, rows : SUBSET TermRows]
          /\ kept \in SUBSET TermRows
      BY <1>1, <2>1, <2>2 DEF PickupInv
    <3> HIDE DEF b
    <3>2. [b EXCEPT !.cleared = TRUE, !.rows = kept]
            \in [last : Nat, cleared : BOOLEAN, edits : Nat, rows : SUBSET TermRows]
      BY <3>1, Zenon
    <3>3. /\ [b EXCEPT !.cleared = TRUE, !.rows = kept].rows = kept
          /\ [b EXCEPT !.cleared = TRUE, !.rows = kept].last = b.last
          /\ [b EXCEPT !.cleared = TRUE, !.rows = kept].cleared = TRUE
      BY <3>1
    <3> QED
      BY <2>2, <3>2, <3>3 DEF b
  <2> HIDE DEF c
  <2>4. /\ terms' \in [Lines -> [last : Nat, cleared : BOOLEAN, edits : Nat, rows : SUBSET TermRows]]
        /\ terms'[l] = c /\ \A k \in Lines : k # l => terms'[k] = terms[k]
    BY <1>1, <2>1, <2>3, SMTT(60) DEF PickupInv
  <2>5. ASSUME NEW k \in Lines
        PROVE /\ \A r \in terms'[k].rows : r.version <= terms'[k].last
              /\ \A r, q \in terms'[k].rows : r.version = q.version => r = q
              /\ ~terms'[k].cleared /\ terms'[k].rows # {} =>
                   \E r \in terms'[k].rows : r.version = terms'[k].last
              /\ pinned[k].version <= terms'[k].last
              /\ \A r \in terms'[k].rows : r.version = pinned[k].version => r = pinned[k]
              /\ pinned[k] # NoRow => k \in OrderLines
    <3>1. CASE k = l
      BY <1>1, <2>1, <2>3, <2>4, <3>1, SMTT(60) DEF PickupInv
    <3>2. CASE k # l
      BY <1>1, <2>4, <3>2, Zenon DEF PickupInv
    <3> QED
      BY <3>1, <3>2, Zenon
  <2> QED
    BY <1>1, <1>5, <2>1, <2>4, <2>5, Zenon DEF PickupInv
<1>8. ASSUME StartReveal \/ StampReveal PROVE PickupInv'
  BY <1>1, <1>8, PickupFrame, Zenon DEF StartReveal, StampReveal
<1>9. PickupInv'
  BY <1>6, <1>7, <1>8, Zenon DEF PickupDetails
<1> QED
  BY <1>3, <1>4, <1>9, Zenon DEF Inv

(* set and clear of the deliverables, downloads, the delivery address.     *)
LEMMA DeliverablesKeep ==
    ASSUME Inv, Deliverables, UNCHANGED <<order, gateway, pickupVars>>
    PROVE  Inv'
<1>1. /\ OrderInv /\ PickupInv /\ DigitalInv /\ order \in Rows /\ order.kind = "digital"
      /\ RefundSound(order, gateway.ledger) /\ StockSound(order, gateway.ledger)
      /\ Countable(gateway.ledger)
  BY Zenon DEF Inv, OrderInv, Deliverables
<1>2. PickupInv'
  BY <1>1, PickupFrame, Zenon DEF pickupVars
<1>3. /\ OrderLines \subseteq Lines /\ InstantLines \subseteq OrderLines
      /\ OrderLines' = OrderLines
  BY <1>1, OrderLinesTyped, SMTT(60) DEF OrderLines
<1>4. ASSUME NEW l \in OrderLines, NEW kind, SetDelivery(l, kind)
      PROVE  OrderInv' /\ DigitalInv'
  <2> DEFINE version == catalogue[l].last + 1
             new == [version |-> version, kind |-> kind, live |-> TRUE]
             c == [last |-> version, rows |-> Superseded(l) \union {new}]
  <2>1. /\ catalogue' = [catalogue EXCEPT ![l] = c]
        /\ (\E r \in Live(catalogue[l].rows) : r.kind # kind) => ~ListingInUse
        /\ UNCHANGED <<lineKind, pins, opened>>
    BY <1>4, Zenon DEF SetDelivery
  <2>2. new.live /\ new.kind = kind /\ new \in c.rows
    BY SMTT(60)
  <2>3. new \in Live(c.rows)
    BY <2>2, Zenon DEF Live
  <2>4. c = [last |-> c.last, rows |-> c.rows]
    BY SMTT(60)
  <2> HIDE DEF new, c
  <2>5. /\ catalogue'[l] = c /\ \A k \in Lines : k # l => catalogue'[k] = catalogue[k]
        /\ catalogue' = [k \in Lines |-> [last |-> catalogue'[k].last, rows |-> catalogue'[k].rows]]
    <3>1. DOMAIN catalogue = Lines /\ \A k \in Lines : catalogue[k] = [last |-> catalogue[k].last, rows |-> catalogue[k].rows]
      BY <1>1, SMTT(60) DEF DigitalInv
    <3>2. /\ catalogue' = [k \in Lines |-> IF k = l THEN c ELSE catalogue[k]]
          /\ l \in Lines
      BY <1>3, <2>1, <3>1, Zenon
    <3> QED
      BY <2>4, <3>1, <3>2
  <2>6. InstantLines' = InstantLines
    BY <2>1 DEF InstantLines, OrderLines
  <2>7. ASSUME order.state = "pending_payment", NEW k \in InstantLines
        PROVE  \E r \in Live(catalogue'[k].rows) : r.kind = lineKind[k]
    <3>1. PICK r \in Live(catalogue[k].rows) : r.kind = lineKind[k]
      BY <1>1, <2>7, Zenon DEF DigitalInv, PayableIsDeliverable, Unpinnable
    <3>2. CASE k = l
      <4>1. ListingInUse
        BY <1>1, <2>7, Zenon DEF ListingInUse
      <4>2. r.kind = kind
        BY <2>1, <3>1, <3>2, <4>1, Zenon
      <4> QED
        BY <2>2, <2>3, <2>5, <3>1, <3>2, <4>2, Zenon
    <3>3. CASE k # l
      <4>1. k \in Lines
        BY <1>3, <2>7
      <4> QED
        BY <2>5, <3>1, <3>3, <4>1, Zenon
    <3> QED
      BY <3>2, <3>3, Zenon
  <2>8. PayableIsDeliverable'
    BY <2>1, <2>6, <2>7, Zenon DEF PayableIsDeliverable, Unpinnable
  <2>9. DigitalInv'
    BY <1>1, <2>1, <2>5, <2>6, <2>8, Zenon DEF DigitalInv
  <2> QED
    BY <1>1, <2>1, <2>9, OrderFrame, Zenon
<1>5. ASSUME NEW l \in OrderLines, ClearDelivery(l)
      PROVE  OrderInv' /\ DigitalInv'
  <2>1. /\ order.state # "pending_payment" /\ UNCHANGED <<lineKind, pins, opened>>
        /\ catalogue' = [catalogue EXCEPT ![l].rows = Superseded(l)]
    BY <1>1, <1>5, Zenon DEF ClearDelivery, ListingInUse
  <2>2. catalogue' = [k \in Lines |-> [last |-> catalogue'[k].last, rows |-> catalogue'[k].rows]]
    <3> DEFINE c == [last |-> catalogue[l].last, rows |-> Superseded(l)]
    <3>1. /\ DOMAIN catalogue = Lines
          /\ \A k \in Lines : catalogue[k] = [last |-> catalogue[k].last, rows |-> catalogue[k].rows]
      BY <1>1 DEF DigitalInv
    <3>2. l \in Lines
      BY <1>3
    <3>3. [catalogue[l] EXCEPT !.rows = Superseded(l)] = c
      BY <3>1, <3>2
    <3>4. catalogue' = [catalogue EXCEPT ![l] = c]
      BY <2>1, <3>3, Zenon
    <3>5. c = [last |-> c.last, rows |-> c.rows]
      OBVIOUS
    <3> HIDE DEF c
    <3>6. catalogue' = [k \in Lines |-> IF k = l THEN c ELSE catalogue[k]]
      BY <3>1, <3>2, <3>4, Zenon
    <3> QED
      BY <3>1, <3>5, <3>6
  <2>3. InstantLines' = InstantLines
    BY <2>1 DEF InstantLines, OrderLines
  <2>4. PayableIsDeliverable'
    BY <2>1, Zenon DEF PayableIsDeliverable
  <2>5. DigitalInv'
    BY <1>1, <2>1, <2>2, <2>3, <2>4, Zenon DEF DigitalInv
  <2> QED
    BY <1>1, <2>1, <2>5, OrderFrame, Zenon
<1>6. ASSUME NEW l \in OrderLines, Download(l)
      PROVE  OrderInv' /\ DigitalInv'
  <2>1. /\ pins[l] # 0 /\ order.receipt /\ order.state \notin DigitalEnded
        /\ order.refund = NoRefund
        /\ opened' = opened \union {l} /\ UNCHANGED <<lineKind, catalogue, pins>>
    BY <1>6, Zenon DEF Download, MayDownload, Entitled, PaymentTakenBack
  <2>2. l \in InstantLines
    BY <1>1, <1>3, <2>1 DEF DigitalInv
  <2>3. order.state # "cancelled" /\ order.state # "refunded_external"
    BY <2>1 DEF DigitalEnded
  <2>4. Effective(gateway.ledger) = 0
    BY <1>1, <2>1, Zenon DEF RefundSound
  <2>5. ~Adopted(order, gateway.ledger)
    <3> DEFINE a == Amount(gateway.ledger, "Refunded")
               b == OutstandingReversal(gateway.ledger)
    <3>1. a \in Nat /\ b \in Nat /\ Effective(gateway.ledger) = a + b
      BY <1>1, Totals, Zenon
    <3> HIDE DEF a, b
    <3>2. ~(a > 0)
      BY <2>4, <3>1
    <3> QED
      BY <3>2, Zenon DEF Adopted, a
  <2>6. order.sold = LinesOf[order.kind] /\ opened \subseteq order.sold
    BY <1>1, <2>1, <2>3, <2>5, Zenon DEF StockSound, Matches
  <2>7. l \in order.sold
    BY <1>3, <2>2, <2>6 DEF OrderLines
  <2>8. StockSound(order, gateway.ledger)'
    <3>1. opened' \subseteq order.sold
      BY <2>1, <2>6, <2>7
    <3> QED
      BY <2>3, <2>6, <3>1, Zenon DEF StockSound, Matches
  <2>9. RefundSound(order, gateway.ledger)'
    BY <1>1, Zenon DEF RefundSound
  <2>10. OrderInv'
    BY <1>1, <2>8, <2>9, Zenon DEF OrderInv
  <2>11. InstantLines' = InstantLines
    BY <2>1 DEF InstantLines, OrderLines
  <2>12. PayableIsDeliverable'
    BY <1>1, <2>1, <2>11, Zenon DEF DigitalInv, PayableIsDeliverable, Unpinnable
  <2>13. opened' \subseteq InstantLines
    BY <1>1, <2>1, <2>2 DEF DigitalInv
  <2>14. DigitalInv'
    BY <1>1, <2>1, <2>11, <2>12, <2>13, Zenon DEF DigitalInv
  <2> QED
    BY <2>10, <2>14, Zenon
<1>7. ASSUME SetDeliveryEmail \/ PurgeDeliveryEmail PROVE OrderInv' /\ DigitalInv'
  BY <1>1, <1>7, OrderFrame, DigitalFrame, Zenon DEF SetDeliveryEmail, PurgeDeliveryEmail
<1>8. OrderInv' /\ DigitalInv'
  BY <1>4, <1>5, <1>6, <1>7, Zenon DEF Deliverables
<1> QED
  BY <1>2, <1>8, Zenon DEF Inv

(* Every step keeps the invariant, and only a confirmed pickup changes who *)
(* handed the order over.                                                  *)
LEMMA InvNext ==
    ASSUME Inv, Next
    PROVE  /\ Inv'
           /\ \/ order'.handed = order.handed
              \/ \E who \in Parties : ConfirmPickup(who, TermsChanged)
<1>1. CASE PaymentCompleted
  BY <1>1, PaymentCompletedKeeps, Zenon
<1>2. CASE SellerConfirms
  BY <1>2, SellerConfirmsKeeps, Zenon
<1>3. ASSUME OrderKept, UNCHANGED <<lineKind, catalogue, pins, opened, terms, pinned>>
      PROVE  Inv'
  BY <1>3, PickupFrame, DigitalFrame, Zenon DEF Inv, OrderKept
<1>4. CASE /\ Fulfilment \/ Withdrawal \/ SellerRefund \/ \E who \in Reviewers : Review(who)
           /\ UNCHANGED <<gateway, pickupVars, digitalVars>>
  <2>1. UNCHANGED <<gateway, lineKind, catalogue, pins, opened, terms, pinned>>
    BY <1>4, Zenon DEF pickupVars, digitalVars
  <2>2. OrderInv /\ DigitalInv
    BY Zenon DEF Inv
  <2>3. /\ OrderKept
        /\ \/ order'.handed = order.handed
           \/ \E who \in Parties : ConfirmPickup(who, TermsChanged)
    BY <1>4, <2>1, <2>2, FulfilmentKeeps, WithdrawalKeeps, SellerRefundKeeps, ReviewKeeps, Zenon
  <2> QED
    BY <1>3, <2>1, <2>3, Zenon
<1>5. CASE Sweeps
  <2>1. UNCHANGED <<gateway, lineKind, catalogue, pins, opened, terms, pinned>>
    BY <1>5, Zenon DEF Sweeps, pickupVars, digitalVars
  <2>2. OrderKept /\ order'.handed = order.handed
    BY <1>5, <2>1, SweepsKeep, Zenon DEF Sweeps, Inv
  <2> QED
    BY <1>3, <2>1, <2>2, Zenon
<1>6. CASE \E t \in Sent[order.kind] : ReceiveNotice(t) /\ UNCHANGED <<pickupVars, digitalVars>>
  BY <1>6, ReceiveNoticeKeeps, Zenon
<1>7. CASE PickupDetails /\ UNCHANGED <<order, gateway, digitalVars>>
  BY <1>7, PickupDetailsKeep, Zenon
<1>8. CASE Deliverables /\ UNCHANGED <<order, gateway, pickupVars>>
  BY <1>8, DeliverablesKeep, Zenon
<1>9. CASE \E channel \in ManualKinds : DeliverDigital(channel) /\ UNCHANGED <<gateway, pickupVars>>
  <2>1. PICK channel \in ManualKinds : DeliverDigital(channel) /\ UNCHANGED <<gateway, pickupVars>>
    BY <1>9, Zenon
  <2>2. UNCHANGED <<lineKind, catalogue, pins, opened, terms, pinned>>
    BY <2>1, Zenon DEF DeliverDigital, pickupVars
  <2>3. OrderKept /\ order'.handed = order.handed
    BY <2>1, DeliverDigitalKeeps, Zenon DEF Inv
  <2> QED
    BY <1>3, <2>2, <2>3, Zenon
<1> QED
  BY <1>1, <1>2, <1>4, <1>5, <1>6, <1>7, <1>8, <1>9, Zenon DEF Next

(* Stuttering keeps it too.                                                *)
LEMMA InvStutters ==
    ASSUME Inv, UNCHANGED vars
    PROVE  Inv'
<1>1. UNCHANGED <<order, gateway, terms, pinned, lineKind, catalogue, pins, opened>>
  BY Zenon DEF vars, pickupVars, digitalVars
<1> QED
  BY <1>1, OrderFrame, PickupFrame, DigitalFrame, Zenon DEF Inv

(* The invariant holds throughout.                                         *)
THEOREM PostPurchaseInvariant == Spec => []Inv
<1>1. Inv /\ [Next]_vars => Inv'
  BY InvNext, InvStutters, Zenon
<1> QED
  BY <1>1, InitInv, PTL DEF Spec

(* record_on_order: in whatever order PayPal's notifications arrive, are   *)
(* repeated, held or replayed, the order's refund columns say what the     *)
(* ledger adds up to, or a person was asked to look.                       *)
THEOREM RefundsAlwaysAgree == Spec => []RefundsAgree
<1>1. Inv => RefundsAgree
  BY Zenon DEF Inv, OrderInv, RefundSound, RefundsAgree
<1> QED
  BY <1>1, PostPurchaseInvariant, PTL

(* payment_taken_back: no line downloads and no address is read while any  *)
(* of the money is back with the buyer.                                    *)
THEOREM TakenBackIsWithheld == Spec => []WithheldWhenTakenBack
<1>1. ASSUME Inv PROVE WithheldWhenTakenBack
  <2> SUFFICES ASSUME Entitled PROVE Effective(gateway.ledger) = 0 /\ order.note # "refunded"
    BY Zenon DEF WithheldWhenTakenBack, MayDownload, SellerMayReadAddress
  <2>1. RefundSound(order, gateway.ledger)
    BY <1>1, Zenon DEF Inv, OrderInv
  <2>2. order.state \notin DigitalEnded /\ order.refund = NoRefund
    BY Zenon DEF Entitled, PaymentTakenBack
  <2>3. order.state # "refunded_external"
    BY <2>2 DEF DigitalEnded
  <2> QED
    BY <2>1, <2>2, <2>3, Zenon DEF RefundSound
<1> QED
  BY <1>1, PostPurchaseInvariant, PTL

(* releasable_lines: sold units return to stock only through a             *)
(* cancellation, and never an opened line.                                 *)
THEOREM StockAlwaysFollowsOrder == Spec => []StockFollowsOrder
<1>1. ASSUME Inv PROVE StockFollowsOrder
  <2>1. StockSound(order, gateway.ledger)
    BY <1>1, Zenon DEF Inv, OrderInv
  <2>2. CASE order.state = "refunded_external"
    BY <2>1, <2>2, SMTT(60) DEF StockSound, StockFollowsOrder
  <2>3. CASE order.state # "refunded_external"
    <3>1. Adopted(order, gateway.ledger) /\ order.note = "refund_reversal_cancelled"
            => RestoredUnderReview
      BY Zenon DEF Adopted, RestoredUnderReview
    <3>2. Matches(order, order.state) =>
            /\ order.state \notin {"cancelled", "refunded_external"} => order.sold = OrderLines
            /\ order.state = "cancelled" => order.sold = opened
      BY DEF Matches, OrderLines
    <3> QED
      BY <2>1, <2>3, <3>1, <3>2, Zenon DEF StockSound, StockFollowsOrder
  <2> QED
    BY <2>2, <2>3, Zenon
<1> QED
  BY <1>1, PostPurchaseInvariant, PTL

(* unpinnable is unreachable: what is being paid for stays on offer.       *)
THEOREM PayableAlwaysDeliverable == Spec => []PayableIsDeliverable
<1>1. Inv => PayableIsDeliverable
  BY Zenon DEF Inv, DigitalInv
<1> QED
  BY <1>1, PostPurchaseInvariant, PTL

(* confirm_pickup: a seller hands over only where every pinned place is    *)
(* the one in force, for any number of edits and clears in between.        *)
THEOREM HandoversOnPinnedTerms == Spec => HandoverOnPinnedTerms
<1> DEFINE Step == order'.handed = "seller" /\ order.handed # "seller" =>
                     \A l \in Lines : pinned[l] # NoRow => CurrentDetails(l).place = pinned[l].place
<1>1. ASSUME Inv, Next PROVE Step
  <2> SUFFICES ASSUME order'.handed = "seller", order.handed # "seller",
                      NEW l \in Lines, pinned[l] # NoRow
               PROVE  CurrentDetails(l).place = pinned[l].place
    OBVIOUS
  <2>1. order \in Rows /\ PickupInv
    BY <1>1, Zenon DEF Inv, OrderInv
  <2>2. PICK who \in Parties : ConfirmPickup(who, TermsChanged)
    BY <1>1, InvNext, Zenon
  <2>3. who = "seller" /\ order.kind = "pickup"
    BY <2>1, <2>2 DEF ConfirmPickup, Rows
  <2>4. ~TermsChanged
    BY <2>2, <2>3, Zenon DEF ConfirmPickup
  <2>5. l \in OrderLines
    BY <2>1, Zenon DEF PickupInv
  <2>6. CurrentDetails(l) # NoRow /\ ~(CurrentDetails(l).version > pinned[l].version)
    BY <2>3, <2>4, <2>5, Zenon DEF TermsChanged
  <2>7. CurrentDetails(l) \in terms[l].rows /\ CurrentDetails(l).version = terms[l].last
    BY <2>1, <2>6, CurrentIsLast, Zenon
  <2>8. /\ terms[l].last \in Nat /\ pinned[l].version \in Nat
        /\ pinned[l].version <= terms[l].last
    BY <2>1 DEF PickupInv, TermRows, NoRow
  <2>9. CurrentDetails(l).version = pinned[l].version
    BY <2>6, <2>7, <2>8
  <2>10. CurrentDetails(l) = pinned[l]
    BY <2>1, <2>7, <2>9, Zenon DEF PickupInv
  <2> QED
    BY <2>10, Zenon
<1>2. Inv /\ [Next]_vars => [Step]_vars
  BY <1>1, Zenon
<1>3. HandoverOnPinnedTerms <=> [][Step]_vars
  BY DEF HandoverOnPinnedTerms
<1> QED
  BY <1>2, <1>3, PostPurchaseInvariant, PTL DEF Spec

=============================================================================
