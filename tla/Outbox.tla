-------------------------------- MODULE Outbox --------------------------------
(***************************************************************************)
(* The outbox of crates/service/src/workers.rs and what one order's Paykit *)
(* request makes of it: notification intents, paykit.activate rows written *)
(* by a bind and paykit.void rows written by a cancel.  A worker claims a  *)
(* batch by stamping a lease on its rows and keeps the claimed copies in   *)
(* memory; a row whose lease lapsed may be claimed again while the first   *)
(* claimant still works on its copy.                                       *)
(*                                                                         *)
(* The Paykit stack is outside the repository.  An invoice of it is        *)
(* prepared, then published (observing) by an activation, or final once it *)
(* expired or was voided.  Money on a published invoice is the business of *)
(* module Settlement.                                                      *)
(***************************************************************************)
EXTENDS Naturals, Sequences, FiniteSets

CONSTANTS
    Deliverers, \* the workers that drain the outbox
    BatchSize,  \* OUTBOX_BATCH_SIZE
    MaxBinds    \* bound: how often the buyer binds the order to Paykit

ASSUME OutboxAssumption == BatchSize \in Nat \ {0} /\ MaxBinds \in Nat

VARIABLES
    outbox,     \* the rows in id order: [kind, of, status]
    claimed,    \* claimed[w]: ids of w's batch it has not come to yet
    step,       \* step[w]: the row w is working on and how far it is
    notified,   \* notified[k]: notifications inserted for the intent in row k
    order,      \* the order's Paykit columns: [state, activation, invoice]
    invoice,    \* invoice[i]: the i-th invoice as Paykit has it
    released    \* invoices recorded as released attempts, which stay polled

outboxVars == <<outbox, claimed, step, notified, order, invoice, released>>

Kinds == {"notice", "malformed", "activate", "void"}

(* A worker between two rows.                                              *)
NoStep == [row |-> 0, answer |-> "none"]

Ids == DOMAIN outbox

NewRow(kind, of) == [kind |-> kind, of |-> of, status |-> "open"]

(* An order not yet bound; or one cancelled before a cancel voided the     *)
(* order's request, which is still preparing.  One row is undeliverable.   *)
OutboxInit ==
    /\ \/ /\ outbox = <<NewRow("malformed", 0)>>
          /\ order = [state |-> "pending_payment", activation |-> "null", invoice |-> 0]
          /\ invoice = <<>>
       \/ /\ outbox = <<NewRow("malformed", 0), NewRow("activate", 1)>>
          /\ order = [state |-> "cancelled", activation |-> "preparing", invoice |-> 1]
          /\ invoice = <<"prepared">>
    /\ claimed = [w \in Deliverers |-> {}]
    /\ step = [w \in Deliverers |-> NoStep]
    /\ notified = [k \in DOMAIN outbox |-> 0]
    /\ released = {}

-----------------------------------------------------------------------------
(* Writers of rows.  Every one of them inserts in the transaction of the   *)
(* change it announces.                                                    *)

(* The counters of n more rows.                                            *)
Grown(n) == notified \o [k \in 1 .. n |-> 0]

(* void_preparing_request: undelivered activations are stamped delivered.  *)
Abandoned ==
    [k \in Ids |-> IF outbox[k].kind = "activate" /\ outbox[k].status # "delivered"
                   THEN [outbox[k] EXCEPT !.status = "delivered"]
                   ELSE outbox[k]]

(* The bind's commit: an unbound order takes the prepared invoice and the  *)
(* row that will publish it.                                               *)
Bind ==
    /\ order.state = "pending_payment"
    /\ order.activation \in {"null", "voided"}
    /\ Len(invoice) < MaxBinds
    /\ invoice' = Append(invoice, "prepared")
    /\ order' = [order EXCEPT !.activation = "preparing", !.invoice = Len(invoice) + 1]
    /\ outbox' = Append(outbox, NewRow("activate", Len(invoice) + 1))
    /\ notified' = Grown(1)
    /\ UNCHANGED <<claimed, step, released>>

(* The buyer's cancel of an unpaid order: a preparing request is voided,   *)
(* its attempt recorded, and the void and the notice are enqueued.         *)
CancelUnpaid ==
    /\ order.state = "pending_payment"
    /\ IF order.activation = "preparing"
       THEN /\ order' = [order EXCEPT !.state = "cancelled", !.activation = "voided"]
            /\ released' = released \cup {order.invoice}
            /\ outbox' = Abandoned \o
                         <<NewRow("notice", 0), NewRow("void", order.invoice)>>
            /\ notified' = Grown(2)
       ELSE /\ order' = [order EXCEPT !.state = "cancelled"]
            /\ outbox' = Append(outbox, NewRow("notice", 0))
            /\ notified' = Grown(1)
            /\ UNCHANGED released
    /\ UNCHANGED <<claimed, step, invoice>>

-----------------------------------------------------------------------------
(* Claims.                                                                 *)

Claimable == {k \in Ids : outbox[k].status = "open"}

(* ORDER BY id LIMIT OUTBOX_BATCH_SIZE.                                    *)
Batch ==
    {k \in Claimable : Cardinality({j \in Claimable : j < k}) < BatchSize}

Claim(w) ==
    /\ claimed' = [claimed EXCEPT ![w] = Batch]
    /\ outbox' = [k \in Ids |-> IF k \in Batch
                                THEN [outbox[k] EXCEPT !.status = "leased"]
                                ELSE outbox[k]]
    /\ UNCHANGED <<step, notified, order, invoice, released>>

AnyLeased == \E k \in Ids : outbox[k].status = "leased"

(* The time of the claims is up; their claimants do not notice.            *)
ClaimsLapse ==
    /\ AnyLeased
    /\ outbox' = [k \in Ids |-> IF outbox[k].status = "leased"
                                THEN [outbox[k] EXCEPT !.status = "open"]
                                ELSE outbox[k]]
    /\ UNCHANGED <<claimed, step, notified, order, invoice, released>>

(* The worker is done with its batch, or drops it with an error.           *)
Dropped(w) == claimed' = [claimed EXCEPT ![w] = {}] /\ step' = [step EXCEPT ![w] = NoStep]

Ready(w, k) == step[w] = NoStep /\ k \in claimed[w]

Taken(w, k) == claimed' = [claimed EXCEPT ![w] = @ \ {k}]

Stamped(k) == [outbox EXCEPT ![k].status = "delivered"]

-----------------------------------------------------------------------------
(* deliver_claimed, the notification arm.                                  *)

(* Faulty: the insert without ON CONFLICT.                                 *)
InsertsAgain(w, k) ==
    /\ Ready(w, k) /\ outbox[k].kind = "notice"
    /\ notified' = [notified EXCEPT ![k] = @ + 1]
    /\ outbox' = Stamped(k)
    /\ Taken(w, k)
    /\ UNCHANGED <<step, order, invoice, released>>

(* The insert, deduplicated by event and recipient, and the mark commit    *)
(* together.                                                               *)
Notify(w, k) ==
    /\ Ready(w, k) /\ outbox[k].kind = "notice"
    /\ notified' = [notified EXCEPT ![k] = IF @ = 0 THEN 1 ELSE @]
    /\ outbox' = Stamped(k)
    /\ Taken(w, k)
    /\ UNCHANGED <<step, order, invoice, released>>

(* Faulty: the undeliverable row is passed over and left as it is.         *)
PassesOver(w, k) ==
    /\ Ready(w, k) /\ outbox[k].kind = "malformed"
    /\ Taken(w, k)
    /\ UNCHANGED <<outbox, step, notified, order, invoice, released>>

(* A row that can never deliver is set aside unless it was delivered.      *)
Quarantine(w, k) ==
    /\ Ready(w, k) /\ outbox[k].kind = "malformed"
    /\ outbox' = [outbox EXCEPT ![k].status =
                     IF @ = "delivered" THEN @ ELSE "quarantined"]
    /\ Taken(w, k)
    /\ UNCHANGED <<step, notified, order, invoice, released>>

-----------------------------------------------------------------------------
(* deliver_paykit_activation.                                              *)

(* The first transaction: an order that left preparing needs nothing more, *)
(* one that is no longer payable is voided instead, and otherwise the call *)
(* is made with the order's persisted pin.                                 *)
BeginActivation(w, k) ==
    /\ Ready(w, k) /\ outbox[k].kind = "activate"
    /\ Taken(w, k)
    /\ CASE order.activation # "preparing" ->
             outbox' = Stamped(k) /\ UNCHANGED <<step, order, released, notified>>
         [] order.activation = "preparing" /\ order.state # "pending_payment" ->
             /\ order' = [order EXCEPT !.activation = "voided"]
             /\ released' = released \cup {order.invoice}
             /\ outbox' = Append(Abandoned, NewRow("void", order.invoice))
             /\ notified' = Grown(1)
             /\ UNCHANGED step
         [] OTHER ->
             /\ step' = [step EXCEPT ![w] = [row |-> k, answer |-> "awaited"]]
             /\ UNCHANGED <<outbox, order, released, notified>>
    /\ UNCHANGED invoice

(* What Paykit may do with an activation and answer: publish a prepared    *)
(* invoice, acknowledge a published one, refuse (finalized, unknown, a     *)
(* different total or stack, even in answer to a call that published), or  *)
(* leave the caller without an answer.                                     *)
ActivationOutcomes(i) ==
    CASE invoice[i] = "prepared" ->
           {<<"observing", "observing">>, <<"observing", "refused">>,
            <<"observing", "unavailable">>, <<"prepared", "refused">>,
            <<"prepared", "unavailable">>}
      [] invoice[i] = "observing" ->
           {"observing"} \X {"observing", "refused", "unavailable"}
      [] OTHER -> {"final"} \X {"refused", "unavailable"}

(* Paykit voids what is prepared and refuses to void what is published.    *)
(* Every other final answer, a refusal no retry mends included, is "ended".*)
VoidOutcomes(i) ==
    CASE invoice[i] = "prepared" ->
           {"prepared", "final"} \X {"ended", "unavailable"}
      [] invoice[i] = "observing" ->
           {"observing"} \X {"published", "ended", "unavailable"}
      [] OTHER -> {"final"} \X {"ended", "unavailable"}

Outcomes(k) ==
    IF outbox[k].kind = "activate" THEN ActivationOutcomes(outbox[k].of)
    ELSE VoidOutcomes(outbox[k].of)

(* Paykit handles w's call and the answer is on its way.  A call without   *)
(* an answer leaves the row under its lease, to be retried when it lapses. *)
PaykitAnswers(w, outcome) ==
    /\ step[w].answer = "awaited"
    /\ outcome \in Outcomes(step[w].row)
    /\ invoice' = [invoice EXCEPT ![outbox[step[w].row].of] = outcome[1]]
    /\ step' = [step EXCEPT ![w] = IF outcome[2] = "unavailable" THEN NoStep
                                   ELSE [@ EXCEPT !.answer = outcome[2]]]
    /\ UNCHANGED <<outbox, claimed, notified, order, released>>

(* A prepared invoice nobody activates expires at Paykit.                  *)
PrepareExpires(i) ==
    /\ invoice[i] = "prepared"
    /\ invoice' = [invoice EXCEPT ![i] = "final"]
    /\ UNCHANGED <<outbox, claimed, step, notified, order, released>>

(* track_invoice_live_after_void: an order that left pending_payment and   *)
(* voided this very invoice tracks it again.                               *)
Retracked(i) ==
    IF /\ order.invoice = i
       /\ order.activation = "voided"
       /\ order.state # "pending_payment"
    THEN [order EXCEPT !.activation = "active"]
    ELSE order

Answered(w, answer) == step[w].row # 0 /\ step[w].answer = answer

StepDone(w) == step' = [step EXCEPT ![w] = NoStep]

(* The second transaction of an accepted activation: the flip is           *)
(* conditional on preparing.                                               *)
Activated(w) ==
    /\ Answered(w, "observing")
    /\ order' = IF order.activation = "preparing"
                THEN [order EXCEPT !.activation = "active"]
                ELSE Retracked(outbox[step[w].row].of)
    /\ outbox' = Stamped(step[w].row)
    /\ StepDone(w)
    /\ UNCHANGED <<claimed, notified, invoice, released>>

(* Faulty: the bind is undone and its attempt forgotten.                   *)
ForgetsAttempt(w) ==
    /\ Answered(w, "refused") /\ outbox[step[w].row].kind = "activate"
    /\ IF order.activation = "preparing"
       THEN /\ order' = [order EXCEPT !.activation = "voided"]
            /\ outbox' = Append(Stamped(step[w].row), NewRow("notice", 0))
            /\ notified' = Grown(1)
       ELSE /\ outbox' = Stamped(step[w].row)
            /\ UNCHANGED <<order, notified>>
    /\ StepDone(w)
    /\ UNCHANGED <<claimed, invoice, released>>

(* void_prepare_effects: the bind is undone, its attempt recorded and the  *)
(* buyer told; a row whose order left preparing is marked only.            *)
ActivationRefused(w) ==
    /\ Answered(w, "refused") /\ outbox[step[w].row].kind = "activate"
    /\ IF order.activation = "preparing"
       THEN /\ order' = [order EXCEPT !.activation = "voided"]
            /\ released' = released \cup {order.invoice}
            /\ outbox' = Append(Stamped(step[w].row), NewRow("notice", 0))
            /\ notified' = Grown(1)
       ELSE /\ outbox' = Stamped(step[w].row)
            /\ UNCHANGED <<order, released, notified>>
    /\ StepDone(w)
    /\ UNCHANGED <<claimed, invoice>>

-----------------------------------------------------------------------------
(* deliver_paykit_void.                                                    *)

BeginVoid(w, k) ==
    /\ Ready(w, k) /\ outbox[k].kind = "void"
    /\ Taken(w, k)
    /\ step' = [step EXCEPT ![w] = [row |-> k, answer |-> "awaited"]]
    /\ UNCHANGED <<outbox, notified, order, invoice, released>>

(* A row older than a day is stamped without a call.                       *)
GiveUpVoid(w, k) ==
    /\ Ready(w, k) /\ outbox[k].kind = "void"
    /\ Taken(w, k)
    /\ outbox' = Stamped(k)
    /\ UNCHANGED <<step, notified, order, invoice, released>>

(* Voided, or refused in a way no retry mends: stamped.  An invoice Paykit *)
(* had published is tracked again in the same transaction.                 *)
VoidAnswered(w) ==
    /\ step[w].row # 0 /\ outbox[step[w].row].kind = "void"
    /\ step[w].answer \in {"ended", "published"}
    /\ order' = IF step[w].answer = "published"
                THEN Retracked(outbox[step[w].row].of) ELSE order
    /\ outbox' = Stamped(step[w].row)
    /\ StepDone(w)
    /\ UNCHANGED <<claimed, notified, invoice, released>>
=============================================================================
