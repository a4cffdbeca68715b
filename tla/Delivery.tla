------------------------------- MODULE Delivery -------------------------------
(***************************************************************************)
(* The outbox and the worker passes that drain it, together                *)
(* (crates/service/src/workers.rs, run_once), for one order that is bound  *)
(* to Paykit, perhaps bound again, and perhaps cancelled meanwhile.        *)
(***************************************************************************)
EXTENDS WorkerPass, Outbox

CONSTANTS
    MaxFaults   \* bound: crashes, failed passes and unanswered calls

ASSUME DeliveryAssumption ==
    /\ Deliverers = Workers
    /\ "outbox" \in TaskNames
    /\ MaxFaults \in Nat

VARIABLES
    faults      \* faults so far

deliveryVars == <<passVars, outboxVars, faults>>

DeliveryInit == PassInit /\ OutboxInit /\ faults = 0

Fault == faults < MaxFaults /\ faults' = faults + 1

(* drain_outbox begins by claiming a batch.                                *)
AcquireOutbox(w) ==
    /\ Task(w) = "outbox"
    /\ Acquire(w)
    /\ Claim(w)
    /\ UNCHANGED faults

(* Another task's turn.  A tolerant one may fail on every pass.  (Only the *)
(* outbox's lease outlives a step here: the other tasks run in one.)       *)
OtherTask(w) ==
    /\ Task(w) # "outbox"
    /\ \/ RunTask(w, TRUE) /\ UNCHANGED faults
       \/ RunTask(w, FALSE) /\ IF Task(w) \in Tolerant THEN UNCHANGED faults ELSE Fault
    /\ UNCHANGED outboxVars

SkipTask(w) == Skip(w) /\ UNCHANGED <<outboxVars, faults>>

(* deliver_claimed, one row after the other.                               *)
Deliver(w) ==
    /\ \/ \E k \in claimed[w] : \/ Notify(w, k)
                                \/ Quarantine(w, k)
                                \/ BeginActivation(w, k)
                                \/ BeginVoid(w, k)
                                \/ GiveUpVoid(w, k)
       \/ Activated(w)
       \/ ActivationRefused(w)
       \/ VoidAnswered(w)
    /\ UNCHANGED <<passVars, faults>>

Answers(w) ==
    /\ step[w].answer = "awaited"
    /\ \E outcome \in Outcomes(step[w].row) :
          /\ PaykitAnswers(w, outcome)
          /\ IF outcome[2] = "unavailable" THEN Fault ELSE UNCHANGED faults
    /\ UNCHANGED passVars

OutboxDrained(w) ==
    /\ draining[w] /\ claimed[w] = {} /\ step[w] = NoStep
    /\ Finish(w, TRUE)
    /\ UNCHANGED <<outboxVars, faults>>

(* A database error in the drain drops the rest of the batch.              *)
DrainFails(w) ==
    /\ Fault
    /\ Finish(w, FALSE)
    /\ Dropped(w)
    /\ UNCHANGED <<outbox, notified, order, invoice, released>>

Dies(w) ==
    /\ Fault
    /\ Crash(w) \/ PassFails(w)
    /\ Dropped(w)
    /\ UNCHANGED <<outbox, notified, order, invoice, released>>

(* The claims of a drain carry its lease's time, so they lapse with it;    *)
(* rows an earlier pass left unanswered lapse on their own.                *)
Lapses ==
    /\ \/ LeaseLapses("outbox") /\ (IF AnyLeased THEN ClaimsLapse ELSE UNCHANGED outboxVars)
       \/ lease["outbox"] = Nobody /\ ClaimsLapse /\ UNCHANGED passVars
    /\ UNCHANGED faults

Parties ==
    /\ Bind \/ CancelUnpaid \/ \E i \in DOMAIN invoice : PrepareExpires(i)
    /\ UNCHANGED <<passVars, faults>>

Works(w) ==
    \/ AcquireOutbox(w)
    \/ OtherTask(w)
    \/ SkipTask(w)
    \/ Deliver(w)
    \/ Answers(w)
    \/ OutboxDrained(w)

DeliveryNext ==
    \/ \E w \in Workers : Works(w) \/ DrainFails(w) \/ Dies(w)
    \/ Lapses
    \/ Parties

(* Some instance's worker loop goes on at any time (not always the same:   *)
(* one may sleep for ever, holding its lease), time passes, and the faults *)
(* end: the database and Paykit are reachable again at some point.  A      *)
(* tolerant task may keep failing for ever.                                *)
Fairness ==
    /\ WF_deliveryVars(\E w \in Workers : Works(w))
    /\ WF_deliveryVars(Lapses)

DeliverySpec == DeliveryInit /\ [][DeliveryNext]_deliveryVars /\ Fairness

-----------------------------------------------------------------------------
(* A notice reaches its recipient exactly once, when its row is delivered, *)
(* although two workers may hold a claim on the row; a row set aside is    *)
(* never delivered (deliver_claimed, quarantine_outbox_row).               *)
NoticesOnce ==
    \A k \in Ids :
       notified[k] = IF outbox[k].kind = "notice" /\ outbox[k].status = "delivered"
                     THEN 1 ELSE 0

(* Whatever Paykit published stays watched: it is the invoice of the       *)
(* order's live request, or it is recorded as a released attempt.  Holds   *)
(* although a cancel, a refused activation, a second bind and stale        *)
(* claimants race (deliver_paykit_activation, void_prepare_effects,        *)
(* void_preparing_request).                                                *)
PublishedIsWatched ==
    \A i \in DOMAIN invoice : invoice[i] = "observing" =>
       \/ i \in released
       \/ order.invoice = i /\ order.activation \in {"preparing", "active"}

(* Every row is delivered or set aside in the end: no crash, lapsed lease, *)
(* failing tolerant task or undeliverable neighbour keeps it open          *)
(* (claim_outbox_batch, deliver_claimed, run_once).                        *)
RowsSettle ==
    []<>(\A k \in Ids : outbox[k].status \in {"delivered", "quarantined"})

(* The tasks behind a task that fails on every pass still run: its failure *)
(* "must not skip the remaining tasks" (run_once, the re-seal arms).       *)
LaterTasksRun ==
    []<>(\E w \in Workers : at[w] = Len(Tasks))
=============================================================================
