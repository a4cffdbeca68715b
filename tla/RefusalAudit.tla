----------------------------- MODULE RefusalAudit -----------------------------
(***************************************************************************)
(* The refusal audit (crates/service/src/refusal_audit.rs): a refusal is   *)
(* put into a bounded queue of its process without waiting, a writer task  *)
(* moves it to the audit tables, and what is lost on the way is counted in *)
(* memory until the count can be flushed to the loss gap.  One hour and    *)
(* one key epoch; rows are never purged within it.                         *)
(***************************************************************************)
EXTENDS Integers, Sequences, FiniteSets

CONSTANTS
    Writers,          \* the instances that were given an audit
    RefusalKinds,     \* what tells two audit rows of the hour apart
    QueueCapacity,    \* QUEUE_CAPACITY
    DeliveryAttempts, \* DELIVERY_ATTEMPTS
    HourlyRows        \* MAX_ADMITTED_ROWS_PER_HOUR

ASSUME AuditAssumption ==
    {QueueCapacity, DeliveryAttempts, HourlyRows} \subseteq Nat \ {0}

VARIABLES
    verified,   \* verified[p]: writer_authority_verified
    queue,      \* queue[p]: envelopes sent and not yet received
    hand,       \* hand[p]: the envelope the writer works on, and its attempt
    pending,    \* pending[p]: pending_loss_gap
    swapped,    \* swapped[p]: the losses flush_loss_gap took and has not stored
    rows,       \* rows[k]: occurrence_count of the hour's row, 0 without one
    overflow,   \* overflow_count of the hour
    gap,        \* command_refusal_audit_loss_gap.pending_loss_count
    doubled     \* history: refusals counted although their commit was given up

auditVars == <<verified, queue, hand, pending, swapped, rows, overflow, gap, doubled>>

Empty == [kind |-> "none", attempt |-> 0]

AuditInit ==
    /\ verified = [p \in Writers |-> FALSE]
    /\ queue = [p \in Writers |-> <<>>]
    /\ hand = [p \in Writers |-> Empty]
    /\ pending = [p \in Writers |-> 0]
    /\ swapped = [p \in Writers |-> 0]
    /\ rows = [k \in RefusalKinds |-> 0]
    /\ overflow = 0 /\ gap = 0 /\ doubled = 0

(* record_loss.                                                            *)
LossRecorded(p) == pending' = [pending EXCEPT ![p] = @ + 1]

(* try_send: never waits; what an unverified writer or a full queue cannot *)
(* take is a loss.                                                         *)
TrySend(p, kind) ==
    /\ IF verified[p] /\ Len(queue[p]) < QueueCapacity
       THEN queue' = [queue EXCEPT ![p] = Append(@, kind)] /\ UNCHANGED pending
       ELSE LossRecorded(p) /\ UNCHANGED queue
    /\ UNCHANGED <<verified, hand, swapped, rows, overflow, gap, doubled>>

-----------------------------------------------------------------------------
(* writer_loop.                                                            *)

Idle(p) == hand[p] = Empty /\ swapped[p] = 0

(* The probe of every interval, and the supervisor's before the first one. *)
Probe(p, ok) ==
    /\ Idle(p) /\ verified[p] # ok
    /\ verified' = [verified EXCEPT ![p] = ok]
    /\ UNCHANGED <<queue, hand, pending, swapped, rows, overflow, gap, doubled>>

Receive(p) ==
    /\ Idle(p) /\ queue[p] # <<>>
    /\ hand' = [hand EXCEPT ![p] = [kind |-> Head(queue[p]), attempt |-> 1]]
    /\ queue' = [queue EXCEPT ![p] = Tail(@)]
    /\ UNCHANGED <<verified, pending, swapped, rows, overflow, gap, doubled>>

(* A writer that panics on the envelope it received loses that envelope    *)
(* only; the supervisor counts it, probes again and restarts the loop.     *)
WriterPanics(p, ok) ==
    /\ hand[p].attempt = 1
    /\ hand' = [hand EXCEPT ![p] = Empty]
    /\ LossRecorded(p)
    /\ verified' = [verified EXCEPT ![p] = ok]
    /\ UNCHANGED <<queue, swapped, rows, overflow, gap, doubled>>

(* prepare_delivery: the row of the hour is counted up or, below the       *)
(* hour's limit, inserted; the rest is counted as overflow.  Writers of    *)
(* two processes are serialised by the row or by the hour's advisory lock. *)
Admitted == Cardinality({k \in RefusalKinds : rows[k] > 0})
CountRefusal(kind) ==
    IF rows[kind] > 0 \/ Admitted < HourlyRows
    THEN rows' = [rows EXCEPT ![kind] = @ + 1] /\ UNCHANGED overflow
    ELSE overflow' = overflow + 1 /\ UNCHANGED rows

(* An attempt that commits; the losses so far are taken to be flushed.     *)
Delivered(p) ==
    /\ hand[p] # Empty
    /\ CountRefusal(hand[p].kind)
    /\ hand' = [hand EXCEPT ![p] = Empty]
    /\ verified' = [verified EXCEPT ![p] = TRUE]
    /\ swapped' = [swapped EXCEPT ![p] = pending[p]]
    /\ pending' = [pending EXCEPT ![p] = 0]
    /\ UNCHANGED <<queue, gap, doubled>>

(* A commit without an answer may have happened; it is not tried again.    *)
AmbiguousCommit(p, happened) ==
    /\ hand[p] # Empty
    /\ IF happened THEN CountRefusal(hand[p].kind) /\ doubled' = doubled + 1
       ELSE UNCHANGED <<rows, overflow, doubled>>
    /\ hand' = [hand EXCEPT ![p] = Empty]
    /\ LossRecorded(p)
    /\ UNCHANGED <<verified, queue, swapped, gap>>

(* Every other failure is tried again, the last one is a loss.             *)
AttemptFails(p, authority) ==
    /\ hand[p] # Empty
    /\ verified' = [verified EXCEPT ![p] = @ /\ ~authority]
    /\ IF hand[p].attempt < DeliveryAttempts
       THEN hand' = [hand EXCEPT ![p].attempt = @ + 1] /\ UNCHANGED pending
       ELSE hand' = [hand EXCEPT ![p] = Empty] /\ LossRecorded(p)
    /\ UNCHANGED <<queue, swapped, rows, overflow, gap, doubled>>

(* flush_loss_gap.                                                         *)
GapFlushed(p) ==
    /\ swapped[p] > 0
    /\ gap' = gap + swapped[p]
    /\ swapped' = [swapped EXCEPT ![p] = 0]
    /\ UNCHANGED <<verified, queue, hand, pending, rows, overflow, doubled>>

(* Faulty: the count is put back over what was lost in the meantime.       *)
PutsBackOver(p, happened) ==
    /\ swapped[p] > 0
    /\ IF happened THEN gap' = gap + swapped[p] /\ doubled' = doubled + swapped[p]
       ELSE UNCHANGED <<gap, doubled>>
    /\ pending' = [pending EXCEPT ![p] = swapped[p]]
    /\ swapped' = [swapped EXCEPT ![p] = 0]
    /\ UNCHANGED <<verified, queue, hand, rows, overflow>>

(* A flush that fails, or whose answer is late, puts its count back.       *)
GapPutBack(p, happened) ==
    /\ swapped[p] > 0
    /\ IF happened THEN gap' = gap + swapped[p] /\ doubled' = doubled + swapped[p]
       ELSE UNCHANGED <<gap, doubled>>
    /\ pending' = [pending EXCEPT ![p] = @ + swapped[p]]
    /\ swapped' = [swapped EXCEPT ![p] = 0]
    /\ UNCHANGED <<verified, queue, hand, rows, overflow>>

-----------------------------------------------------------------------------
(* f[x] things of each x, told apart by a number.                          *)
Units(f) == UNION {{x} \X (1 .. f[x]) : x \in DOMAIN f}

(* Refusals of p that are in its memory only.                              *)
Working(p) == IF hand[p] = Empty THEN 0 ELSE 1
Held(p) == Len(queue[p]) + Working(p) + pending[p] + swapped[p]
InMemory == [p \in Writers |-> Held(p)]
=============================================================================
