------------------------------- MODULE Commands -------------------------------
(***************************************************************************)
(* Submissions of commands and the audit of the refused ones: execute      *)
(* hands every refusal to its process's audit before it answers.           *)
(***************************************************************************)
EXTENDS Executor, RefusalAudit

ASSUME CommandsAssumption == Writers \subseteq Processes /\ Refusals \subseteq RefusalKinds

vars == <<executorVars, auditVars>>

Init == ExecutorInit /\ AuditInit

(* enqueue_refusal.                                                        *)
Audited(s, reply) ==
    IF reply \in Refusals /\ ProcessOf[s] \in Writers THEN TrySend(ProcessOf[s], reply)
    ELSE UNCHANGED auditVars

Replies == Refusals \union {"accepted", "collided", "none"}

(* What the process does for a submission it has begun.                    *)
Proceeds(s) ==
    \/ \E reply \in Replies :
          /\ \/ FlightEntered(s, reply)
             \/ BeginTransaction(s, reply)
             \/ CommitResult(s, reply)
          /\ Audited(s, reply)
    \/ RefuseCommand(s) /\ Audited(s, "refused")
    \/ (RecordRead(s) \/ LeaveFlight(s)) /\ UNCHANGED auditVars

(* What a client or the database may do to it.                             *)
Submits(s) ==
    \/ RejectEnvelope(s) /\ Audited(s, "invalid")
    \/ (AwaitFlight(s) \/ NeedsNoRecord(s) \/ Abort(s)) /\ UNCHANGED auditVars

(* The writer task on an envelope it received, or on its losses.           *)
Writes(p) ==
    /\ \/ Receive(p) \/ Delivered(p) \/ GapFlushed(p)
       \/ \E b \in BOOLEAN : \/ WriterPanics(p, b) \/ AmbiguousCommit(p, b)
                             \/ AttemptFails(p, b) \/ GapPutBack(p, b)
    /\ UNCHANGED executorVars

Probes(p) == (\E ok \in BOOLEAN : Probe(p, ok)) /\ UNCHANGED executorVars

Next ==
    \/ \E s \in Submissions : Proceeds(s) \/ Submits(s)
    \/ \E p \in Writers : Writes(p) \/ Probes(p)

Spec == Init /\ [][Next]_vars

-----------------------------------------------------------------------------
(* "Exactly one accepted result exists per actor + command id": however    *)
(* duplicates, re-uses of the id and retries of aborted submissions meet,  *)
(* on one instance or on two, the effect commits once and with its result, *)
(* who is told accepted sent what was stored, who is told conflict did     *)
(* not, and nobody is turned away by the key of their own stored result    *)
(* (execute, stored_result_response).                                      *)
OneResultPerCommand ==
    /\ \A k \in Keys : applied[k] = IF stored[k] = NoHash THEN 0 ELSE 1
    /\ \A s \in Submissions :
          /\ answer[s] = "accepted" => stored[KeyOf[s]] = HashOf[s]
          /\ answer[s] = "conflict" => stored[KeyOf[s]] \notin {NoHash, HashOf[s]}
          /\ answer[s] # "collided"

(* Within one instance no two submissions of a command read the seller's   *)
(* record or execute past that read at the same time, whoever gives up     *)
(* waiting or leaves; a lock that somebody may wait for is held only by a  *)
(* submission that is still under way; and a key nobody uses is not kept   *)
(* (CommandFlights, pg_advisory_xact_lock).                                *)
OneReaderPerFlight ==
    /\ \A s \in holding : /\ at[s] \in {"reading", "begin", "dispatch"}
                         /\ \A t \in Twins(s) : t \in holding => t = s
    /\ \A k \in Keys : xlock[k] # NoOne => at[xlock[k]] = "dispatch"
    /\ \A p \in Processes, k \in Keys :
          slots[p][k].entrants
             = Cardinality({s \in Submissions :
                              ProcessOf[s] = p /\ KeyOf[s] = k /\ ticket[s] # 0})

(* Submissions whose client was told a refusal, where an audit runs.       *)
Refused == {s \in Submissions : answer[s] \in Refusals /\ ProcessOf[s] \in Writers}

(* No refusal goes missing: each one a client was told is still queued     *)
(* or in the writer's hands, is counted in its hour, or is a counted loss; *)
(* only commits that were given up and happened count twice (try_send,     *)
(* deliver_with_retries, flush_loss_gap).                                  *)
RefusalsAccounted ==
    Cardinality(Units(InMemory)) + Cardinality(Units(rows)) + overflow + gap
      = Cardinality(Refused) + doubled
=============================================================================
