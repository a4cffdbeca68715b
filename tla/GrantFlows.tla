------------------------------ MODULE GrantFlows ------------------------------
(***************************************************************************)
(* The grant flows of crates/service/src/grant.rs: a shop asks for a       *)
(* session in its customer's name, the customer approves in another app,   *)
(* and the answer arrives in an inbox of a relay.  A worker leases the     *)
(* flow, polls the inbox, persists the approval (the "exchanging" part of  *)
(* 'verifying': approved_pubky set, version raised), exchanges it for a    *)
(* verified session and writes the auth_sessions row together with its     *)
(* sealed bearer.  The shop then fetches a result token once and claims    *)
(* the bearer with it once; the reaper ends what nobody finished.          *)
(*                                                                         *)
(* A statement or transaction is one step.  Time is a flag per deadline    *)
(* that may be raised at any moment: expires_at, lease_until,              *)
(* result_token_expires_at and terminal_at + retention.  The relay, the    *)
(* homeserver and the customer are outside the repository and answer as    *)
(* they like.                                                              *)
(***************************************************************************)
EXTENDS Naturals, FiniteSets

CONSTANTS
    Flows,        \* the flows, one per assertion: assertion_jti is UNIQUE
    MaxLiveFlows, \* MARKETPLACE_GRANT_MAX_LIVE_FLOWS
    ReaperBatch,  \* MARKETPLACE_GRANT_REAPER_BATCH_SIZE
    MaxVersion,   \* bound: a flow's version
    MaxNonces     \* bound: result nonces outstanding at a time

ASSUME GrantAssumption ==
    /\ MaxLiveFlows \in Nat /\ MaxVersion \in Nat /\ MaxNonces \in Nat
    /\ ReaperBatch \in Nat \ {0}

ASSUME FlowsFinite == IsFiniteSet(Flows)

VARIABLES
    flow,      \* grant_flows: the row of each flow
    tasks,     \* the process_lease tasks: their copy of the lease, their stage
    session,   \* the auth_sessions row a flow's completion inserted
    handed,    \* how often the shop was given the flow's bearer
    nonces,    \* the unused, unexpired result nonces: [flow, purpose]
    ended,     \* terminal_at, as the order in which flows ended; 0 if not yet
    reaper     \* the statement reap_once comes to, and who was old when it began

vars == <<flow, tasks, session, handed, nonces, ended, reaper>>

(* "ended" stands for mismatch, expired, cancelled, invalid and failed.    *)
Terminal == {"complete", "ended"}
Purposes == {"ticket", "claim"}
Identities == {"expected", "other"}

NoRow == [status |-> "none", version |-> 0, owner |-> 0, approved |-> "none",
          lapsed |-> FALSE, due |-> FALSE, old |-> FALSE, result |-> "none",
          delivered |-> FALSE, claimed |-> FALSE, payload |-> FALSE, sid |-> FALSE]

GrantInit ==
    /\ flow = [f \in Flows |-> NoRow]
    /\ tasks = {}
    /\ session = [f \in Flows |-> FALSE]
    /\ handed = [f \in Flows |-> 0]
    /\ nonces = {}
    /\ ended = [f \in Flows |-> 0]
    /\ reaper = [at |-> "unfinished", old |-> {}]

-----------------------------------------------------------------------------
(* The shop's requests.                                                    *)

(* What counts against the capacity of the service.                        *)
Live == {f \in Flows : /\ flow[f].status \in {"awaiting", "verifying", "complete"}
                       /\ ~flow[f].due
                       /\ ~flow[f].claimed}

(* An assertion lives 60 s at most and its jti is UNIQUE: it is refused    *)
(* while its flow's row is there, and has lapsed long before that is       *)
(* purged.                                                                 *)
AssertionGood(f) == flow[f].status = "none"

(* create_flow, counted and inserted under an advisory lock.               *)
CreateFlow(f) ==
    /\ AssertionGood(f)
    /\ Cardinality(Live) < MaxLiveFlows
    /\ flow' = [flow EXCEPT ![f].status = "awaiting"]
    /\ UNCHANGED <<tasks, session, handed, nonces, ended, reaper>>

(* Every other request spends its id, which is good for one request, in a  *)
(* statement of its own before it looks at the flow; a request refused     *)
(* then changes nothing.                                                   *)
IssueNonce(f, purpose) ==
    /\ flow[f].status \notin {"none", "purged"}
    /\ Cardinality(nonces) < MaxNonces
    /\ nonces' = nonces \union {[flow |-> f, purpose |-> purpose]}
    /\ UNCHANGED <<flow, tasks, session, handed, ended, reaper>>

(* The nonce is spent in the transaction of the request that shows it.     *)
ConsumeNonce(f, purpose) ==
    /\ [flow |-> f, purpose |-> purpose] \in nonces
    /\ nonces' = nonces \ {[flow |-> f, purpose |-> purpose]}

Claimable(f) ==
    /\ flow[f].status = "complete" /\ ~flow[f].claimed
    /\ flow[f].result = "fresh" /\ flow[f].payload

ResultTicket(f) ==
    /\ Claimable(f) /\ ~flow[f].delivered
    /\ ConsumeNonce(f, "ticket")
    /\ flow' = [flow EXCEPT ![f].delivered = TRUE]
    /\ UNCHANGED <<tasks, session, handed, ended, reaper>>

ClaimResult(f) ==
    /\ Claimable(f) /\ flow[f].delivered
    /\ ConsumeNonce(f, "claim")
    /\ flow[f].sid => session[f]
    /\ flow' = [flow EXCEPT ![f].claimed = TRUE, ![f].payload = FALSE]
    /\ handed' = [handed EXCEPT ![f] = @ + 1]
    /\ UNCHANGED <<tasks, session, ended, reaper>>

(* A row with a terminal_at: secrets and lease are wiped, and nothing      *)
(* looks at its version or its approved_pubky again.                       *)
Over(row) == [NoRow EXCEPT !.status = "ended", !.due = row.due]

(* A logical clock, later than every terminal_at that was written.         *)
Now == 1 + Cardinality({f \in Flows : flow[f].status \in Terminal \union {"purged"}})

CancelFlow(f) ==
    /\ flow[f].status = "awaiting"
    /\ flow' = [flow EXCEPT ![f] = Over(@)]
    /\ ended' = [ended EXCEPT ![f] = Now]
    /\ UNCHANGED <<tasks, session, handed, nonces, reaper>>

-----------------------------------------------------------------------------
(* The worker.  A task remembers the owner id and version of its lease and *)
(* every write of its flow compares both.  An owner id is made per lease,  *)
(* like the version it is taken at.                                        *)

AcquireFlow(f) ==
    LET v == flow[f].version + 1 IN
    /\ flow[f].status = "awaiting" /\ ~flow[f].due
    /\ v < MaxVersion
    /\ flow' = [flow EXCEPT ![f].status = "verifying", ![f].version = v,
                            ![f].owner = v, ![f].lapsed = FALSE]
    /\ tasks' = tasks \union {[flow |-> f, owner |-> v, version |-> v,
                               stage |-> "polling"]}
    /\ UNCHANGED <<session, handed, nonces, ended, reaper>>

Owns(t) == /\ flow[t.flow].status = "verifying"
           /\ flow[t.flow].owner = t.owner
           /\ flow[t.flow].version = t.version

(* terminalize_owned, the last thing its task does, whether it applies or  *)
(* the lease is lost.                                                      *)
TerminalizeOwned(t) ==
    /\ tasks' = tasks \ {t}
    /\ \/ /\ Owns(t)
          /\ flow' = [flow EXCEPT ![t.flow] = Over(@)]
          /\ ended' = [ended EXCEPT ![t.flow] = Now]
       \/ ~Owns(t) /\ UNCHANGED <<flow, ended>>
    /\ UNCHANGED <<session, handed, nonces, reaper>>

(* return_owned_to_awaiting: for a task whose time is up without an answer *)
(* in the inbox, and for the guard of a task that was dropped.             *)
ReturnOwned(t) ==
    /\ t.stage \in {"polling", "returning"}
    /\ tasks' = tasks \ {t}
    /\ flow' = IF Owns(t) /\ flow[t.flow].approved = "none"
               THEN [flow EXCEPT ![t.flow].status = "awaiting",
                                 ![t.flow].owner = 0, ![t.flow].lapsed = FALSE]
               ELSE flow
    /\ UNCHANGED <<session, handed, nonces, ended, reaper>>

(* The sealed state cannot be opened, the relay fails, or what the inbox   *)
(* holds is no grant.                                                      *)
PollFails(t) ==
    /\ t.stage = "polling"
    /\ TerminalizeOwned(t)

(* An approval is read and persisted.  Without the lease the task stops,   *)
(* and its guard, still armed, tries to return the flow.                   *)
EnterExchanging(t, who) ==
    /\ t.stage = "polling"
    /\ IF Owns(t) /\ flow[t.flow].approved = "none"
       THEN /\ flow' = [flow EXCEPT ![t.flow].approved = who, ![t.flow].lapsed = FALSE,
                                    ![t.flow].version = @ + 1]
            /\ tasks' = (tasks \ {t}) \union
                        {[t EXCEPT !.stage = "exchanging", !.version = @ + 1]}
       ELSE /\ tasks' = (tasks \ {t}) \union {[t EXCEPT !.stage = "returning"]}
            /\ UNCHANGED flow
    /\ UNCHANGED <<session, handed, nonces, ended, reaper>>

(* A heartbeat renews the lease of its owner, whatever the version.        *)
Heartbeat(t) ==
    /\ t.stage \in {"polling", "exchanging"}
    /\ flow[t.flow].status = "verifying" /\ flow[t.flow].owner = t.owner
    /\ flow[t.flow].lapsed
    /\ flow' = [flow EXCEPT ![t.flow].lapsed = FALSE]
    /\ UNCHANGED <<tasks, session, handed, nonces, ended, reaper>>

(* No session came out: the exchange timed out, the flow expired, the      *)
(* heartbeat is dead, or the homeserver or the grant is at fault.          *)
ExchangeFails(t) ==
    /\ t.stage = "exchanging"
    /\ TerminalizeOwned(t)

(* complete_owned: the session and the result in one transaction.          *)
CompleteOwned(t, who) ==
    /\ tasks' = tasks \ {t}
    /\ IF Owns(t)
       THEN /\ session' = [session EXCEPT ![t.flow] = TRUE]
            /\ flow' = [flow EXCEPT ![t.flow] =
                   [Over(@) EXCEPT !.status = "complete", !.approved = who, !.result = "fresh",
                                   !.payload = TRUE, !.sid = TRUE]]
            /\ ended' = [ended EXCEPT ![t.flow] = Now]
       ELSE UNCHANGED <<session, flow, ended>>
    /\ UNCHANGED <<handed, nonces, reaper>>

(* What the homeserver verified must be in the two trees the service asks  *)
(* for, and within what the approval says was asked for.                   *)
Allowlisted == {"inventory", "private"}
Scopes == Allowlisted \union {"elsewhere"}
SessionCapabilities(verified, requested) ==
    /\ verified \subseteq Allowlisted /\ requested \subseteq Allowlisted
    /\ verified \subseteq requested

Verdicts == {SessionCapabilities(verified, requested) :
                verified \in SUBSET Scopes, requested \in SUBSET Scopes}

(* settle_verified: who the homeserver says it is, and whether they        *)
(* granted what they may.                                                  *)
SettleVerified(t, who, within) ==
    /\ t.stage = "exchanging"
    /\ IF who = "expected" /\ within
       THEN CompleteOwned(t, who)
       ELSE TerminalizeOwned(t)

(* A task ends early: its process is gone or the database fails it.  While *)
(* it polls, a guard that still runs returns the flow.                     *)
TaskDies(t) ==
    /\ \/ tasks' = tasks \ {t}
       \/ /\ t.stage = "polling"
          /\ tasks' = (tasks \ {t}) \union {[t EXCEPT !.stage = "returning"]}
    /\ UNCHANGED <<flow, session, handed, nonces, ended, reaper>>

ProcessLease(t) ==
    \/ ReturnOwned(t)
    \/ PollFails(t)
    \/ ExchangeFails(t)
    \/ \E who \in Identities : EnterExchanging(t, who)
    \/ \E who \in Identities, within \in Verdicts : SettleVerified(t, who, within)

-----------------------------------------------------------------------------
(* The reaper.  A pass works under the clock of its beginning; what the    *)
(* model keeps of that clock is which flows were old.                      *)

(* A batch of the rows that are due, and one ordered by terminal_at.       *)
Batches(due) == {S \in SUBSET due :
    Cardinality(S) = IF Cardinality(due) < ReaperBatch THEN Cardinality(due)
                                                       ELSE ReaperBatch}
Earliest(due) == {S \in Batches(due) : \A f \in S, g \in due \ S : ended[f] <= ended[g]}

Overdue == {f \in Flows : flow[f].status = "awaiting" /\ flow[f].due}
Lapsed == {f \in Flows : flow[f].status = "verifying" /\ flow[f].lapsed}
LapsedPolling == {f \in Lapsed : flow[f].approved = "none"}
(* Faulty: lease_lost without its counterpart for exchanging flows.        *)
IgnoresExchanging == {f \in Lapsed : FALSE}

LapsedExchanging == {f \in Lapsed : flow[f].approved # "none"}

(* Faulty: a lapsed lease puts the flow back in the queue.                 *)
RetriesLapsed ==
    \E A \in Batches(Overdue), B \in Batches(Lapsed) :
       /\ flow' = [f \in Flows |->
              IF f \in A THEN Over(flow[f])
              ELSE IF f \in B THEN [flow[f] EXCEPT !.status = "awaiting", !.owner = 0,
                                                   !.lapsed = FALSE]
              ELSE flow[f]]
       /\ ended' = [f \in Flows |-> IF f \in A THEN Now ELSE ended[f]]

(* The first three statements, over rows no two of them share.             *)
ReapUnfinished ==
    \E A \in Batches(Overdue), B \in Batches(LapsedPolling), C \in Batches(LapsedExchanging) :
       /\ flow' = [f \in Flows |-> IF f \in A \union B \union C THEN Over(flow[f]) ELSE flow[f]]
       /\ ended' = [f \in Flows |-> IF f \in A \union B \union C THEN Now ELSE ended[f]]

(* Results nobody claimed: the session is deleted with them.               *)
ReapResults ==
    \E S \in Earliest({f \in Flows : /\ flow[f].status = "complete" /\ ~flow[f].claimed
                                     /\ flow[f].result = "expired"
                                     /\ flow[f].payload \/ flow[f].sid}) :
       /\ session' = [f \in Flows |-> session[f] /\ ~(f \in S /\ flow[f].sid)]
       /\ flow' = [f \in Flows |->
              IF f \in S THEN [flow[f] EXCEPT !.result = "none", !.payload = FALSE, !.sid = FALSE]
                         ELSE flow[f]]

(* Faulty: the purge takes any batch of old rows, without ORDER BY.        *)
PurgesUnordered ==
    \E S \in Batches(reaper.old) :
       /\ flow' = [f \in Flows |-> IF f \in S THEN [NoRow EXCEPT !.status = "purged"] ELSE flow[f]]
       /\ nonces' = {n \in nonces : n.flow \notin S}
       /\ ended' = [f \in Flows |-> IF f \in S THEN 0 ELSE ended[f]]

(* The oldest rows go, whatever became of them.                            *)
Purge ==
    \E S \in Earliest(reaper.old) :
       /\ flow' = [f \in Flows |-> IF f \in S THEN [NoRow EXCEPT !.status = "purged"] ELSE flow[f]]
       /\ nonces' = {n \in nonces : n.flow \notin S}
       /\ ended' = [f \in Flows |-> IF f \in S THEN 0 ELSE ended[f]]

ReapOnce ==
    /\ \/ /\ reaper.at = "unfinished" /\ ReapUnfinished
          /\ reaper' = [at |-> "results", old |-> {f \in Flows : flow[f].old}]
          /\ UNCHANGED <<session, nonces>>
       \/ /\ reaper.at = "results" /\ ReapResults
          /\ reaper' = [reaper EXCEPT !.at = "purge"]
          /\ UNCHANGED <<nonces, ended>>
       \/ /\ reaper.at = "purge" /\ Purge
          /\ reaper' = [at |-> "unfinished", old |-> {}]
          /\ UNCHANGED session
    /\ UNCHANGED <<tasks, handed>>

-----------------------------------------------------------------------------
(* Deadlines pass.  The least retention, 600 s, is longer than the life of *)
(* a result token and no shorter than that of a flow; both retention and   *)
(* result tokens run from terminal_at, so they pass in that order.         *)

EndedBefore(f) == {g \in Flows : 0 < ended[g] /\ ended[g] < ended[f]}

Untouched == UNCHANGED <<tasks, session, handed, ended, reaper>>

FlowExpires(f) ==
    /\ flow[f].status \notin {"none", "purged"} /\ ~flow[f].due
    /\ flow' = [flow EXCEPT ![f].due = TRUE]
    /\ Untouched /\ UNCHANGED nonces

LeaseLapses(f) ==
    /\ flow[f].status = "verifying" /\ ~flow[f].lapsed
    /\ flow' = [flow EXCEPT ![f].lapsed = TRUE]
    /\ Untouched /\ UNCHANGED nonces

TokenExpires(f) ==
    /\ flow[f].result = "fresh" /\ ~flow[f].claimed
    /\ \A g \in EndedBefore(f) : flow[g].result = "fresh" => flow[g].claimed
    /\ flow' = [flow EXCEPT ![f].result = "expired"]
    /\ Untouched /\ UNCHANGED nonces

(* A nonce of 30 s is refused from then on, and deleted by the reaper.     *)
NonceExpires ==
    /\ \E n \in nonces : nonces' = nonces \ {n}
    /\ Untouched /\ UNCHANGED flow

RetentionPasses(f) ==
    /\ flow[f].status \in Terminal /\ ~flow[f].old
    /\ flow[f].due /\ (flow[f].result = "fresh" => flow[f].claimed)
    /\ \A g \in EndedBefore(f) : flow[g].old
    /\ flow' = [flow EXCEPT ![f].old = TRUE]
    /\ Untouched /\ UNCHANGED nonces

-----------------------------------------------------------------------------
Requests ==
    \E f \in Flows : \/ CreateFlow(f) \/ CancelFlow(f)
                     \/ ResultTicket(f) \/ ClaimResult(f)
                     \/ \E p \in Purposes : IssueNonce(f, p)

Worker ==
    \/ \E f \in Flows : AcquireFlow(f)
    \/ \E t \in tasks : ProcessLease(t) \/ Heartbeat(t) \/ TaskDies(t)

Deadlines == \E f \in Flows : FlowExpires(f) \/ LeaseLapses(f) \/ TokenExpires(f)

Clock == Deadlines \/ NonceExpires \/ \E f \in Flows : RetentionPasses(f)

Next == Requests \/ Worker \/ ReapOnce \/ Clock

(* The reaper loops for ever, deadlines pass, and a task's polls and its   *)
(* exchange are bounded by the deadlines it computes.                      *)
Fairness ==
    /\ WF_vars(ReapOnce)
    /\ WF_vars(Deadlines)
    /\ WF_vars(\E t \in tasks : ReturnOwned(t) \/ ExchangeFails(t))

Spec == GrantInit /\ [][Next]_vars /\ Fairness

-----------------------------------------------------------------------------
(* A session made for a flow is either in the hands of the shop, which was *)
(* given its bearer once, or still reachable from the flow's row, with the *)
(* sealed bearer, so that it can be claimed or reaped: no session is left  *)
(* that nobody holds, and no bearer handed out is taken back by the reaper *)
(* (complete_owned, claim_result, reap_once).                              *)
SessionAccounted ==
    \A f \in Flows :
       /\ handed[f] \in {0, 1}
       /\ handed[f] = 1 => session[f]
       /\ session[f] /\ handed[f] = 0 =>
             /\ flow[f].status = "complete" /\ ~flow[f].claimed
             /\ flow[f].sid /\ flow[f].payload

(* A flow that ended stays as it ended until it is purged, one whose       *)
(* approval was persisted is never polled for again, and one completes     *)
(* only from that stage, for the identity it was asked for, with a session *)
(* (the owner and version compared by every write of process_lease).       *)
StatusMoves ==
    [][\A f \in Flows :
          LET was == flow[f]
              is == flow'[f]
          IN  /\ was.status \in Terminal => is.status \in {was.status, "purged"}
              /\ was.approved # "none" => is.status # "awaiting"
              /\ was.status # "complete" /\ is.status = "complete" =>
                    /\ was.status = "verifying" /\ was.approved # "none"
                    /\ is.approved = "expected" /\ session'[f]]_vars

(* Whatever happens to its worker and its reader, a flow that was created  *)
(* comes to an end: its bearer was handed over, or it is over and has no   *)
(* session, because it got none or the reaper deleted it (reap_once).      *)
FlowsEnd ==
    \A f \in Flows :
       flow[f].status = "awaiting"
          ~> \/ handed[f] = 1
             \/ flow[f].status \in Terminal \union {"purged"} /\ ~session[f]
=============================================================================
