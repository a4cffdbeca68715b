--------------------------- MODULE GrantFlowsProofs ---------------------------
(***************************************************************************)
(* Theorems about GrantFlows, for any flows, batches and bounds: a flow    *)
(* that ended stays ended, one whose approval was persisted is not polled  *)
(* for again, and one completes only for the identity it was asked for.    *)
(*                                                                         *)
(* What makes the fence of owner and version work is that a lease is taken *)
(* with a version equal to its owner id, and that persisting the approval  *)
(* raises the version once: a task that exchanges can own no row whose     *)
(* approval is not there, not even one leased anew.                        *)
(*                                                                         *)
(* Last, sessions: one that was made for a flow is in the shop's hands or  *)
(* on the flow's row, because the reaper takes results and old rows in the *)
(* same order, and results first.                                          *)
(***************************************************************************)
EXTENDS GrantFlows, FiniteSetTheorems, TLAPS

Row == [status : {"none", "awaiting", "verifying", "complete", "ended", "purged"},
        version : Nat, owner : Nat, approved : {"none", "expected", "other"},
        lapsed : BOOLEAN, due : BOOLEAN, old : BOOLEAN,
        result : {"none", "fresh", "expired"}, delivered : BOOLEAN,
        claimed : BOOLEAN, payload : BOOLEAN, sid : BOOLEAN]

(* A task polls with the version its lease was taken at, and exchanges     *)
(* with the one its approval was persisted at.                             *)
Task == {t \in [flow : Flows, owner : Nat, version : Nat,
                stage : {"polling", "exchanging", "returning"}] :
            /\ t.stage = "polling" => t.version = t.owner
            /\ t.stage = "exchanging" => t.version = t.owner + 1}

TypeOK ==
    /\ flow \in [Flows -> Row]
    /\ tasks \subseteq Task
    /\ session \in [Flows -> BOOLEAN]

(* An approval is there only from the exchange on.                         *)
ApprovalsFit ==
    \A f \in Flows : flow[f].approved # "none" => flow[f].status \in {"verifying", "complete"}

(* What a task that exchanges owns is approved.                            *)
TasksFit ==
    \A t \in tasks : t.stage = "exchanging" /\ Owns(t) => flow[t.flow].approved # "none"

FenceInv == TypeOK /\ ApprovalsFit /\ TasksFit

(* What StatusMoves says of one step.                                      *)
Move(f) ==
    /\ flow[f].status \in Terminal => flow'[f].status \in {flow[f].status, "purged"}
    /\ flow[f].approved # "none" => flow'[f].status # "awaiting"
    /\ flow[f].status # "complete" /\ flow'[f].status = "complete" =>
          /\ flow[f].status = "verifying" /\ flow[f].approved # "none"
          /\ flow'[f].approved = "expected" /\ session'[f]

Moves == \A f \in Flows : Move(f)

-----------------------------------------------------------------------------
(* A row replaced, and the others as they were.                            *)
LEMMA RowReplaced ==
    ASSUME TypeOK, NEW f \in Flows, NEW r \in Row, flow' = [flow EXCEPT ![f] = r]
    PROVE  /\ flow' \in [Flows -> Row]
           /\ flow'[f] = r
           /\ \A g \in Flows \ {f} : flow'[g] = flow[g]
BY DEF TypeOK

(* An ended row is a row, without an approval.                             *)
LEMMA OverIsRow ==
    ASSUME NEW r \in Row
    PROVE  /\ Over(r) \in Row
           /\ Over(r).status = "ended" /\ Over(r).approved = "none"
BY Zenon DEF Over, NoRow, Row

(* A step that leaves tasks and sessions alone, and the status, owner,     *)
(* version and approval of every row, is no move.                          *)
LEMMA SameFence ==
    ASSUME FenceInv, flow' \in [Flows -> Row], session' \in [Flows -> BOOLEAN],
           tasks' \subseteq tasks,
           \A f \in Flows : /\ flow'[f].status = flow[f].status
                            /\ flow'[f].owner = flow[f].owner
                            /\ flow'[f].version = flow[f].version
                            /\ flow'[f].approved = flow[f].approved
    PROVE  FenceInv' /\ Moves
<1>1. TypeOK'
  BY DEF FenceInv, TypeOK
<1>2. ApprovalsFit'
  BY DEF FenceInv, ApprovalsFit
<1>3. TasksFit'
  <2>1. SUFFICES ASSUME NEW t \in tasks', t.stage = "exchanging", Owns(t)'
                 PROVE  (flow[t.flow].approved # "none")'
    BY DEF TasksFit
  <2>2. t \in tasks /\ t.flow \in Flows
    BY DEF FenceInv, TypeOK, Task
  <2>3. QED
    BY <2>1, <2>2 DEF FenceInv, TasksFit, Owns
<1>4. Moves
  BY DEF FenceInv, ApprovalsFit, Moves, Move, Terminal
<1>5. QED
  BY <1>1, <1>2, <1>3, <1>4 DEF FenceInv

(* Rows that end, none of which had ended: a fenced step.                  *)
LEMMA RowsEnd ==
    ASSUME FenceInv, NEW S \in SUBSET Flows,
           \A f \in S : flow[f].status \in {"awaiting", "verifying"},
           flow' = [f \in Flows |-> IF f \in S THEN Over(flow[f]) ELSE flow[f]],
           session' = session, tasks' \subseteq tasks
    PROVE  FenceInv' /\ Moves
<1>1. \A f \in S : flow'[f] \in Row /\ flow'[f].status = "ended" /\ flow'[f].approved = "none"
  BY OverIsRow DEF FenceInv, TypeOK
<1>2. \A f \in Flows \ S : flow'[f] = flow[f]
  OBVIOUS
<1>3. TypeOK'
  BY <1>1, <1>2, Zenon DEF FenceInv, TypeOK
<1>4. ApprovalsFit'
  BY <1>1, <1>2, Zenon DEF FenceInv, ApprovalsFit
<1>5. TasksFit'
  <2>1. SUFFICES ASSUME NEW t \in tasks', t.stage = "exchanging", Owns(t)'
                 PROVE  (flow[t.flow].approved # "none")'
    BY DEF TasksFit
  <2>2. t \in tasks /\ t.flow \in Flows
    BY DEF FenceInv, TypeOK, Task
  <2>3. QED
    BY <1>1, <1>2, <2>1, <2>2, Zenon DEF FenceInv, TasksFit, Owns
<1>6. Moves
  BY <1>1, <1>2, Zenon DEF FenceInv, ApprovalsFit, Moves, Move, Terminal
<1>7. QED
  BY <1>3, <1>4, <1>5, <1>6 DEF FenceInv

(* One row ends, in the hands of its task or of a canceller.               *)
LEMMA RowEnds ==
    ASSUME FenceInv, NEW f \in Flows, flow[f].status \in {"awaiting", "verifying"},
           flow' = [flow EXCEPT ![f] = Over(@)],
           session' = session, tasks' \subseteq tasks
    PROVE  FenceInv' /\ Moves
<1>1. flow' = [g \in Flows |-> IF g \in {f} THEN Over(flow[g]) ELSE flow[g]]
  BY Zenon DEF FenceInv, TypeOK
<1>2. QED
  BY <1>1, RowsEnd, Zenon

-----------------------------------------------------------------------------
(* The shop's requests keep the fence.                                     *)
LEMMA RequestsFenced ==
    ASSUME FenceInv, Requests
    PROVE  FenceInv' /\ Moves
<1>1. CASE \E f \in Flows : CreateFlow(f)
  <2>1. PICK f \in Flows : CreateFlow(f)
    BY <1>1
  <2>2. /\ flow' = [flow EXCEPT ![f] = [flow[f] EXCEPT !.status = "awaiting"]]
        /\ flow[f] \in Row /\ flow[f].status = "none"
        /\ tasks' = tasks /\ session' = session
    BY <2>1 DEF CreateFlow, AssertionGood, FenceInv, TypeOK
  <2> DEFINE r == [flow[f] EXCEPT !.status = "awaiting"]
  <2>3. r \in Row /\ r.status = "awaiting" /\ r.approved = "none"
    BY <2>2, Zenon DEF Row, FenceInv, ApprovalsFit
  <2> HIDE DEF r
  <2>4. /\ flow' \in [Flows -> Row] /\ flow'[f] = r
        /\ \A g \in Flows \ {f} : flow'[g] = flow[g]
    <3>1. flow' = [flow EXCEPT ![f] = r]
      BY <2>2 DEF r
    <3>2. QED
      BY <2>3, <3>1, RowReplaced, Zenon DEF FenceInv
  <2>5. TypeOK' /\ ApprovalsFit'
    BY <2>2, <2>3, <2>4 DEF FenceInv, TypeOK, ApprovalsFit
  <2>6. TasksFit'
    <3>1. SUFFICES ASSUME NEW t \in tasks, t.stage = "exchanging", Owns(t)'
                   PROVE  (flow[t.flow].approved # "none")'
      BY <2>2 DEF TasksFit
    <3>2. t.flow \in Flows
      BY DEF FenceInv, TypeOK, Task
    <3>3. QED
      BY <2>3, <2>4, <3>1, <3>2 DEF FenceInv, TasksFit, Owns
  <2>7. Moves
    BY <2>2, <2>3, <2>4 DEF FenceInv, ApprovalsFit, Moves, Move, Terminal
  <2>8. QED
    BY <2>5, <2>6, <2>7 DEF FenceInv
<1>2. CASE \E f \in Flows : CancelFlow(f)
  <2>1. PICK f \in Flows : CancelFlow(f)
    BY <1>2
  <2>2. QED
    BY <2>1, RowEnds, Zenon DEF CancelFlow
<1>3. CASE \E f \in Flows : ResultTicket(f)
  <2>1. PICK f \in Flows : ResultTicket(f)
    BY <1>3
  <2> DEFINE r == [flow[f] EXCEPT !.delivered = TRUE]
  <2>2. flow' = [flow EXCEPT ![f] = r] /\ flow[f] \in Row /\ tasks' = tasks /\ session' = session
    BY <2>1 DEF ResultTicket, FenceInv, TypeOK
  <2>3. /\ r \in Row /\ r.status = flow[f].status /\ r.owner = flow[f].owner
        /\ r.version = flow[f].version /\ r.approved = flow[f].approved
    BY <2>2, Zenon DEF Row
  <2> HIDE DEF r
  <2>4. QED
    BY <2>2, <2>3, RowReplaced, SameFence, Zenon DEF FenceInv, TypeOK
<1>4. CASE \E f \in Flows : ClaimResult(f)
  <2>1. PICK f \in Flows : ClaimResult(f)
    BY <1>4
  <2> DEFINE r == [flow[f] EXCEPT !.claimed = TRUE, !.payload = FALSE]
  <2>2. flow' = [flow EXCEPT ![f] = r] /\ flow[f] \in Row /\ tasks' = tasks /\ session' = session
    BY <2>1, Zenon DEF ClaimResult, FenceInv, TypeOK
  <2>3. /\ r \in Row /\ r.status = flow[f].status /\ r.owner = flow[f].owner
        /\ r.version = flow[f].version /\ r.approved = flow[f].approved
    BY <2>2, Zenon DEF Row
  <2> HIDE DEF r
  <2>4. QED
    BY <2>2, <2>3, RowReplaced, SameFence, Zenon DEF FenceInv, TypeOK
<1>5. CASE \E f \in Flows, p \in Purposes : IssueNonce(f, p)
  BY <1>5, SameFence DEF IssueNonce, FenceInv, TypeOK
<1>6. QED
  BY <1>1, <1>2, <1>3, <1>4, <1>5 DEF Requests

(* A lease taken anew is owned by no task that exchanges.                  *)
LEMMA AcquireFenced ==
    ASSUME FenceInv, NEW f \in Flows, AcquireFlow(f)
    PROVE  FenceInv' /\ Moves
<1> DEFINE v == flow[f].version + 1
           r == [flow[f] EXCEPT !.status = "verifying", !.version = v, !.owner = v,
                                !.lapsed = FALSE]
           n == [flow |-> f, owner |-> v, version |-> v, stage |-> "polling"]
<1>1. /\ flow[f] \in Row /\ flow[f].status = "awaiting"
      /\ flow' = [flow EXCEPT ![f] = r]
      /\ tasks' = tasks \union {n} /\ session' = session
  BY Zenon DEF AcquireFlow, FenceInv, TypeOK
<1>2. v \in Nat /\ flow[f].approved = "none"
  BY <1>1 DEF Row, FenceInv, ApprovalsFit
<1> HIDE DEF v
<1>3. /\ r \in Row /\ r.status = "verifying" /\ r.approved = "none"
      /\ r.version = v /\ r.owner = v
  BY <1>1, <1>2, Zenon DEF Row
<1>4. n \in Task /\ n.stage = "polling"
  BY <1>2 DEF Task
<1> HIDE DEF r, n
<1>5. /\ flow' \in [Flows -> Row] /\ flow'[f] = r
      /\ \A g \in Flows \ {f} : flow'[g] = flow[g]
  BY <1>1, <1>3, RowReplaced, Zenon DEF FenceInv
<1>6. TypeOK' /\ ApprovalsFit'
  BY <1>1, <1>3, <1>4, <1>5 DEF FenceInv, TypeOK, ApprovalsFit
<1>7. TasksFit'
  <2>1. SUFFICES ASSUME NEW t \in tasks', t.stage = "exchanging", Owns(t)'
                 PROVE  (flow[t.flow].approved # "none")'
    BY DEF TasksFit
  <2>2. t \in tasks /\ t.flow \in Flows /\ t.owner \in Nat
    BY <1>1, <1>4, <2>1 DEF FenceInv, TypeOK, Task
  <2>3. t.version = t.owner + 1
    BY <2>1, <2>2 DEF FenceInv, TypeOK, Task
  <2>4. CASE t.flow = f
    BY <1>2, <1>3, <1>5, <2>1, <2>2, <2>3, <2>4 DEF Owns
  <2>5. CASE t.flow # f
    BY <1>5, <2>1, <2>2, <2>3, <2>5 DEF FenceInv, TasksFit, Owns
  <2>6. QED
    BY <2>3, <2>4, <2>5
<1>8. Moves
  BY <1>1, <1>2, <1>3, <1>5 DEF FenceInv, ApprovalsFit, Moves, Move, Terminal
<1>9. QED
  BY <1>6, <1>7, <1>8 DEF FenceInv

(* The last write of a task applies to its own row or to none.             *)
LEMMA TerminalizeFenced ==
    ASSUME FenceInv, NEW t \in tasks, TerminalizeOwned(t)
    PROVE  FenceInv' /\ Moves
<1>1. t.flow \in Flows /\ tasks' \subseteq tasks /\ session' = session
  BY DEF FenceInv, TypeOK, Task, TerminalizeOwned
<1>2. CASE Owns(t)
  BY <1>1, <1>2, RowEnds DEF TerminalizeOwned, Owns
<1>3. CASE ~Owns(t)
  BY <1>1, <1>3, SameFence DEF TerminalizeOwned, FenceInv, TypeOK
<1>4. QED
  BY <1>2, <1>3

(* Only a row without an approval is returned.                             *)
LEMMA ReturnFenced ==
    ASSUME FenceInv, NEW t \in tasks, ReturnOwned(t)
    PROVE  FenceInv' /\ Moves
<1>1. t.flow \in Flows /\ tasks' \subseteq tasks /\ session' = session
  BY DEF FenceInv, TypeOK, Task, ReturnOwned
<1>2. CASE Owns(t) /\ flow[t.flow].approved = "none"
  <2> DEFINE f == t.flow
             r == [flow[f] EXCEPT !.status = "awaiting", !.owner = 0, !.lapsed = FALSE]
  <2>1. /\ flow[f] \in Row /\ flow[f].status = "verifying"
        /\ flow' = [flow EXCEPT ![f] = r]
    BY <1>1, <1>2, Zenon DEF ReturnOwned, Owns, FenceInv, TypeOK
  <2>2. r \in Row /\ r.status = "awaiting" /\ r.approved = "none"
    BY <1>2, <2>1, Zenon DEF Row
  <2> HIDE DEF r
  <2>3. /\ flow' \in [Flows -> Row] /\ flow'[f] = r
        /\ \A g \in Flows \ {f} : flow'[g] = flow[g]
    BY <1>1, <2>1, <2>2, RowReplaced, Zenon DEF FenceInv
  <2>4. TypeOK' /\ ApprovalsFit'
    BY <1>1, <2>2, <2>3 DEF FenceInv, TypeOK, ApprovalsFit
  <2>5. TasksFit'
    <3>1. SUFFICES ASSUME NEW u \in tasks', u.stage = "exchanging", Owns(u)'
                   PROVE  (flow[u.flow].approved # "none")'
      BY DEF TasksFit
    <3>2. u \in tasks /\ u.flow \in Flows
      BY <1>1, <3>1 DEF FenceInv, TypeOK, Task
    <3>3. QED
      BY <2>2, <2>3, <3>1, <3>2, Zenon DEF FenceInv, TasksFit, Owns
  <2>6. Moves
    BY <1>1, <1>2, <2>1, <2>2, <2>3, Zenon DEF FenceInv, ApprovalsFit, Moves, Move, Terminal
  <2>7. QED
    BY <2>4, <2>5, <2>6 DEF FenceInv
<1>3. CASE ~(Owns(t) /\ flow[t.flow].approved = "none")
  BY <1>1, <1>3, SameFence, Zenon DEF ReturnOwned, FenceInv, TypeOK
<1>4. QED
  BY <1>2, <1>3

(* The approval is persisted for the task that owns the row, which goes on *)
(* with the raised version; any other stops.                               *)
LEMMA EnterFenced ==
    ASSUME FenceInv, NEW t \in tasks, NEW who \in Identities, EnterExchanging(t, who)
    PROVE  FenceInv' /\ Moves
<1>1. t \in Task /\ t.flow \in Flows /\ t.stage = "polling" /\ session' = session
  BY Zenon DEF FenceInv, TypeOK, Task, EnterExchanging
<1>2. CASE Owns(t) /\ flow[t.flow].approved = "none"
  <2> DEFINE f == t.flow
             r == [flow[f] EXCEPT !.approved = who, !.lapsed = FALSE,
                                  !.version = flow[f].version + 1]
             n == [t EXCEPT !.stage = "exchanging", !.version = t.version + 1]
  <2>1. /\ flow[f] \in Row /\ flow[f].status = "verifying"
        /\ flow' = [flow EXCEPT ![f] = r]
        /\ tasks' = (tasks \ {t}) \union {n}
    BY <1>1, <1>2, Zenon DEF EnterExchanging, Owns, FenceInv, TypeOK
  <2>2. flow[f].version + 1 \in Nat
    BY <2>1 DEF Row
  <2>3. r \in Row /\ r.status = "verifying" /\ r.approved # "none"
    BY <2>1, <2>2, Zenon DEF Row, Identities
  <2>4. n \in Task
    <3>1. t.version = t.owner /\ t.version + 1 \in Nat
      BY <1>1 DEF Task
    <3>2. /\ n \in [flow : Flows, owner : Nat, version : Nat,
                    stage : {"polling", "exchanging", "returning"}]
          /\ n.stage = "exchanging" /\ n.version = t.version + 1 /\ n.owner = t.owner
      BY <1>1, <3>1, Zenon DEF Task
    <3> HIDE DEF n
    <3>3. QED
      BY <3>1, <3>2 DEF Task
  <2> HIDE DEF r, n
  <2>5. /\ flow' \in [Flows -> Row] /\ flow'[f] = r
        /\ \A g \in Flows \ {f} : flow'[g] = flow[g]
    BY <1>1, <2>1, <2>3, RowReplaced, Zenon DEF FenceInv
  <2>6. TypeOK' /\ ApprovalsFit'
    BY <1>1, <2>1, <2>3, <2>4, <2>5, Zenon DEF FenceInv, TypeOK, ApprovalsFit
  <2>7. TasksFit'
    <3>1. SUFFICES ASSUME NEW u \in tasks', u.stage = "exchanging", Owns(u)'
                   PROVE  (flow[u.flow].approved # "none")'
      BY Zenon DEF TasksFit
    <3>2. CASE u.flow = f
      BY <2>3, <2>5, <3>2, Zenon
    <3>3. CASE u.flow # f
      <4>1. u \in tasks /\ u.flow \in Flows
        BY <2>1, <3>3, <1>1, Zenon DEF n, Task, FenceInv, TypeOK
      <4>2. QED
        BY <2>5, <3>1, <3>3, <4>1, Zenon DEF FenceInv, TasksFit, Owns
    <3>4. QED
      BY <3>2, <3>3
  <2>8. Moves
    BY <1>1, <2>1, <2>3, <2>5, Zenon DEF FenceInv, ApprovalsFit, Moves, Move, Terminal
  <2>9. QED
    BY <2>6, <2>7, <2>8 DEF FenceInv
<1>3. CASE ~(Owns(t) /\ flow[t.flow].approved = "none")
  <2> DEFINE n == [t EXCEPT !.stage = "returning"]
  <2>1. tasks' = (tasks \ {t}) \union {n} /\ flow' = flow
    BY <1>1, <1>3, Zenon DEF EnterExchanging
  <2>2. n \in Task /\ n.stage = "returning"
    BY <1>1 DEF Task
  <2> HIDE DEF n
  <2>3. TypeOK' /\ ApprovalsFit'
    BY <1>1, <2>1, <2>2 DEF FenceInv, TypeOK, ApprovalsFit
  <2>4. TasksFit'
    BY <2>1, <2>2 DEF FenceInv, TasksFit, Owns
  <2>5. Moves
    BY <2>1 DEF FenceInv, ApprovalsFit, Moves, Move, Terminal
  <2>6. QED
    BY <2>3, <2>4, <2>5 DEF FenceInv
<1>4. QED
  BY <1>2, <1>3

(* A completion is written by the owner of an approved row.                *)
LEMMA SettleFenced ==
    ASSUME FenceInv, NEW t \in tasks, NEW who \in Identities, NEW within,
           SettleVerified(t, who, within)
    PROVE  FenceInv' /\ Moves
<1>1. t.flow \in Flows /\ t.stage = "exchanging"
  BY DEF FenceInv, TypeOK, Task, SettleVerified
<1>2. CASE TerminalizeOwned(t)
  BY <1>2, TerminalizeFenced
<1>3. CASE who = "expected" /\ CompleteOwned(t, who)
  <2>1. tasks' \subseteq tasks
    BY <1>3 DEF CompleteOwned
  <2>2. CASE ~Owns(t)
    BY <1>3, <2>1, <2>2, SameFence DEF CompleteOwned, FenceInv, TypeOK
  <2>3. CASE Owns(t)
    <3> DEFINE f == t.flow
               r == [Over(flow[f]) EXCEPT !.status = "complete", !.approved = who,
                        !.result = "fresh", !.payload = TRUE, !.sid = TRUE]
    <3>1. /\ flow[f] \in Row /\ flow[f].status = "verifying" /\ flow[f].approved # "none"
          /\ flow' = [flow EXCEPT ![f] = r]
          /\ session' = [session EXCEPT ![f] = TRUE]
      BY <1>1, <1>3, <2>3, Zenon DEF CompleteOwned, Owns, FenceInv, TypeOK, TasksFit
    <3>2. r \in Row /\ r.status = "complete" /\ r.approved = "expected"
      BY <1>3, <3>1, OverIsRow, ZenonT(60) DEF Row
    <3> HIDE DEF r
    <3>3. /\ flow' \in [Flows -> Row] /\ flow'[f] = r
          /\ \A g \in Flows \ {f} : flow'[g] = flow[g]
      BY <1>1, <3>1, <3>2, RowReplaced, Zenon DEF FenceInv
    <3>4. session' \in [Flows -> BOOLEAN] /\ session'[f]
      BY <1>1, <3>1 DEF FenceInv, TypeOK
    <3>5. TypeOK' /\ ApprovalsFit'
      BY <1>1, <2>1, <3>2, <3>3, <3>4, Zenon DEF FenceInv, TypeOK, ApprovalsFit
    <3>6. TasksFit'
      <4>1. SUFFICES ASSUME NEW u \in tasks', u.stage = "exchanging", Owns(u)'
                     PROVE  (flow[u.flow].approved # "none")'
        BY DEF TasksFit
      <4>2. u \in tasks /\ u.flow \in Flows
        BY <2>1 DEF FenceInv, TypeOK, Task
      <4>3. QED
        BY <3>2, <3>3, <4>1, <4>2, Zenon DEF FenceInv, TasksFit, Owns
    <3>7. Moves
      BY <1>1, <3>1, <3>2, <3>3, <3>4, Zenon DEF FenceInv, ApprovalsFit, Moves, Move, Terminal
    <3>8. QED
      BY <3>5, <3>6, <3>7 DEF FenceInv
  <2>4. QED
    BY <2>2, <2>3
<1>4. QED
  BY <1>2, <1>3 DEF SettleVerified

(* A flag of one row changes: no move.                                     *)
LEMMA FlagFenced ==
    ASSUME FenceInv, NEW f \in Flows, NEW r \in Row, flow' = [flow EXCEPT ![f] = r],
           r.status = flow[f].status, r.owner = flow[f].owner,
           r.version = flow[f].version, r.approved = flow[f].approved,
           tasks' = tasks, session' = session
    PROVE  FenceInv' /\ Moves
BY RowReplaced, SameFence, Zenon DEF FenceInv, TypeOK

(* A task that dies leaves the rows alone.                                 *)
LEMMA DiesFenced ==
    ASSUME FenceInv, NEW t \in tasks, TaskDies(t)
    PROVE  FenceInv' /\ Moves
<1>1. flow' = flow /\ session' = session /\ t \in Task
  BY DEF TaskDies, FenceInv, TypeOK
<1>2. CASE tasks' = tasks \ {t}
  BY <1>1, <1>2, SameFence DEF FenceInv, TypeOK
<1>3. CASE tasks' = (tasks \ {t}) \union {[t EXCEPT !.stage = "returning"]}
  <2> DEFINE n == [t EXCEPT !.stage = "returning"]
  <2>1. n \in Task /\ n.stage = "returning"
    BY <1>1 DEF Task
  <2> HIDE DEF n
  <2>2. tasks' = (tasks \ {t}) \union {n}
    BY <1>3 DEF n
  <2>3. TypeOK' /\ ApprovalsFit'
    BY <1>1, <2>1, <2>2, Zenon DEF FenceInv, TypeOK, ApprovalsFit
  <2>4. TasksFit'
    BY <1>1, <2>1, <2>2, Zenon DEF FenceInv, TasksFit, Owns
  <2>5. Moves
    BY <1>1, Zenon DEF FenceInv, ApprovalsFit, Moves, Move, Terminal
  <2>6. QED
    BY <2>3, <2>4, <2>5 DEF FenceInv
<1>4. QED
  BY <1>2, <1>3 DEF TaskDies

(* Every step of a worker keeps the fence.                                 *)
LEMMA WorkerFenced ==
    ASSUME FenceInv, Worker
    PROVE  FenceInv' /\ Moves
<1>1. CASE \E f \in Flows : AcquireFlow(f)
  BY <1>1, AcquireFenced
<1>2. CASE \E t \in tasks : ProcessLease(t)
  <2>1. PICK t \in tasks : ProcessLease(t)
    BY <1>2
  <2>2. CASE ReturnOwned(t)
    BY <2>2, ReturnFenced
  <2>3. CASE PollFails(t) \/ ExchangeFails(t)
    BY <2>3, TerminalizeFenced DEF PollFails, ExchangeFails
  <2>4. CASE \E who \in Identities : EnterExchanging(t, who)
    BY <2>4, EnterFenced
  <2>5. CASE \E who \in Identities, within \in Verdicts : SettleVerified(t, who, within)
    BY <2>5, SettleFenced
  <2>6. QED
    BY <2>1, <2>2, <2>3, <2>4, <2>5 DEF ProcessLease
<1>3. CASE \E t \in tasks : Heartbeat(t)
  <2>1. PICK t \in tasks : Heartbeat(t)
    BY <1>3
  <2> DEFINE f == t.flow
             r == [flow[f] EXCEPT !.lapsed = FALSE]
  <2>2. /\ f \in Flows /\ flow[f] \in Row /\ flow' = [flow EXCEPT ![f] = r]
        /\ tasks' = tasks /\ session' = session
    BY <2>1 DEF Heartbeat, FenceInv, TypeOK, Task
  <2>3. /\ r \in Row /\ r.status = flow[f].status /\ r.owner = flow[f].owner
        /\ r.version = flow[f].version /\ r.approved = flow[f].approved
    BY <2>2, Zenon DEF Row
  <2> HIDE DEF r
  <2>4. QED
    BY <2>2, <2>3, FlagFenced, Zenon
<1>4. CASE \E t \in tasks : TaskDies(t)
  BY <1>4, DiesFenced
<1>5. QED
  BY <1>1, <1>2, <1>3, <1>4, Zenon DEF Worker

(* The reaper ends rows that are open, and moves no row that ended but to  *)
(* delete it.                                                              *)
LEMMA ReaperFenced ==
    ASSUME FenceInv, ReapOnce
    PROVE  FenceInv' /\ Moves
<1>1. tasks' = tasks
  BY DEF ReapOnce
<1>2. CASE ReapUnfinished /\ session' = session
  <2>1. PICK A \in Batches(Overdue), B \in Batches(LapsedPolling), C \in Batches(LapsedExchanging) :
          flow' = [f \in Flows |-> IF f \in A \union B \union C THEN Over(flow[f]) ELSE flow[f]]
    BY <1>2 DEF ReapUnfinished
  <2> DEFINE S == A \union B \union C
  <2>2. S \in SUBSET Flows /\ \A f \in S : flow[f].status \in {"awaiting", "verifying"}
    BY Zenon DEF Batches, Overdue, LapsedPolling, LapsedExchanging, Lapsed
  <2>3. flow' = [f \in Flows |-> IF f \in S THEN Over(flow[f]) ELSE flow[f]]
    BY <2>1
  <2> HIDE DEF S
  <2>4. QED
    BY <1>1, <1>2, <2>2, <2>3, RowsEnd
<1>3. CASE ReapResults
  <2>1. PICK S :
          /\ session' = [f \in Flows |-> session[f] /\ ~(f \in S /\ flow[f].sid)]
          /\ flow' = [f \in Flows |->
                IF f \in S THEN [flow[f] EXCEPT !.result = "none", !.payload = FALSE, !.sid = FALSE]
                           ELSE flow[f]]
    BY <1>3, Zenon DEF ReapResults
  <2>2. \A f \in Flows :
          /\ flow'[f] \in Row /\ flow'[f].status = flow[f].status
          /\ flow'[f].owner = flow[f].owner
          /\ flow'[f].version = flow[f].version /\ flow'[f].approved = flow[f].approved
    <3>1. TAKE f \in Flows
    <3>2. flow[f] \in Row
      BY DEF FenceInv, TypeOK
    <3>3. CASE f \in S
      <4>1. flow'[f] = [flow[f] EXCEPT !.result = "none", !.payload = FALSE, !.sid = FALSE]
        BY <2>1, <3>3, Zenon
      <4>2. QED
        BY <3>2, <4>1, ZenonT(60) DEF Row
    <3>4. CASE f \notin S
      BY <2>1, <3>2, <3>4, Zenon
    <3>5. QED
      BY <3>3, <3>4, Zenon
  <2>3. flow' \in [Flows -> Row]
    BY <2>1, <2>2, Zenon
  <2>4. session' \in [Flows -> BOOLEAN]
    BY <2>1, Zenon DEF FenceInv, TypeOK
  <2>5. QED
    BY <1>1, <2>2, <2>3, <2>4, SameFence
<1>4. CASE Purge /\ session' = session
  <2> DEFINE gone == [NoRow EXCEPT !.status = "purged"]
  <2>1. PICK S : flow' = [f \in Flows |-> IF f \in S THEN gone ELSE flow[f]]
    BY <1>4 DEF Purge
  <2>2. gone \in Row /\ gone.status = "purged" /\ gone.approved = "none"
    BY Zenon DEF NoRow, Row
  <2> HIDE DEF gone
  <2>3. \A f \in Flows : flow'[f] = gone \/ flow'[f] = flow[f]
    BY <2>1
  <2>4. TypeOK' /\ ApprovalsFit'
    BY <1>1, <1>4, <2>1, <2>2, <2>3 DEF FenceInv, TypeOK, ApprovalsFit
  <2>5. TasksFit'
    <3>1. SUFFICES ASSUME NEW t \in tasks, t.stage = "exchanging", Owns(t)'
                   PROVE  (flow[t.flow].approved # "none")'
      BY <1>1 DEF TasksFit
    <3>2. t.flow \in Flows
      BY DEF FenceInv, TypeOK, Task
    <3>3. QED
      BY <2>2, <2>3, <3>1, <3>2, Zenon DEF FenceInv, TasksFit, Owns
  <2>6. Moves
    BY <2>2, <2>3 DEF FenceInv, ApprovalsFit, Moves, Move, Terminal
  <2>7. QED
    BY <2>4, <2>5, <2>6 DEF FenceInv
<1>5. QED
  BY <1>2, <1>3, <1>4 DEF ReapOnce

(* Time moves no status.                                                   *)
LEMMA ClockFenced ==
    ASSUME FenceInv, Clock
    PROVE  FenceInv' /\ Moves
<1>1. CASE \E f \in Flows : FlowExpires(f)
  <2>1. PICK f \in Flows : FlowExpires(f)
    BY <1>1
  <2> DEFINE r == [flow[f] EXCEPT !.due = TRUE]
  <2>2. /\ flow[f] \in Row /\ flow' = [flow EXCEPT ![f] = r]
        /\ tasks' = tasks /\ session' = session
    BY <2>1 DEF FlowExpires, Untouched, FenceInv, TypeOK
  <2>3. /\ r \in Row /\ r.status = flow[f].status /\ r.owner = flow[f].owner
        /\ r.version = flow[f].version /\ r.approved = flow[f].approved
    BY <2>2, Zenon DEF Row
  <2> HIDE DEF r
  <2>4. QED
    BY <2>2, <2>3, FlagFenced, Zenon
<1>2. CASE \E f \in Flows : LeaseLapses(f)
  <2>1. PICK f \in Flows : LeaseLapses(f)
    BY <1>2
  <2> DEFINE r == [flow[f] EXCEPT !.lapsed = TRUE]
  <2>2. /\ flow[f] \in Row /\ flow' = [flow EXCEPT ![f] = r]
        /\ tasks' = tasks /\ session' = session
    BY <2>1 DEF LeaseLapses, Untouched, FenceInv, TypeOK
  <2>3. /\ r \in Row /\ r.status = flow[f].status /\ r.owner = flow[f].owner
        /\ r.version = flow[f].version /\ r.approved = flow[f].approved
    BY <2>2, Zenon DEF Row
  <2> HIDE DEF r
  <2>4. QED
    BY <2>2, <2>3, FlagFenced, Zenon
<1>3. CASE \E f \in Flows : TokenExpires(f)
  <2>1. PICK f \in Flows : TokenExpires(f)
    BY <1>3
  <2> DEFINE r == [flow[f] EXCEPT !.result = "expired"]
  <2>2. /\ flow[f] \in Row /\ flow' = [flow EXCEPT ![f] = r]
        /\ tasks' = tasks /\ session' = session
    BY <2>1 DEF TokenExpires, Untouched, FenceInv, TypeOK
  <2>3. /\ r \in Row /\ r.status = flow[f].status /\ r.owner = flow[f].owner
        /\ r.version = flow[f].version /\ r.approved = flow[f].approved
    BY <2>2 DEF Row
  <2> HIDE DEF r
  <2>4. QED
    BY <2>2, <2>3, FlagFenced, Zenon
<1>4. CASE \E f \in Flows : RetentionPasses(f)
  <2>1. PICK f \in Flows : RetentionPasses(f)
    BY <1>4
  <2> DEFINE r == [flow[f] EXCEPT !.old = TRUE]
  <2>2. /\ flow[f] \in Row /\ flow' = [flow EXCEPT ![f] = r]
        /\ tasks' = tasks /\ session' = session
    BY <2>1 DEF RetentionPasses, Untouched, FenceInv, TypeOK
  <2>3. /\ r \in Row /\ r.status = flow[f].status /\ r.owner = flow[f].owner
        /\ r.version = flow[f].version /\ r.approved = flow[f].approved
    BY <2>2, Zenon DEF Row
  <2> HIDE DEF r
  <2>4. QED
    BY <2>2, <2>3, FlagFenced, Zenon
<1>5. CASE NonceExpires
  BY <1>5, SameFence DEF NonceExpires, Untouched, FenceInv, TypeOK
<1>6. QED
  BY <1>1, <1>2, <1>3, <1>4, <1>5 DEF Clock, Deadlines

(* At the start there is no row to fence.                                  *)
LEMMA InitFence ==
    ASSUME GrantInit
    PROVE  FenceInv
<1>1. NoRow \in Row /\ NoRow.approved = "none"
  BY DEF NoRow, Row
<1>2. \A f \in Flows : flow[f] = NoRow
  BY DEF GrantInit
<1>3. TypeOK
  BY <1>1 DEF GrantInit, TypeOK
<1>4. ApprovalsFit /\ TasksFit
  BY <1>1, <1>2 DEF GrantInit, ApprovalsFit, TasksFit
<1>5. QED
  BY <1>3, <1>4 DEF FenceInv

(* The fence of owner, version and approval holds in every reachable state *)
(* (the WHERE clauses of acquire_flows, enter_exchanging, complete_owned,  *)
(* terminalize_owned and return_owned_to_awaiting).                        *)
THEOREM FenceHolds == Spec => []FenceInv
<1>1. GrantInit => FenceInv
  BY InitFence
<1>2. FenceInv /\ [Next]_vars => FenceInv'
  <2>1. SUFFICES ASSUME FenceInv, [Next]_vars PROVE FenceInv'
    OBVIOUS
  <2>2. CASE Next
    BY <2>1, <2>2, RequestsFenced, WorkerFenced, ReaperFenced, ClockFenced DEF Next
  <2>3. CASE UNCHANGED vars
    BY <2>1, <2>3, SameFence DEF vars, FenceInv, TypeOK
  <2>4. QED
    BY <2>1, <2>2, <2>3
<1>3. QED
  BY <1>1, <1>2, PTL DEF Spec

(* Whatever the interleaving of workers, lost leases, deaths, reaper and   *)
(* shop: a flow that ended is not revived, one with a persisted approval   *)
(* is not polled for again, and one completes only from that stage and for *)
(* its expected identity, together with its session (process_lease,        *)
(* reap_once).                                                             *)
THEOREM StatusMovesFenced == Spec => StatusMoves
<1>1. FenceInv /\ [Next]_vars =>
        [\A f \in Flows :
          LET was == flow[f]
              is == flow'[f]
          IN  /\ was.status \in Terminal => is.status \in {was.status, "purged"}
              /\ was.approved # "none" => is.status # "awaiting"
              /\ was.status # "complete" /\ is.status = "complete" =>
                    /\ was.status = "verifying" /\ was.approved # "none"
                    /\ is.approved = "expected" /\ session'[f]]_vars
  <2>1. SUFFICES ASSUME FenceInv, Next PROVE Moves
    BY Zenon DEF Moves, Move
  <2>2. QED
    BY <2>1, RequestsFenced, WorkerFenced, ReaperFenced, ClockFenced DEF Next
<1>2. QED
  BY <1>1, FenceHolds, PTL DEF Spec, StatusMoves

-----------------------------------------------------------------------------
(* Sessions and bearers.  That no session is lost is a matter of order:    *)
(* the reaper deletes unclaimed results and purges old rows in batches,    *)
(* and only as both go by terminal_at does the purge stay behind.          *)

(* terminal_at is set.                                                     *)
Done(f) == flow[f].status \in Terminal

(* The flows Now has counted.                                              *)
DoneOrGone == {f \in Flows : flow[f].status \in Terminal \union {"purged"}}

(* A session whose bearer nobody was given.                                *)
Unclaimed(f) == session[f] /\ handed[f] = 0

(* What one flow's row says of its session and bearer: SessionAccounted,   *)
(* with the payload that is sealed for a session that exists, and with a   *)
(* retention that outlasts the token.                                      *)
Bearer(f) ==
    /\ handed[f] \in {0, 1}
    /\ handed[f] = 1 => /\ session[f]
                        /\ flow[f].status \in {"complete", "purged"}
                        /\ flow[f].status = "complete" => flow[f].claimed
    /\ Unclaimed(f) => /\ flow[f].status = "complete" /\ ~flow[f].claimed
                       /\ flow[f].sid /\ flow[f].payload
    /\ flow[f].payload => flow[f].sid /\ flow[f].result # "none"
    /\ flow[f].old => Done(f) /\ (flow[f].result = "fresh" => flow[f].claimed)

(* The order of terminal_at: two flows with a result ended at different    *)
(* times, and retention passes in that order.                              *)
Queue ==
    /\ \A f \in Flows : ended[f] < Now /\ (Done(f) => ended[f] > 0)
    /\ \A f, g \in Flows :
          /\ flow[f].status = "complete" /\ flow[g].status = "complete" /\ f # g =>
                ended[f] # ended[g]
          /\ flow[f].old /\ Done(g) /\ ended[g] < ended[f] => flow[g].old

(* The reaper's pass: the flows it holds for old are, with every older     *)
(* one; and before it purges, an old session that was left behind has a    *)
(* full batch of older flows before it.                                    *)
Pass ==
    /\ \A f \in reaper.old : flow[f].old
    /\ \A f \in reaper.old, g \in Flows :
          Done(g) /\ ended[g] < ended[f] => g \in reaper.old
    /\ reaper.at = "purge" =>
          \A f \in reaper.old : Unclaimed(f) =>
             Cardinality({g \in reaper.old : ended[g] < ended[f]}) >= ReaperBatch

AccountInv ==
    /\ ended \in [Flows -> Nat] /\ handed \in [Flows -> Nat]
    /\ reaper \in [at : {"unfinished", "results", "purge"}, old : SUBSET Flows]
    /\ \A f \in Flows : Bearer(f)
    /\ Queue
    /\ Pass

(* The clock that stamps terminal_at is a positive number.                 *)
LEMMA NowIsNat == Now \in Nat /\ Now > 0
<1>1. IsFiniteSet(DoneOrGone)
  BY FlowsFinite, FS_Subset DEF DoneOrGone
<1> QED
  BY <1>1, FS_CardinalityType DEF Now, DoneOrGone

(* It never goes back, and a flow that comes to its end puts it forward.   *)
LEMMA NowGrows ==
    ASSUME DoneOrGone \subseteq DoneOrGone'
    PROVE  Now <= Now' /\ (DoneOrGone # DoneOrGone' => Now < Now')
<1>1. IsFiniteSet(DoneOrGone') /\ IsFiniteSet(DoneOrGone)
  BY FlowsFinite, FS_Subset, Zenon DEF DoneOrGone
<1>2. Cardinality(DoneOrGone) \in Nat /\ Cardinality(DoneOrGone') \in Nat
  BY <1>1, FS_CardinalityType
<1>3. /\ Cardinality(DoneOrGone) <= Cardinality(DoneOrGone')
      /\ Cardinality(DoneOrGone) = Cardinality(DoneOrGone') => DoneOrGone = DoneOrGone'
  BY <1>1, FS_Subset
<1> QED
  BY <1>2, <1>3 DEF Now, DoneOrGone

(* How a step that purges nothing writes terminal_at. *)
Stamps ==
    /\ ended' \in [Flows -> Nat]
    /\ \A f \in Flows :
          /\ Done(f) => flow'[f].status = flow[f].status /\ ended'[f] = ended[f]
          /\ ~Done(f) => IF Done(f)' THEN ended'[f] = Now ELSE ended'[f] = ended[f]
          /\ flow[f].status = "purged" => flow'[f].status = "purged"

(* A step that stamps what it ends with the clock, and ends one flow at    *)
(* most with a result, keeps the order of terminal_at (terminal_at = now   *)
(* in every statement that ends a flow).                                   *)
LEMMA QueueKept ==
    ASSUME AccountInv, Stamps,
           \A f \in Flows : flow'[f].old <=> flow[f].old,
           \A f, g \in Flows :
              flow'[f].status = "complete" /\ flow[f].status # "complete" =>
                 (flow'[g].status = "complete" /\ flow[g].status # "complete" => f = g)
    PROVE  Queue'
<1>0. Now \in Nat /\ Now > 0 /\ ended \in [Flows -> Nat]
  BY NowIsNat, Zenon DEF AccountInv
<1>1. DoneOrGone \subseteq DoneOrGone'
  BY Zenon DEF Stamps, DoneOrGone, Done
<1>2. Now' \in Nat /\ Now <= Now' /\ (DoneOrGone # DoneOrGone' => Now < Now')
  <2>1. Now' \in Nat
    <3>1. IsFiniteSet(DoneOrGone')
      BY FlowsFinite, FS_Subset DEF DoneOrGone
    <3> QED
      BY <3>1, FS_CardinalityType DEF Now, DoneOrGone
  <2> QED
    BY <1>1, <2>1, NowGrows
<1>3. ASSUME NEW f \in Flows PROVE ended'[f] < Now' /\ (Done(f)' => ended'[f] > 0)
  <2>1. CASE ended'[f] = ended[f] /\ (Done(f)' => Done(f))
    BY <1>0, <1>2, <2>1 DEF AccountInv, Queue
  <2>2. CASE ~Done(f) /\ Done(f)' /\ ended'[f] = Now
    <3>1. f \in DoneOrGone' /\ f \notin DoneOrGone
      BY <2>2, Zenon DEF DoneOrGone, Done, Stamps, Terminal
    <3> QED
      BY <1>0, <1>2, <2>2, <3>1, Zenon
  <2> QED
    BY <2>1, <2>2, Zenon DEF Stamps
<1>4. ASSUME NEW f \in Flows, NEW g \in Flows, f # g,
             flow'[f].status = "complete", flow'[g].status = "complete"
      PROVE  ended'[f] # ended'[g]
  <2>1. /\ flow[f].status = "complete" => ended'[f] = ended[f] /\ ended[f] < Now
        /\ flow[g].status = "complete" => ended'[g] = ended[g] /\ ended[g] < Now
        /\ flow[f].status # "complete" => ended'[f] = Now
        /\ flow[g].status # "complete" => ended'[g] = Now
    BY <1>4, Zenon DEF Stamps, Done, Terminal, AccountInv, Queue
  <2> QED
    BY <1>0, <1>4, <2>1 DEF AccountInv, Queue
<1>5. ASSUME NEW f \in Flows, NEW g \in Flows,
             flow'[f].old, Done(g)', ended'[g] < ended'[f]
      PROVE  flow'[g].old
  <2>1. flow[f].old /\ ended'[f] = ended[f] /\ ended[f] < Now
    BY <1>5, Zenon DEF AccountInv, Bearer, Stamps, Queue
  <2>2. Done(g) /\ ended'[g] = ended[g]
    BY <1>0, <1>5, <2>1, SMTT(60) DEF Stamps
  <2> QED
    BY <1>5, <2>1, <2>2, Zenon DEF AccountInv, Queue
<1> QED
  BY <1>3, <1>4, <1>5, Zenon DEF Queue

(* Such a step leaves the reaper's pass what it was, if no session of an   *)
(* old flow comes up behind its back (reap_once, between two of its        *)
(* statements).                                                            *)
LEMMA PassKept ==
    ASSUME AccountInv, Stamps, reaper' = reaper,
           \A f \in Flows : flow'[f].old <=> flow[f].old,
           \A f \in Flows : flow[f].old /\ Unclaimed(f)' => Unclaimed(f)
    PROVE  Pass'
<1>0. Now \in Nat /\ ended \in [Flows -> Nat] /\ reaper.old \subseteq Flows
  BY NowIsNat, Zenon DEF AccountInv
<1>1. \A f \in reaper.old : flow[f].old /\ Done(f) /\ ended'[f] = ended[f] /\ ended[f] < Now
  BY <1>0, Zenon DEF AccountInv, Pass, Bearer, Stamps, Queue
<1>2. ASSUME NEW f \in reaper.old, NEW g \in Flows, Done(g)', ended'[g] < ended'[f]
      PROVE  g \in reaper.old
  <2>1. Done(g) /\ ended'[g] = ended[g]
    BY <1>0, <1>1, <1>2 DEF Stamps
  <2> QED
    BY <1>1, <1>2, <2>1, Zenon DEF AccountInv, Pass
<1>3. ASSUME NEW f \in reaper.old, reaper.at = "purge", Unclaimed(f)'
      PROVE  Cardinality({g \in reaper.old : ended'[g] < ended'[f]}) >= ReaperBatch
  <2>1. {g \in reaper.old : ended'[g] < ended'[f]} = {g \in reaper.old : ended[g] < ended[f]}
    BY <1>1, Zenon
  <2>2. Unclaimed(f)
    BY <1>0, <1>1, <1>3, Zenon
  <2> QED
    BY <1>3, <2>1, <2>2, Zenon DEF AccountInv, Pass
<1> QED
  BY <1>0, <1>1, <1>2, <1>3, Zenon DEF Pass

(* A flow that ends without a session keeps nothing to claim               *)
(* (SECRET_WIPE).                                                          *)
LEMMA OverFields ==
    ASSUME NEW r \in Row
    PROVE  /\ Over(r).status = "ended" /\ ~Over(r).claimed /\ ~Over(r).sid
           /\ ~Over(r).payload /\ ~Over(r).old /\ Over(r).result = "none"
BY DEF Over, NoRow

(* A flow that has not ended has no session and no bearer.                 *)
LEMMA NoBearer ==
    ASSUME AccountInv, NEW f \in Flows, flow[f].status \in {"none", "awaiting", "verifying"}
    PROVE  handed[f] = 0 /\ ~session[f] /\ ~flow[f].old
<1>1. Bearer(f)
  BY DEF AccountInv
<1> QED
  BY <1>1, Zenon DEF Bearer, Unclaimed, Done, Terminal

(* A step that changes nothing of a flow's session, bearer or end.         *)
Quiet(f) ==
    /\ flow'[f].claimed = flow[f].claimed /\ flow'[f].sid = flow[f].sid
    /\ flow'[f].payload = flow[f].payload /\ (flow'[f].old <=> flow[f].old)
    /\ \/ flow'[f].result = flow[f].result
       \/ flow[f].result = "fresh" /\ flow'[f].result = "expired"
    /\ \/ flow'[f].status = flow[f].status
       \/ {flow[f].status, flow'[f].status} \subseteq {"none", "awaiting", "verifying"}

(* A step that leaves sessions, bearers and ends alone keeps the account.  *)
LEMMA QuietStep ==
    ASSUME FenceInv, AccountInv, UNCHANGED <<session, handed, ended, reaper>>,
           \A f \in Flows : Quiet(f)
    PROVE  AccountInv'
<1>1. Stamps
  BY Zenon DEF AccountInv, Quiet, Stamps, Done, Terminal
<1>2. \A f \in Flows :
         /\ flow'[f].old <=> flow[f].old
         /\ flow'[f].status = "complete" => flow[f].status = "complete"
  BY Zenon DEF Quiet
<1>3. Queue'
  BY <1>1, <1>2, QueueKept, Zenon
<1>4. Pass'
  BY <1>1, <1>2, PassKept, Zenon DEF Unclaimed
<1>5. ASSUME NEW f \in Flows PROVE Bearer(f)'
  <2>1. Bearer(f) /\ Quiet(f)
    BY DEF AccountInv
  <2> QED
    BY <2>1, Zenon DEF Bearer, Quiet, Unclaimed, Done, Terminal
<1> QED
  BY <1>3, <1>4, <1>5 DEF AccountInv

(* Open flows that end without a session (reap_once's first statements,    *)
(* cancel_flow, terminalize_owned).                                        *)
LEMMA RowsStop ==
    ASSUME FenceInv, AccountInv, NEW S \in SUBSET Flows,
           \A f \in S : flow[f].status \in {"awaiting", "verifying"},
           flow' = [f \in Flows |-> IF f \in S THEN Over(flow[f]) ELSE flow[f]],
           ended' = [f \in Flows |-> IF f \in S THEN Now ELSE ended[f]],
           UNCHANGED <<session, handed>>
    PROVE  /\ Stamps /\ Queue'
           /\ \A f \in Flows : Bearer(f)' /\ (flow'[f].old <=> flow[f].old)
<1>0. Now \in Nat /\ ended \in [Flows -> Nat]
  BY NowIsNat, Zenon DEF AccountInv
<1>1. \A f \in S : /\ flow'[f].status = "ended" /\ ~flow'[f].claimed /\ ~flow'[f].sid
                   /\ ~flow'[f].payload /\ ~flow'[f].old /\ flow'[f].result = "none"
                   /\ ended'[f] = Now
  BY OverFields, Zenon DEF FenceInv, TypeOK
<1>2. \A f \in Flows \ S : flow'[f] = flow[f] /\ ended'[f] = ended[f]
  BY Zenon
<1>3. \A f \in S : handed[f] = 0 /\ ~session[f] /\ ~flow[f].old
  BY NoBearer, Zenon
<1>4. Stamps
  <2>1. ended' \in [Flows -> Nat]
    BY <1>0
  <2> QED
    BY <1>1, <1>2, <2>1, Zenon DEF Stamps, Done, Terminal
<1>5. \A f \in Flows :
         /\ flow'[f].old <=> flow[f].old
         /\ flow'[f].status = "complete" => flow[f].status = "complete"
  BY <1>1, <1>2, <1>3, Zenon
<1>7. Queue'
  BY <1>4, <1>5, QueueKept, Zenon
<1>8. ASSUME NEW f \in Flows PROVE Bearer(f)'
  <2>1. CASE f \in S
    BY <1>1, <1>3, <2>1, SMTT(60) DEF Bearer, Unclaimed
  <2>2. CASE f \notin S
    BY <1>2, <2>2, Zenon DEF AccountInv, Bearer, Unclaimed, Done
  <2> QED
    BY <2>1, <2>2, Zenon
<1> QED
  BY <1>4, <1>5, <1>7, <1>8, Zenon

(* The same for one flow, outside the reaper's pass.                       *)
LEMMA RowStops ==
    ASSUME FenceInv, AccountInv, NEW f \in Flows, flow[f].status \in {"awaiting", "verifying"},
           flow' = [flow EXCEPT ![f] = Over(@)], ended' = [ended EXCEPT ![f] = Now],
           UNCHANGED <<session, handed, reaper>>
    PROVE  AccountInv'
<1>1. /\ flow' = [g \in Flows |-> IF g \in {f} THEN Over(flow[g]) ELSE flow[g]]
      /\ ended' = [g \in Flows |-> IF g \in {f} THEN Now ELSE ended[g]]
  BY Zenon DEF FenceInv, TypeOK, AccountInv
<1>2. /\ Stamps /\ Queue'
      /\ \A g \in Flows : Bearer(g)' /\ (flow'[g].old <=> flow[g].old)
  BY <1>1, RowsStop, Zenon
<1>3. Pass'
  <2>1. \A g \in Flows : Unclaimed(g)' => Unclaimed(g)
    BY Zenon DEF Unclaimed
  <2> QED
    BY <1>2, <2>1, PassKept, Zenon
<1> QED
  BY <1>2, <1>3, Zenon DEF AccountInv, Stamps

(* complete_owned makes the session, its sealed bearer and the flow's end  *)
(* at one go.                                                              *)
LEMMA CompleteAccounted ==
    ASSUME FenceInv, AccountInv, NEW t \in tasks, NEW who \in Identities, CompleteOwned(t, who)
    PROVE  AccountInv'
<1>1. t.flow \in Flows /\ UNCHANGED <<handed, reaper>>
  BY DEF FenceInv, TypeOK, Task, CompleteOwned
<1>2. CASE ~Owns(t)
  BY <1>1, <1>2, QuietStep DEF CompleteOwned, Quiet
<1>3. CASE Owns(t)
  <2> DEFINE f == t.flow
             r == [Over(flow[f]) EXCEPT !.status = "complete", !.approved = who,
                      !.result = "fresh", !.payload = TRUE, !.sid = TRUE]
  <2>1. /\ flow[f] \in Row /\ flow[f].status = "verifying"
        /\ flow' = [flow EXCEPT ![f] = r] /\ session' = [session EXCEPT ![f] = TRUE]
        /\ ended' = [ended EXCEPT ![f] = Now]
    BY <1>1, <1>3, Zenon DEF CompleteOwned, Owns, FenceInv, TypeOK
  <2>2. /\ r.status = "complete" /\ r.result = "fresh" /\ r.payload /\ r.sid
        /\ ~r.claimed /\ ~r.old
    BY DEF Over, NoRow
  <2> HIDE DEF r
  <2>3. /\ flow'[f] = r /\ session'[f] /\ ended'[f] = Now
        /\ \A g \in Flows \ {f} : /\ flow'[g] = flow[g] /\ session'[g] = session[g]
                                  /\ ended'[g] = ended[g]
    BY <1>1, <2>1, Zenon DEF FenceInv, TypeOK, AccountInv
  <2>4. handed[f] = 0 /\ ~session[f] /\ ~flow[f].old
    BY <1>1, <2>1, NoBearer, Zenon
  <2>5. Stamps
    <3>1. ended' \in [Flows -> Nat]
      BY <1>1, <2>1, NowIsNat, Zenon DEF AccountInv
    <3> QED
      BY <1>1, <2>1, <2>2, <2>3, <3>1 DEF Stamps, Done, Terminal
  <2>6. \A g \in Flows : /\ flow'[g].old <=> flow[g].old
                         /\ flow'[g].status = "complete" /\ flow[g].status # "complete" => g = f
    BY <1>1, <2>2, <2>3, <2>4, Zenon
  <2>7. Queue'
    BY <2>5, <2>6, QueueKept, Zenon
  <2>8. Pass'
    <3>1. \A g \in Flows : flow[g].old /\ Unclaimed(g)' => Unclaimed(g)
      BY <1>1, <2>3, <2>4, Zenon DEF Unclaimed
    <3> QED
      BY <1>1, <2>5, <2>6, <3>1, PassKept, Zenon
  <2>9. ASSUME NEW g \in Flows PROVE Bearer(g)'
    <3>1. CASE g = f
      BY <1>1, <2>2, <2>3, <2>4, <3>1, SMTT(60) DEF Bearer, Unclaimed
    <3>2. CASE g # f
      BY <1>1, <2>3, <3>2, SMTT(60) DEF AccountInv, Bearer, Unclaimed, Done
    <3> QED
      BY <3>1, <3>2
  <2> QED
    BY <1>1, <2>5, <2>7, <2>8, <2>9, Zenon DEF AccountInv, Stamps
<1> QED
  BY <1>2, <1>3

(* claim_result hands the bearer over and wipes it: the session stays, out *)
(* of reach of the reaper's statement on unclaimed results.                *)
LEMMA ClaimAccounted ==
    ASSUME FenceInv, AccountInv, NEW f \in Flows, ClaimResult(f)
    PROVE  AccountInv'
<1> DEFINE r == [flow[f] EXCEPT !.claimed = TRUE, !.payload = FALSE]
<1>1. /\ flow[f] \in Row /\ flow' = [flow EXCEPT ![f] = r]
      /\ handed' = [handed EXCEPT ![f] = handed[f] + 1]
      /\ UNCHANGED <<session, ended, reaper>>
      /\ flow[f].status = "complete" /\ ~flow[f].claimed /\ flow[f].result = "fresh"
      /\ flow[f].payload /\ (flow[f].sid => session[f])
  BY Zenon DEF ClaimResult, Claimable, FenceInv, TypeOK
<1>2. /\ r.status = "complete" /\ r.claimed /\ ~r.payload
      /\ r.old = flow[f].old /\ r.result = flow[f].result
  BY <1>1 DEF Row
<1> HIDE DEF r
<1>3. /\ flow'[f] = r /\ handed'[f] = handed[f] + 1 /\ handed' \in [Flows -> Nat]
      /\ \A g \in Flows \ {f} : flow'[g] = flow[g] /\ handed'[g] = handed[g]
  BY <1>1 DEF FenceInv, TypeOK, AccountInv
<1>4. Bearer(f)
  BY DEF AccountInv
<1>5. handed[f] = 0 /\ session[f]
  BY <1>1, <1>4, Zenon DEF Bearer
<1>6. Stamps /\ \A g \in Flows : /\ flow'[g].old <=> flow[g].old
                               /\ flow'[g].status = flow[g].status
  BY <1>1, <1>2, <1>3 DEF AccountInv, Stamps, Done, Terminal
<1>7. Queue'
  BY <1>6, QueueKept, Zenon
<1>8. Pass'
  <2>1. \A g \in Flows : flow[g].old /\ Unclaimed(g)' => Unclaimed(g)
    BY <1>1, <1>3, <1>5, Zenon DEF Unclaimed
  <2> QED
    BY <1>1, <1>6, <2>1, PassKept, Zenon
<1>9. ASSUME NEW g \in Flows PROVE Bearer(g)'
  <2>1. CASE g = f
    BY <1>1, <1>2, <1>3, <1>4, <1>5, <2>1, SMTT(60) DEF Bearer, Unclaimed, Done, Terminal
  <2>2. CASE g # f
    BY <1>1, <1>3, <2>2, SMTT(60) DEF AccountInv, Bearer, Unclaimed, Done
  <2> QED
    BY <2>1, <2>2
<1> QED
  BY <1>1, <1>3, <1>7, <1>8, <1>9, Zenon DEF AccountInv

(* The retention of a flow passes only once its token has lapsed or was    *)
(* used, and in the order of terminal_at.                                  *)
LEMMA RetentionAccounted ==
    ASSUME FenceInv, AccountInv, NEW f \in Flows, RetentionPasses(f)
    PROVE  AccountInv'
<1> DEFINE r == [flow[f] EXCEPT !.old = TRUE]
<1>1. /\ flow[f] \in Row /\ flow' = [flow EXCEPT ![f] = r]
      /\ UNCHANGED <<session, handed, ended, reaper>>
      /\ Done(f) /\ (flow[f].result = "fresh" => flow[f].claimed)
      /\ \A g \in EndedBefore(f) : flow[g].old
  BY DEF RetentionPasses, Untouched, FenceInv, TypeOK, Done
<1>2. /\ r.old /\ r.status = flow[f].status /\ r.result = flow[f].result
      /\ r.claimed = flow[f].claimed /\ r.payload = flow[f].payload /\ r.sid = flow[f].sid
  BY <1>1 DEF Row
<1> HIDE DEF r
<1>3. flow'[f] = r /\ \A g \in Flows \ {f} : flow'[g] = flow[g]
  BY <1>1, Zenon DEF FenceInv, TypeOK
<1>4. /\ \A g \in Flows : flow'[g].status = flow[g].status /\ (flow[g].old => flow'[g].old)
      /\ Now' = Now
  <2>1. \A g \in Flows : flow'[g].status = flow[g].status /\ (flow[g].old => flow'[g].old)
    BY <1>2, <1>3, Zenon
  <2> QED
    BY <2>1, Zenon DEF Now
<1>5. Queue'
  <2>1. ASSUME NEW g \in Flows, NEW h \in Flows, flow'[g].old, Done(h), ended[h] < ended[g]
        PROVE  flow'[h].old
    <3>1. CASE g = f
      <4>1. h \in EndedBefore(f)
        BY <2>1, <3>1, Zenon DEF EndedBefore, AccountInv, Queue
      <4> QED
        BY <1>1, <1>4, <4>1, Zenon
    <3>2. CASE g # f
      BY <1>3, <1>4, <2>1, <3>2, Zenon DEF AccountInv, Queue
    <3> QED
      BY <3>1, <3>2
  <2> QED
    BY <1>1, <1>4, <2>1 DEF AccountInv, Queue, Done
<1>6. Pass'
  BY <1>1, <1>4, Zenon DEF AccountInv, Pass, Done, Unclaimed
<1>7. ASSUME NEW g \in Flows PROVE Bearer(g)'
  <2>1. CASE g = f
    BY <1>1, <1>2, <1>3, <2>1, SMTT(60) DEF AccountInv, Bearer, Unclaimed, Done
  <2>2. CASE g # f
    BY <1>1, <1>3, <2>2, SMTT(60) DEF AccountInv, Bearer, Unclaimed, Done
  <2> QED
    BY <2>1, <2>2
<1> QED
  BY <1>1, <1>5, <1>6, <1>7, Zenon DEF AccountInv

(* A statement with LIMIT takes all the rows that are due, or as many as   *)
(* its limit.                                                              *)
LEMMA BatchSize ==
    ASSUME NEW due \in SUBSET Flows, NEW S \in Batches(due)
    PROVE  /\ IsFiniteSet(due) /\ S \subseteq due
           /\ Cardinality(S) \in Nat /\ Cardinality(S) <= ReaperBatch
           /\ S # due => Cardinality(S) = ReaperBatch
<1>1. S \subseteq due /\ Cardinality(S) = (IF Cardinality(due) < ReaperBatch THEN Cardinality(due)
                                                                         ELSE ReaperBatch)
  BY DEF Batches
<1>2. IsFiniteSet(due)
  BY FlowsFinite, FS_Subset
<1>3. Cardinality(due) \in Nat
  BY <1>2, FS_CardinalityType
<1>4. Cardinality(S) = Cardinality(due) => S = due
  BY <1>1, <1>2, FS_Subset
<1> QED
  BY <1>1, <1>2, <1>3, <1>4, GrantAssumption

(* The first three statements of a pass of the reaper; whoever is old now  *)
(* is old to the end of the pass.                                          *)
LEMMA UnfinishedAccounted ==
    ASSUME FenceInv, AccountInv, ReapUnfinished, UNCHANGED <<session, handed>>,
           reaper' = [at |-> "results", old |-> {f \in Flows : flow[f].old}]
    PROVE  AccountInv'
<1>1. PICK A \in Batches(Overdue), B \in Batches(LapsedPolling), C \in Batches(LapsedExchanging) :
        /\ flow' = [f \in Flows |-> IF f \in A \union B \union C THEN Over(flow[f]) ELSE flow[f]]
        /\ ended' = [f \in Flows |-> IF f \in A \union B \union C THEN Now ELSE ended[f]]
  BY Zenon DEF ReapUnfinished
<1> DEFINE S == A \union B \union C
<1>2. S \in SUBSET Flows /\ \A f \in S : flow[f].status \in {"awaiting", "verifying"}
  BY Zenon DEF Batches, Overdue, LapsedPolling, LapsedExchanging, Lapsed
<1>3. /\ flow' = [f \in Flows |-> IF f \in S THEN Over(flow[f]) ELSE flow[f]]
      /\ ended' = [f \in Flows |-> IF f \in S THEN Now ELSE ended[f]]
  BY <1>1, Zenon
<1> HIDE DEF S
<1>4. /\ Stamps /\ Queue'
      /\ \A f \in Flows : Bearer(f)' /\ (flow'[f].old <=> flow[f].old)
  BY <1>2, <1>3, RowsStop, Zenon
<1>5. reaper'.at = "results" /\ reaper'.old = {f \in Flows : flow[f].old}
  BY Zenon
<1>6. Pass'
  BY <1>4, <1>5, Zenon DEF Pass, Queue
<1> QED
  BY <1>4, <1>6, Zenon DEF AccountInv, Stamps

(* The statement on unclaimed results.  An old session it leaves behind    *)
(* has a full batch of older flows before it, all of them old as well.     *)
LEMMA ResultsAccounted ==
    ASSUME FenceInv, AccountInv, ReapResults, UNCHANGED <<handed, ended>>,
           reaper' = [reaper EXCEPT !.at = "purge"]
    PROVE  AccountInv'
<1> DEFINE due == {f \in Flows : /\ flow[f].status = "complete" /\ ~flow[f].claimed
                                 /\ flow[f].result = "expired"
                                 /\ flow[f].payload \/ flow[f].sid}
<1>1. PICK S \in Earliest(due) :
        /\ session' = [f \in Flows |-> session[f] /\ ~(f \in S /\ flow[f].sid)]
        /\ flow' = [f \in Flows |->
              IF f \in S THEN [flow[f] EXCEPT !.result = "none", !.payload = FALSE, !.sid = FALSE]
                         ELSE flow[f]]
  BY Zenon DEF ReapResults
<1>2. /\ S \subseteq due /\ S \in Batches(due)
      /\ \A f \in S, g \in due \ S : ended[f] <= ended[g]
  BY Zenon DEF Earliest, Batches
<1>3. \A f \in due : /\ f \in Flows /\ flow[f].status = "complete" /\ ~flow[f].claimed
                     /\ flow[f].result = "expired"
  OBVIOUS
<1>4. due \in SUBSET Flows
  OBVIOUS
<1>5. \A f \in Flows : Unclaimed(f) /\ flow[f].old => f \in due
  BY Zenon DEF AccountInv, Bearer, FenceInv, TypeOK, Row
<1> HIDE DEF due
<1>6. \A f \in S : /\ flow'[f].status = flow[f].status /\ flow'[f].claimed = flow[f].claimed
                   /\ flow'[f].old = flow[f].old /\ flow'[f].result = "none"
                   /\ ~flow'[f].payload
                   /\ session'[f] => session[f] /\ ~flow[f].sid
  <2>1. TAKE f \in S
  <2>2. f \in Flows /\ flow[f] \in Row
    BY <1>2, <1>3 DEF FenceInv, TypeOK
  <2>3. flow'[f] = [flow[f] EXCEPT !.result = "none", !.payload = FALSE, !.sid = FALSE]
    BY <1>1, <2>2, Zenon
  <2>4. session'[f] => session[f] /\ ~flow[f].sid
    BY <1>1, <2>2, Zenon
  <2> QED
    BY <2>2, <2>3, <2>4, Zenon DEF Row
<1>7. \A f \in Flows \ S : flow'[f] = flow[f] /\ (session'[f] <=> session[f])
  BY <1>1, Zenon
<1>8. /\ \A f \in Flows : flow'[f].status = flow[f].status /\ (flow'[f].old <=> flow[f].old)
      /\ Stamps
  <2>1. \A f \in Flows : flow'[f].status = flow[f].status /\ (flow'[f].old <=> flow[f].old)
    BY <1>6, <1>7
  <2> QED
    BY <2>1, Zenon DEF AccountInv, Stamps, Done
<1>9. Queue'
  BY <1>8, QueueKept
<1>10. \A f \in S : handed[f] = 0 /\ ~session'[f]
  <2>1. TAKE f \in S
  <2>2. Bearer(f) /\ f \in Flows /\ flow[f].status = "complete" /\ ~flow[f].claimed
    BY <1>2, <1>3, Zenon DEF AccountInv
  <2> QED
    BY <1>6, <2>2 DEF Bearer, Unclaimed
<1>11. ASSUME NEW f \in Flows PROVE Bearer(f)'
  <2>1. CASE f \in S
    BY <1>6, <1>10, <2>1, Zenon DEF AccountInv, Bearer, Unclaimed, Done
  <2>2. CASE f \notin S
    BY <1>7, <2>2 DEF AccountInv, Bearer, Unclaimed, Done
  <2> QED
    BY <2>1, <2>2
<1>12. reaper'.old = reaper.old /\ reaper.old \subseteq Flows
  BY DEF AccountInv
<1>13. Pass'
  <2>1. ASSUME NEW f \in reaper.old, Unclaimed(f)'
        PROVE  Cardinality({g \in reaper.old : ended[g] < ended[f]}) >= ReaperBatch
    <3>1. f \in Flows /\ f \notin S /\ Unclaimed(f)
      BY <1>7, <1>10, <1>12, <2>1 DEF Unclaimed
    <3>2. flow[f].old /\ f \in due /\ S # due
      BY <1>5, <3>1 DEF AccountInv, Pass
    <3>3. Cardinality(S) = ReaperBatch
      BY <1>2, <1>4, <3>2, BatchSize
    <3>4. ASSUME NEW g \in S PROVE g \in reaper.old /\ ended[g] < ended[f]
      <4>1. g \in Flows /\ g # f /\ ended[g] <= ended[f] /\ ended[g] # ended[f]
        BY <1>2, <1>3, <3>1, <3>2 DEF AccountInv, Queue
      <4>2. ended[g] < ended[f]
        BY <3>1, <4>1 DEF AccountInv
      <4>3. Done(g)
        BY <1>2, <1>3 DEF Done, Terminal
      <4> QED
        BY <4>1, <4>2, <4>3 DEF AccountInv, Pass
    <3> DEFINE L == {g \in reaper.old : ended[g] < ended[f]}
    <3>5. S \subseteq L /\ L \subseteq Flows
      BY <1>12, <3>4
    <3> HIDE DEF L
    <3>6. IsFiniteSet(L)
      BY <3>5, FlowsFinite, FS_Subset
    <3>7. Cardinality(S) <= Cardinality(L)
      BY <3>5, <3>6, FS_Subset
    <3>8. Cardinality(L) \in Nat
      BY <3>6, FS_CardinalityType
    <3> QED
      BY <3>3, <3>7, <3>8, GrantAssumption DEF L
  <2> QED
    BY <1>8, <1>12, <2>1 DEF AccountInv, Pass, Done
<1> QED
  BY <1>9, <1>11, <1>12, <1>13 DEF AccountInv

(* The purge takes the oldest rows first, so it does not come to a row     *)
(* whose session the statement before it left behind.                      *)
LEMMA PurgeAccounted ==
    ASSUME FenceInv, AccountInv, Purge, reaper.at = "purge", UNCHANGED <<session, handed>>,
           reaper' = [at |-> "unfinished", old |-> {}]
    PROVE  AccountInv'
<1> DEFINE gone == [NoRow EXCEPT !.status = "purged"]
<1>1. PICK S \in Earliest(reaper.old) :
        /\ flow' = [f \in Flows |-> IF f \in S THEN gone ELSE flow[f]]
        /\ ended' = [f \in Flows |-> IF f \in S THEN 0 ELSE ended[f]]
  BY DEF Purge
<1>2. /\ S \subseteq reaper.old /\ S \in Batches(reaper.old) /\ reaper.old \in SUBSET Flows
      /\ \A f \in S, g \in reaper.old \ S : ended[f] <= ended[g]
  BY Zenon DEF Earliest, Batches, AccountInv
<1>3. /\ gone.status = "purged" /\ ~gone.payload /\ ~gone.old
  BY DEF NoRow
<1> HIDE DEF gone
<1>4. /\ \A f \in S : flow'[f] = gone /\ ended'[f] = 0
      /\ \A f \in Flows \ S : flow'[f] = flow[f] /\ ended'[f] = ended[f]
      /\ ended' \in [Flows -> Nat]
  BY <1>1, <1>2, Zenon DEF AccountInv
<1>5. ASSUME NEW f \in S PROVE ~Unclaimed(f)
  <2> SUFFICES ASSUME Unclaimed(f) PROVE FALSE
    BY Zenon
  <2> DEFINE L == {g \in reaper.old : ended[g] < ended[f]}
  <2>1. f \in reaper.old /\ f \in Flows
    BY <1>2, Zenon
  <2>2. Cardinality(L) >= ReaperBatch
    BY <2>1, Zenon DEF AccountInv, Pass
  <2>3. L \subseteq S
    BY <1>2, <2>1 DEF AccountInv
  <2>4. f \notin L
    BY <2>1 DEF AccountInv
  <2> HIDE DEF L
  <2>5. IsFiniteSet(S)
    BY <1>2, FlowsFinite, FS_Subset, Zenon
  <2>6. IsFiniteSet(L) /\ Cardinality(L) \in Nat
    BY <2>3, <2>5, FS_Subset, FS_CardinalityType, Zenon
  <2>7. Cardinality(L) <= Cardinality(S) /\ (Cardinality(L) = Cardinality(S) => L = S)
    BY <2>3, <2>5, FS_Subset, Zenon
  <2>8. Cardinality(S) \in Nat /\ Cardinality(S) <= ReaperBatch
    BY <1>2, BatchSize, Zenon
  <2> QED
    BY <2>2, <2>4, <2>6, <2>7, <2>8, GrantAssumption
<1>6. \A f \in S : Done(f)
  BY <1>2, Zenon DEF AccountInv, Pass, Bearer
<1>7. Now' = Now
  <2>1. {f \in Flows : flow'[f].status \in Terminal \union {"purged"}}
          = {f \in Flows : flow[f].status \in Terminal \union {"purged"}}
    BY <1>2, <1>3, <1>4, <1>6, Zenon DEF Done
  <2> QED
    BY <2>1, Zenon DEF Now
<1>8. Queue'
  BY <1>2, <1>3, <1>4, <1>7, NowIsNat, SMTT(60) DEF AccountInv, Queue, Done, Terminal
<1>9. ASSUME NEW f \in Flows PROVE Bearer(f)'
  <2>1. CASE f \in S
    BY <1>3, <1>4, <1>5, <2>1, SMTT(60) DEF AccountInv, Bearer, Unclaimed
  <2>2. CASE f \notin S
    BY <1>4, <2>2, SMTT(60) DEF AccountInv, Bearer, Unclaimed, Done
  <2> QED
    BY <2>1, <2>2, Zenon
<1>10. Pass'
  BY Zenon DEF Pass
<1> QED
  BY <1>4, <1>8, <1>9, <1>10, Zenon DEF AccountInv

(* The same as QuietStep for a step that writes one row.                   *)
LEMMA QuietRow ==
    ASSUME FenceInv, AccountInv, UNCHANGED <<session, handed, ended, reaper>>,
           NEW f \in Flows, NEW r, flow' = [flow EXCEPT ![f] = r],
           r.claimed = flow[f].claimed, r.sid = flow[f].sid, r.payload = flow[f].payload,
           r.old = flow[f].old,
           \/ r.result = flow[f].result
           \/ flow[f].result = "fresh" /\ r.result = "expired",
           \/ r.status = flow[f].status
           \/ {flow[f].status, r.status} \subseteq {"none", "awaiting", "verifying"}
    PROVE  AccountInv'
<1>1. flow'[f] = r /\ \A g \in Flows \ {f} : flow'[g] = flow[g]
  BY Zenon DEF FenceInv, TypeOK
<1>2. Quiet(f) /\ \A g \in Flows \ {f} : Quiet(g)
  BY <1>1, ZenonT(60) DEF Quiet
<1> QED
  BY <1>2, QuietStep, Zenon

(* The shop's requests keep the account (create_flow, cancel_flow,         *)
(* result_ticket, claim_result).                                           *)
LEMMA RequestsAccounted ==
    ASSUME FenceInv, AccountInv, Requests
    PROVE  AccountInv'
<1>1. ASSUME NEW f \in Flows, CreateFlow(f) PROVE AccountInv'
  <2> DEFINE r == [flow[f] EXCEPT !.status = "awaiting"]
  <2>1. /\ flow[f] \in Row /\ flow[f].status = "none" /\ flow' = [flow EXCEPT ![f] = r]
        /\ UNCHANGED <<session, handed, ended, reaper>>
    BY <1>1 DEF CreateFlow, AssertionGood, FenceInv, TypeOK
  <2>2. /\ r.claimed = flow[f].claimed /\ r.sid = flow[f].sid /\ r.payload = flow[f].payload
        /\ r.old = flow[f].old /\ r.result = flow[f].result /\ r.status = "awaiting"
    BY <2>1 DEF Row
  <2> HIDE DEF r
  <2> QED
    BY <2>1, <2>2, QuietRow, Zenon
<1>2. ASSUME NEW f \in Flows, CancelFlow(f) PROVE AccountInv'
  BY <1>2, RowStops, Zenon DEF CancelFlow
<1>3. ASSUME NEW f \in Flows, ResultTicket(f) PROVE AccountInv'
  <2> DEFINE r == [flow[f] EXCEPT !.delivered = TRUE]
  <2>1. /\ flow[f] \in Row /\ flow' = [flow EXCEPT ![f] = r]
        /\ UNCHANGED <<session, handed, ended, reaper>>
    BY <1>3 DEF ResultTicket, FenceInv, TypeOK
  <2>2. /\ r.claimed = flow[f].claimed /\ r.sid = flow[f].sid /\ r.payload = flow[f].payload
        /\ r.old = flow[f].old /\ r.result = flow[f].result /\ r.status = flow[f].status
    BY <2>1 DEF Row
  <2> HIDE DEF r
  <2> QED
    BY <2>1, <2>2, QuietRow, Zenon
<1>4. ASSUME NEW f \in Flows, NEW p \in Purposes, IssueNonce(f, p) PROVE AccountInv'
  BY <1>4, QuietStep, Zenon DEF IssueNonce, Quiet
<1> QED
  BY <1>1, <1>2, <1>3, <1>4, ClaimAccounted, Zenon DEF Requests

(* terminalize_owned, with the lease or without it.                        *)
LEMMA TerminalizeAccounted ==
    ASSUME FenceInv, AccountInv, NEW t \in tasks, TerminalizeOwned(t)
    PROVE  AccountInv'
<1>1. t.flow \in Flows
  BY DEF FenceInv, TypeOK, Task
<1>2. CASE Owns(t)
  BY <1>1, <1>2, RowStops, Zenon DEF TerminalizeOwned, Owns
<1>3. CASE ~Owns(t)
  BY <1>1, <1>3, QuietStep, Zenon DEF TerminalizeOwned, Quiet
<1> QED
  BY <1>2, <1>3

(* So do the worker's steps (acquire_flows, process_lease, the heartbeat). *)
LEMMA WorkerAccounted ==
    ASSUME FenceInv, AccountInv, Worker
    PROVE  AccountInv'
<1>1. ASSUME NEW f \in Flows, AcquireFlow(f) PROVE AccountInv'
  <2> DEFINE r == [flow[f] EXCEPT !.status = "verifying", !.version = flow[f].version + 1,
                                  !.owner = flow[f].version + 1, !.lapsed = FALSE]
  <2>1. /\ flow[f] \in Row /\ flow[f].status = "awaiting" /\ flow' = [flow EXCEPT ![f] = r]
        /\ UNCHANGED <<session, handed, ended, reaper>>
    BY <1>1, Zenon DEF AcquireFlow, FenceInv, TypeOK
  <2>2. /\ r.claimed = flow[f].claimed /\ r.sid = flow[f].sid /\ r.payload = flow[f].payload
        /\ r.old = flow[f].old /\ r.result = flow[f].result /\ r.status = "verifying"
    BY <2>1 DEF Row
  <2> HIDE DEF r
  <2> QED
    BY <2>1, <2>2, QuietRow, Zenon
<1>2. \A t \in tasks : t.flow \in Flows /\ flow[t.flow] \in Row
  BY DEF FenceInv, TypeOK, Task
<1>3. ASSUME NEW t \in tasks, ReturnOwned(t) PROVE AccountInv'
  <2> DEFINE f == t.flow
             r == [flow[f] EXCEPT !.status = "awaiting", !.owner = 0, !.lapsed = FALSE]
  <2>1. UNCHANGED <<session, handed, ended, reaper>>
    BY <1>3 DEF ReturnOwned
  <2>2. CASE flow' = flow
    BY <2>1, <2>2, QuietStep, Zenon DEF Quiet
  <2>3. CASE Owns(t) /\ flow' = [flow EXCEPT ![f] = r]
    <3>1. f \in Flows /\ flow[f] \in Row /\ flow[f].status = "verifying"
      BY <1>2, <2>3 DEF Owns
    <3>2. /\ r.claimed = flow[f].claimed /\ r.sid = flow[f].sid /\ r.payload = flow[f].payload
          /\ r.old = flow[f].old /\ r.result = flow[f].result /\ r.status = "awaiting"
      BY <3>1 DEF Row
    <3> HIDE DEF r
    <3> QED
      BY <2>1, <2>3, <3>1, <3>2, QuietRow, Zenon
  <2> QED
    BY <1>2, <1>3, <2>2, <2>3, Zenon DEF ReturnOwned, FenceInv, TypeOK
<1>4. ASSUME NEW t \in tasks, NEW who \in Identities, EnterExchanging(t, who)
      PROVE  AccountInv'
  <2> DEFINE f == t.flow
             r == [flow[f] EXCEPT !.approved = who, !.lapsed = FALSE,
                                  !.version = flow[f].version + 1]
  <2>1. UNCHANGED <<session, handed, ended, reaper>>
    BY <1>4, Zenon DEF EnterExchanging
  <2>2. CASE flow' = flow
    BY <2>1, <2>2, QuietStep, Zenon DEF Quiet
  <2>3. CASE flow' = [flow EXCEPT ![f] = r]
    <3>1. f \in Flows /\ flow[f] \in Row
      BY <1>2, Zenon
    <3>2. /\ r.claimed = flow[f].claimed /\ r.sid = flow[f].sid /\ r.payload = flow[f].payload
          /\ r.old = flow[f].old /\ r.result = flow[f].result /\ r.status = flow[f].status
      BY <3>1 DEF Row
    <3> HIDE DEF r
    <3> QED
      BY <2>1, <2>3, <3>1, <3>2, QuietRow, Zenon
  <2> QED
    BY <1>2, <1>4, <2>2, <2>3, Zenon DEF EnterExchanging, FenceInv, TypeOK
<1>5. ASSUME NEW t \in tasks, Heartbeat(t) PROVE AccountInv'
  <2> DEFINE f == t.flow
             r == [flow[f] EXCEPT !.lapsed = FALSE]
  <2>1. /\ f \in Flows /\ flow[f] \in Row /\ flow' = [flow EXCEPT ![f] = r]
        /\ UNCHANGED <<session, handed, ended, reaper>>
    BY <1>2, <1>5, Zenon DEF Heartbeat, FenceInv, TypeOK
  <2>2. /\ r.claimed = flow[f].claimed /\ r.sid = flow[f].sid /\ r.payload = flow[f].payload
        /\ r.old = flow[f].old /\ r.result = flow[f].result /\ r.status = flow[f].status
    BY <2>1, Zenon DEF Row
  <2> HIDE DEF r
  <2> QED
    BY <2>1, <2>2, QuietRow, Zenon
<1>6. ASSUME NEW t \in tasks, TaskDies(t) PROVE AccountInv'
  BY <1>6, QuietStep DEF TaskDies, Quiet
<1>7. ASSUME NEW t \in tasks, NEW who \in Identities, NEW within \in Verdicts,
             SettleVerified(t, who, within)
      PROVE  AccountInv'
  BY <1>7, CompleteAccounted, TerminalizeAccounted, Zenon DEF SettleVerified
<1>8. ASSUME NEW t \in tasks, PollFails(t) \/ ExchangeFails(t) PROVE AccountInv'
  BY <1>8, TerminalizeAccounted DEF PollFails, ExchangeFails
<1> QED
  BY <1>1, <1>3, <1>4, <1>5, <1>6, <1>7, <1>8, Zenon DEF Worker, ProcessLease

(* So does each part of a pass of the reaper (reap_once).                  *)
LEMMA ReaperAccounted ==
    ASSUME FenceInv, AccountInv, ReapOnce
    PROVE  AccountInv'
BY UnfinishedAccounted, ResultsAccounted, PurgeAccounted DEF ReapOnce

(* So does the passing of a deadline.                                      *)
LEMMA ClockAccounted ==
    ASSUME FenceInv, AccountInv, Clock
    PROVE  AccountInv'
<1>1. ASSUME NEW f \in Flows, FlowExpires(f) PROVE AccountInv'
  <2> DEFINE r == [flow[f] EXCEPT !.due = TRUE]
  <2>1. /\ flow[f] \in Row /\ flow' = [flow EXCEPT ![f] = r]
        /\ UNCHANGED <<session, handed, ended, reaper>>
    BY <1>1 DEF FlowExpires, Untouched, FenceInv, TypeOK
  <2>2. /\ r.claimed = flow[f].claimed /\ r.sid = flow[f].sid /\ r.payload = flow[f].payload
        /\ r.old = flow[f].old /\ r.result = flow[f].result /\ r.status = flow[f].status
    BY <2>1 DEF Row
  <2> HIDE DEF r
  <2> QED
    BY <2>1, <2>2, QuietRow, Zenon
<1>2. ASSUME NEW f \in Flows, LeaseLapses(f) PROVE AccountInv'
  <2> DEFINE r == [flow[f] EXCEPT !.lapsed = TRUE]
  <2>1. /\ flow[f] \in Row /\ flow' = [flow EXCEPT ![f] = r]
        /\ UNCHANGED <<session, handed, ended, reaper>>
    BY <1>2 DEF LeaseLapses, Untouched, FenceInv, TypeOK
  <2>2. /\ r.claimed = flow[f].claimed /\ r.sid = flow[f].sid /\ r.payload = flow[f].payload
        /\ r.old = flow[f].old /\ r.result = flow[f].result /\ r.status = flow[f].status
    BY <2>1 DEF Row
  <2> HIDE DEF r
  <2> QED
    BY <2>1, <2>2, QuietRow, Zenon
<1>3. ASSUME NEW f \in Flows, TokenExpires(f) PROVE AccountInv'
  <2> DEFINE r == [flow[f] EXCEPT !.result = "expired"]
  <2>1. /\ flow[f] \in Row /\ flow' = [flow EXCEPT ![f] = r] /\ flow[f].result = "fresh"
        /\ UNCHANGED <<session, handed, ended, reaper>>
    BY <1>3 DEF TokenExpires, Untouched, FenceInv, TypeOK
  <2>2. /\ r.claimed = flow[f].claimed /\ r.sid = flow[f].sid /\ r.payload = flow[f].payload
        /\ r.old = flow[f].old /\ r.result = "expired" /\ r.status = flow[f].status
    BY <2>1 DEF Row
  <2> HIDE DEF r
  <2> QED
    BY <2>1, <2>2, QuietRow, Zenon
<1>4. CASE NonceExpires
  BY <1>4, QuietStep, Zenon DEF NonceExpires, Untouched, Quiet
<1> QED
  BY <1>1, <1>2, <1>3, <1>4, RetentionAccounted DEF Clock, Deadlines

(* At the start there is no session to account for.                        *)
LEMMA InitAccounted ==
    ASSUME GrantInit
    PROVE  AccountInv
<1>1. \A f \in Flows : /\ flow[f].status = "none" /\ ~flow[f].payload /\ ~flow[f].old
                       /\ ~session[f] /\ handed[f] = 0 /\ ended[f] = 0
  BY Zenon DEF GrantInit, NoRow
<1>2. reaper = [at |-> "unfinished", old |-> {}]
  BY Zenon DEF GrantInit
<1>3. \A f \in Flows : Bearer(f)
  BY <1>1 DEF Bearer, Unclaimed
<1>4. Queue
  BY <1>1, NowIsNat, Zenon DEF Queue, Done, Terminal
<1> QED
  BY <1>2, <1>3, <1>4, SMTT(60) DEF GrantInit, AccountInv, Pass

(* Whoever dies, is late or comes twice: a session made for a flow is in   *)
(* the hands of the shop, which got its bearer once, or still hangs on its *)
(* flow's row with the sealed bearer, where it is claimed or reaped.  The  *)
(* purge of old rows cannot overtake the reaping of results, although both *)
(* take bounded batches (complete_owned, claim_result, reap_once).         *)
THEOREM SessionsAccounted == Spec => []SessionAccounted
<1>1. GrantInit => AccountInv
  BY InitAccounted
<1>2. FenceInv /\ AccountInv /\ [Next]_vars => AccountInv'
  <2>1. SUFFICES ASSUME FenceInv, AccountInv, [Next]_vars PROVE AccountInv'
    BY Zenon
  <2>2. CASE Next
    BY <2>1, <2>2, RequestsAccounted, WorkerAccounted, ReaperAccounted, ClockAccounted DEF Next
  <2>3. CASE UNCHANGED vars
    BY <2>1, <2>3, QuietStep, Zenon DEF vars, Quiet
  <2> QED
    BY <2>1, <2>2, <2>3
<1>3. AccountInv => SessionAccounted
  BY Zenon DEF AccountInv, Bearer, Unclaimed, SessionAccounted
<1> QED
  BY <1>1, <1>2, <1>3, FenceHolds, PTL DEF Spec
=============================================================================
