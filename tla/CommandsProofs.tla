---------------------------- MODULE CommandsProofs ----------------------------
(***************************************************************************)
(* Theorems about Commands, for any finite set of submissions and any keys *)
(* and instances: one accepted result per command, one reader per flight,  *)
(* and no refusal missing from the audit.  The first rests on the advisory *)
(* lock and the lookup behind it, not on the flights, which are per        *)
(* instance and only save reads.                                           *)
(***************************************************************************)
EXTENDS Commands, FiniteSetTheorems, TLAPS

Places == {"new", "waiting", "reading", "begin", "dispatch", "leaving", "done"}

Columns ==
    /\ at \in [Submissions -> Places]
    /\ answer \in [Submissions -> Replies]
    /\ xlock \in [Keys -> Submissions \union {NoOne}]
    /\ stored \in [Keys -> Hashes \union {NoHash}]
    /\ applied \in [Keys -> Nat]

(* Who executes has the lock, and found no result under it.                *)
Executing(s) == at[s] = "dispatch" => xlock[KeyOf[s]] = s /\ stored[KeyOf[s]] = NoHash

(* What s was told agrees with what is stored.                             *)
Told(s) ==
    /\ answer[s] = "accepted" => stored[KeyOf[s]] = HashOf[s]
    /\ answer[s] = "conflict" => stored[KeyOf[s]] \notin {NoHash, HashOf[s]}
    /\ answer[s] # "collided"

CountedOnce(k) == applied[k] = IF stored[k] = NoHash THEN 0 ELSE 1

ResultInv ==
    /\ Columns
    /\ \A s \in Submissions : Executing(s) /\ Told(s)
    /\ \A k \in Keys : CountedOnce(k)

(* Nothing is stored and nobody was told anything at the start.            *)
LEMMA InitResult ==
    ASSUME Init
    PROVE  ResultInv
BY ExecutorAssumption DEF Init, ExecutorInit, ResultInv, Columns, Places, Replies,
   Executing, Told, CountedOnce

(* What a step may do to the places, the locks and the answers while it    *)
(* stores nothing: it moves one submission s.                              *)
Moved(s, place, reply) ==
    /\ at' = [at EXCEPT ![s] = place]
    /\ answer' = [answer EXCEPT ![s] = reply]
    /\ UNCHANGED <<stored, applied>>

(* A submission that moves elsewhere than into its handler, with a reply   *)
(* that agrees with what is stored.                                        *)
LEMMA MovedKeeps ==
    ASSUME ResultInv, NEW s \in Submissions, NEW place \in Places \ {"dispatch"},
           NEW reply \in Replies, Moved(s, place, reply),
           \/ UNCHANGED xlock
           \/ xlock' = [k \in Keys |-> IF xlock[k] = s THEN NoOne ELSE xlock[k]],
           reply = "accepted" => stored[KeyOf[s]] = HashOf[s],
           reply = "conflict" => stored[KeyOf[s]] \notin {NoHash, HashOf[s]},
           reply # "collided"
    PROVE  ResultInv'
<1>1. Columns'
  BY DEF ResultInv, Columns, Moved
<1>2. /\ at'[s] = place /\ answer'[s] = reply
      /\ \A t \in Submissions \ {s} : at'[t] = at[t] /\ answer'[t] = answer[t]
  BY DEF ResultInv, Columns, Moved
<1>3. stored' = stored /\ applied' = applied
  BY DEF Moved
<1>4. \A t \in Submissions \ {s} : Executing(t)'
  <2>1. SUFFICES ASSUME NEW t \in Submissions \ {s}, at'[t] = "dispatch"
                 PROVE  xlock'[KeyOf[t]] = t /\ stored'[KeyOf[t]] = NoHash
    BY DEF Executing
  <2>2. xlock[KeyOf[t]] = t /\ stored[KeyOf[t]] = NoHash /\ KeyOf[t] \in Keys
    BY <1>2, <2>1, ExecutorAssumption DEF ResultInv, Executing
  <2>3. QED
    BY <1>3, <2>2
<1>5. Executing(s)'
  BY <1>2 DEF Executing
<1>6. \A t \in Submissions : Told(t)'
  BY <1>2, <1>3 DEF ResultInv, Told
<1>7. \A k \in Keys : CountedOnce(k)'
  BY <1>3 DEF ResultInv, CountedOnce
<1>8. QED
  BY <1>1, <1>4, <1>5, <1>6, <1>7 DEF ResultInv

(* A submission that ends without a result of its own (Ends).              *)
LEMMA EndsKeeps ==
    ASSUME ResultInv, NEW s \in Submissions, NEW reply \in Replies,
           Ends(s, reply), UNCHANGED <<stored, applied>>,
           reply = "accepted" => stored[KeyOf[s]] = HashOf[s],
           reply = "conflict" => stored[KeyOf[s]] \notin {NoHash, HashOf[s]},
           reply # "collided"
    PROVE  ResultInv'
<1>1. PICK place \in {"done", "leaving"} : Moved(s, place, reply)
  BY Zenon DEF Ends, Moved
<1>2. place \in Places \ {"dispatch"}
  BY DEF Places
<1>3. QED
  BY <1>1, <1>2, MovedKeeps DEF Ends

(* A submission that goes on without an answer and without a lock.         *)
LEMMA GoesOnKeeps ==
    ASSUME ResultInv, NEW s \in Submissions, NEW place \in Places \ {"dispatch"},
           at' = [at EXCEPT ![s] = place],
           UNCHANGED <<answer, xlock, stored, applied>>
    PROVE  ResultInv'
<1>1. answer[s] \in Replies /\ answer' = [answer EXCEPT ![s] = answer[s]]
  BY DEF ResultInv, Columns
<1>2. Told(s)
  BY DEF ResultInv
<1>3. QED
  BY <1>1, <1>2, MovedKeeps, Zenon DEF Moved, Told

(* The lookup of stored_command_result answers what agrees with the row it *)
(* read.                                                                   *)
LEMMA LookupAgrees ==
    ASSUME NEW s \in Submissions, stored[KeyOf[s]] # NoHash,
           NEW reply \in StoredReplies(s)
    PROVE  /\ reply \in Replies
           /\ reply = "accepted" => stored[KeyOf[s]] = HashOf[s]
           /\ reply = "conflict" => stored[KeyOf[s]] \notin {NoHash, HashOf[s]}
           /\ reply # "collided"
BY DEF StoredReplies, Replies, Refusals

(* BeginTransaction: the lock is free, so nobody else executes a command   *)
(* of this key.                                                            *)
LEMMA BeginKeeps ==
    ASSUME ResultInv, NEW s \in Submissions, NEW reply \in Replies,
           BeginTransaction(s, reply)
    PROVE  ResultInv'
<1>1. CASE stored[KeyOf[s]] # NoHash
  BY <1>1, LookupAgrees, EndsKeeps DEF BeginTransaction
<1>2. CASE stored[KeyOf[s]] = NoHash
  <2>1. /\ at[s] = "begin" /\ xlock[KeyOf[s]] = NoOne
        /\ xlock' = [xlock EXCEPT ![KeyOf[s]] = s]
        /\ at' = [at EXCEPT ![s] = "dispatch"]
        /\ answer' = answer /\ stored' = stored /\ applied' = applied
    BY <1>2 DEF BeginTransaction
  <2>2. KeyOf[s] \in Keys
    BY ExecutorAssumption
  <2>3. Columns'
    BY <2>1, <2>2 DEF ResultInv, Columns, Places
  <2>4. ASSUME NEW t \in Submissions PROVE Executing(t)'
    <3>1. CASE t = s
      BY <1>2, <2>1, <2>2, <3>1 DEF ResultInv, Columns, Executing
    <3>2. CASE t # s
      <4>1. at'[t] = at[t]
        BY <2>1, <3>2 DEF ResultInv, Columns
      <4>2. at[t] = "dispatch" => KeyOf[t] # KeyOf[s]
        BY <2>1, ExecutorAssumption DEF ResultInv, Executing
      <4>3. KeyOf[t] # KeyOf[s] => xlock'[KeyOf[t]] = xlock[KeyOf[t]]
        BY <2>1, ExecutorAssumption DEF ResultInv, Columns
      <4>4. Executing(t)
        BY DEF ResultInv
      <4>5. QED
        BY <2>1, <4>1, <4>2, <4>3, <4>4 DEF Executing
    <3>3. QED
      BY <3>1, <3>2
  <2>5. \A t \in Submissions : Told(t)'
    BY <2>1 DEF ResultInv, Told
  <2>6. \A k \in Keys : CountedOnce(k)'
    BY <2>1 DEF ResultInv, CountedOnce
  <2>7. QED
    BY <2>3, <2>4, <2>5, <2>6 DEF ResultInv
<1>3. QED
  BY <1>1, <1>2

(* CommitResult: who executes is the only one, so the key is still without *)
(* a result, and nobody was told anything about it.                        *)
LEMMA CommitKeeps ==
    ASSUME ResultInv, NEW s \in Submissions, NEW reply \in Replies,
           CommitResult(s, reply)
    PROVE  ResultInv'
<1>1. /\ at[s] = "dispatch" /\ KeyOf[s] \in Keys /\ HashOf[s] \in Hashes
      /\ xlock[KeyOf[s]] = s /\ stored[KeyOf[s]] = NoHash /\ applied[KeyOf[s]] = 0
  BY ExecutorAssumption DEF CommitResult, ResultInv, Executing, CountedOnce
<1>2. /\ reply \in {"accepted", "none"} /\ Ends(s, reply)
      /\ stored' = [stored EXCEPT ![KeyOf[s]] = HashOf[s]]
      /\ applied' = [applied EXCEPT ![KeyOf[s]] = @ + 1]
  BY <1>1 DEF CommitResult
<1>3. /\ stored'[KeyOf[s]] = HashOf[s] /\ applied'[KeyOf[s]] = 1 /\ HashOf[s] # NoHash
      /\ \A k \in Keys \ {KeyOf[s]} : stored'[k] = stored[k] /\ applied'[k] = applied[k]
  BY <1>1, <1>2, ExecutorAssumption DEF ResultInv, Columns
<1>4. PICK place \in {"done", "leaving"} : at' = [at EXCEPT ![s] = place]
  BY <1>2, Zenon DEF Ends
<1>5. /\ at'[s] # "dispatch" /\ answer'[s] = reply
      /\ \A t \in Submissions \ {s} : at'[t] = at[t] /\ answer'[t] = answer[t]
  BY <1>2, <1>4, Zenon DEF Ends, ResultInv, Columns
<1>6. Columns'
  <2>1. at' \in [Submissions -> Places] /\ answer' \in [Submissions -> Replies]
    BY <1>2, <1>4, Zenon DEF Ends, ResultInv, Columns, Places
  <2>2. xlock' \in [Keys -> Submissions \union {NoOne}]
    BY <1>2, Zenon DEF Ends, ResultInv, Columns
  <2>3. stored' \in [Keys -> Hashes \union {NoHash}] /\ applied' \in [Keys -> Nat]
    BY <1>1, <1>2 DEF ResultInv, Columns
  <2>4. QED
    BY <2>1, <2>2, <2>3 DEF Columns
<1>7. ASSUME NEW t \in Submissions PROVE Executing(t)'
  <2>1. CASE t = s
    BY <1>5, <2>1 DEF Executing
  <2>2. CASE t # s /\ at[t] = "dispatch"
    <3>1. xlock[KeyOf[t]] = t /\ stored[KeyOf[t]] = NoHash /\ KeyOf[t] \in Keys
      BY <2>2, ExecutorAssumption DEF ResultInv, Executing
    <3>2. KeyOf[t] # KeyOf[s]
      BY <1>1, <2>2, <3>1, Zenon
    <3>3. xlock'[KeyOf[t]] = t
      BY <1>2, <2>2, <3>1, Zenon DEF Ends
    <3>4. QED
      BY <1>3, <3>1, <3>2, <3>3, Zenon DEF Executing
  <2>3. CASE t # s /\ at[t] # "dispatch"
    BY <1>5, <2>3, Zenon DEF Executing
  <2>4. QED
    BY <2>1, <2>2, <2>3
<1>8. ASSUME NEW t \in Submissions PROVE Told(t)'
  <2>1. CASE t = s
    BY <1>2, <1>3, <1>5, <2>1, Zenon DEF Told
  <2>2. CASE t # s /\ KeyOf[t] = KeyOf[s]
    <3>1. answer[t] \notin {"accepted", "conflict", "collided"}
      BY <1>1, <2>2, ExecutorAssumption, Zenon DEF ResultInv, Told
    <3>2. QED
      BY <1>5, <2>2, <3>1 DEF Told
  <2>3. CASE t # s /\ KeyOf[t] # KeyOf[s]
    BY <1>3, <1>5, <2>3, ExecutorAssumption DEF ResultInv, Told
  <2>4. QED
    BY <2>1, <2>2, <2>3
<1>9. \A k \in Keys : CountedOnce(k)'
  BY <1>1, <1>3 DEF ResultInv, CountedOnce
<1>10. QED
  BY <1>6, <1>7, <1>8, <1>9 DEF ResultInv

(* One lemma for all of Next; the audit has none of these variables.       *)
LEMMA NextKeeps ==
    ASSUME ResultInv, [Next]_vars
    PROVE  ResultInv'
<1>1. CASE UNCHANGED executorVars
  BY <1>1, Zenon DEF executorVars, ResultInv, Columns, Executing, Told, CountedOnce
<1>2. ASSUME NEW s \in Submissions, Proceeds(s) PROVE ResultInv'
  <2>1. ASSUME NEW reply \in Replies, FlightEntered(s, reply) PROVE ResultInv'
    <3>1. CASE stored[KeyOf[s]] # NoHash
      BY <2>1, <3>1, LookupAgrees, EndsKeeps, Zenon DEF FlightEntered
    <3>2. CASE stored[KeyOf[s]] = NoHash
      <4>1. "reading" \in Places \ {"dispatch"}
        BY DEF Places
      <4>2. QED
        BY <2>1, <3>2, <4>1, GoesOnKeeps DEF FlightEntered
    <3>3. QED
      BY <3>1, <3>2
  <2>2. ASSUME NEW reply \in Replies, BeginTransaction(s, reply) PROVE ResultInv'
    BY <2>2, BeginKeeps
  <2>3. ASSUME NEW reply \in Replies, CommitResult(s, reply) PROVE ResultInv'
    BY <2>3, CommitKeeps
  <2>4. CASE RefuseCommand(s)
    <3>1. "refused" \in Replies
      BY DEF Replies, Refusals
    <3>2. QED
      BY <2>4, <3>1, EndsKeeps DEF RefuseCommand
  <2>5. CASE RecordRead(s)
    <3>1. "begin" \in Places \ {"dispatch"}
      BY DEF Places
    <3>2. QED
      BY <2>5, <3>1, GoesOnKeeps, Zenon DEF RecordRead
  <2>6. CASE LeaveFlight(s)
    <3>1. "done" \in Places \ {"dispatch"}
      BY DEF Places
    <3>2. QED
      BY <2>6, <3>1, GoesOnKeeps, Zenon DEF LeaveFlight
  <2>7. QED
    BY <1>2, <2>1, <2>2, <2>3, <2>4, <2>5, <2>6 DEF Proceeds
<1>3. ASSUME NEW s \in Submissions, Submits(s) PROVE ResultInv'
  <2>1. "invalid" \in Replies /\ "none" \in Replies
    BY DEF Replies, Refusals
  <2>2. "waiting" \in Places \ {"dispatch"} /\ "begin" \in Places \ {"dispatch"}
    BY DEF Places
  <2>3. CASE RejectEnvelope(s)
    BY <2>1, <2>3, EndsKeeps DEF RejectEnvelope
  <2>4. CASE AwaitFlight(s)
    BY <2>2, <2>4, GoesOnKeeps, Zenon DEF AwaitFlight
  <2>5. CASE NeedsNoRecord(s)
    BY <2>2, <2>5, GoesOnKeeps, Zenon DEF NeedsNoRecord
  <2>6. CASE Abort(s)
    BY <2>1, <2>6, EndsKeeps DEF Abort
  <2>7. QED
    BY <1>3, <2>3, <2>4, <2>5, <2>6 DEF Submits
<1>4. ASSUME NEW p \in Writers, Writes(p) \/ Probes(p) PROVE UNCHANGED executorVars
  BY <1>4 DEF Writes, Probes
<1>5. QED
  BY <1>1, <1>2, <1>3, <1>4 DEF Next, vars

(* For any number of submissions, instances and command ids, whatever they *)
(* carry: each command id of an actor gets at most one accepted result,    *)
(* the effect commits with it and once, and every answer agrees with it    *)
(* (execute, stored_result_response).                                      *)
THEOREM ResultsAreUnique == Spec => []OneResultPerCommand
<1>1. Init => ResultInv
  BY InitResult
<1>2. ResultInv /\ [Next]_vars => ResultInv'
  BY NextKeeps
<1>3. ResultInv => OneResultPerCommand
  BY Zenon DEF ResultInv, OneResultPerCommand, Told, CountedOnce
<1>4. QED
  BY <1>1, <1>2, <1>3, PTL DEF Spec

-----------------------------------------------------------------------------
(* Who has entered the slot of a key and not left it: holds its lock,      *)
(* waits for it, or is about to leave.                                     *)
Inside(p, k) == {s \in Submissions : ProcessOf[s] = p /\ KeyOf[s] = k /\ ticket[s] # 0}

(* A slot counts who is inside, and one that exists has a lock.            *)
SlotFits(p, k) ==
    /\ slots[p][k].entrants = Cardinality(Inside(p, k))
    /\ slots[p][k] = NoSlot \/ slots[p][k].lock > 0

(* Everybody inside a slot came for the lock the slot has now, so that     *)
(* holding it means the same to all of them.                               *)
InFlight(s) ==
    /\ ticket[s] # 0 => ticket[s] = Slot(s).lock
    /\ at[s] = "new" => ticket[s] = 0
    /\ at[s] \in {"waiting", "reading", "leaving"} => ticket[s] # 0
    /\ s \in holding => /\ ticket[s] # 0 /\ at[s] \in {"reading", "begin", "dispatch"}
                        /\ \A t \in Twins(s) : t \in holding => t = s

(* Only a submission that executes has the advisory lock.                  *)
LockHeld(k) == xlock[k] # NoOne => at[xlock[k]] = "dispatch"

FlightInv ==
    /\ slots \in [Processes -> [Keys -> [lock : Nat, entrants : Nat]]]
    /\ ticket \in [Submissions -> Nat]
    /\ holding \subseteq Submissions
    /\ \A p \in Processes, k \in Keys : SlotFits(p, k)
    /\ \A s \in Submissions : InFlight(s)
    /\ \A k \in Keys : LockHeld(k)

(* The submissions that a slot counts are finitely many.                   *)
LEMMA InsideFinite ==
    ASSUME NEW p, NEW k
    PROVE  IsFiniteSet(Inside(p, k)) /\ Cardinality(Inside(p, k)) \in Nat
<1>1. Inside(p, k) \subseteq Submissions
  BY DEF Inside
<1> QED
  BY <1>1, ExecutorAssumption, FS_Subset, FS_CardinalityType

(* A key without a slot is used by nobody, so there is a lock for a new    *)
(* slot (CommandFlights::enter).                                           *)
LEMMA FreshLockIsOne ==
    ASSUME FlightInv, NEW s \in Submissions, Slot(s) = NoSlot
    PROVE  FreshLock(s) \in Nat /\ FreshLock(s) > 0
<1>1. ProcessOf[s] \in Processes /\ KeyOf[s] \in Keys
  BY ExecutorAssumption
<1>2. Cardinality(Inside(ProcessOf[s], KeyOf[s])) = 0
  BY <1>1 DEF FlightInv, SlotFits, Slot, NoSlot
<1>3. Inside(ProcessOf[s], KeyOf[s]) = {}
  BY <1>2, InsideFinite, FS_EmptySet
<1>4. \A t \in Twins(s) : ticket[t] # 1
  BY <1>3 DEF Inside, Twins
<1>5. Cardinality(Submissions) \in Nat /\ Cardinality(Submissions) # 0
  BY ExecutorAssumption, FS_CardinalityType, FS_EmptySet
<1>6. 1 \in 1 .. Cardinality(Submissions)
  BY <1>5
<1>7. FreshLock(s) \in 1 .. Cardinality(Submissions)
  BY <1>4, <1>6 DEF FreshLock
<1> QED
  BY <1>5, <1>7

(* A step that leaves slots and tickets alone: one submission moves on,    *)
(* and it keeps or gives up the flight's lock and the advisory lock as its *)
(* new place demands.                                                      *)
LEMMA SameFlights ==
    ASSUME ResultInv, FlightInv, NEW s \in Submissions, UNCHANGED <<slots, ticket>>,
           NEW place \in Places, at' = [at EXCEPT ![s] = place],
           place # "new",
           place \in {"waiting", "reading", "leaving"} => ticket[s] # 0,
           \/ holding' = holding \ {s}
           \/ holding' = holding /\ (s \in holding => place \in {"reading", "begin", "dispatch"}),
           \/ xlock' = [k \in Keys |-> IF xlock[k] = s THEN NoOne ELSE xlock[k]]
           \/ xlock' = xlock /\ at[s] # "dispatch"
           \/ xlock' = [xlock EXCEPT ![KeyOf[s]] = s] /\ place = "dispatch"
    PROVE  FlightInv'
<1>1. at'[s] = place /\ \A t \in Submissions \ {s} : at'[t] = at[t]
  BY Zenon DEF ResultInv, Columns
<1>2. \A p \in Processes, k \in Keys : SlotFits(p, k)'
  <2>1. \A p \in Processes, k \in Keys : Inside(p, k)' = Inside(p, k)
    BY Zenon DEF Inside
  <2> QED
    BY <2>1, ZenonT(60) DEF FlightInv, SlotFits
<1>3. ASSUME NEW t \in Submissions PROVE InFlight(t)'
  <2>1. CASE t = s
    BY <1>1, <2>1, Zenon DEF FlightInv, InFlight, Slot, Twins
  <2>2. CASE t # s
    BY <1>1, <2>2, Zenon DEF FlightInv, InFlight, Slot, Twins
  <2> QED
    BY <2>1, <2>2
<1>4. ASSUME NEW k \in Keys PROVE LockHeld(k)'
  <2>0. xlock \in [Keys -> Submissions \union {NoOne}] /\ KeyOf[s] \in Keys /\ LockHeld(k)
    BY ExecutorAssumption, Zenon DEF ResultInv, Columns, FlightInv
  <2>1. CASE xlock' = [j \in Keys |-> IF xlock[j] = s THEN NoOne ELSE xlock[j]]
    BY <1>1, <2>0, <2>1 DEF LockHeld
  <2>2. CASE xlock' = xlock /\ at[s] # "dispatch"
    BY <1>1, <2>0, <2>2 DEF LockHeld
  <2>3. CASE xlock' = [xlock EXCEPT ![KeyOf[s]] = s] /\ place = "dispatch"
    BY <1>1, <2>0, <2>3 DEF LockHeld
  <2> QED
    BY <2>1, <2>2, <2>3, Zenon
<1>5. holding' \subseteq Submissions
  BY Zenon DEF FlightInv
<1> QED
  BY <1>2, <1>3, <1>4, <1>5, Zenon DEF FlightInv

(* A submission that ends gives up both locks and stays counted until it   *)
(* has left its slot.                                                      *)
LEMMA EndsFlies ==
    ASSUME ResultInv, FlightInv, NEW s \in Submissions, NEW reply, Ends(s, reply)
    PROVE  FlightInv'
<1> DEFINE place == IF ticket[s] = 0 THEN "done" ELSE "leaving"
<1>1. place \in Places /\ place # "new" /\ (place = "leaving" => ticket[s] # 0)
      /\ place \notin {"waiting", "reading"}
  BY DEF Places
<1>2. /\ at' = [at EXCEPT ![s] = place] /\ holding' = holding \ {s} /\ UNCHANGED <<slots, ticket>>
      /\ xlock' = [k \in Keys |-> IF xlock[k] = s THEN NoOne ELSE xlock[k]]
  BY DEF Ends, GuardTaken
<1> HIDE DEF place
<1> QED
  BY <1>1, <1>2, SameFlights, Zenon

(* A submission that enters or leaves a slot without holding its lock: the *)
(* count of its slot follows, and every twin that is still inside keeps    *)
(* the lock it came for.                                                   *)
LEMMA OneSlotWritten ==
    ASSUME ResultInv, FlightInv, NEW s \in Submissions,
           NEW slot \in [lock : Nat, entrants : Nat], NEW n \in Nat, NEW place \in Places,
           slots' = [slots EXCEPT ![ProcessOf[s]][KeyOf[s]] = slot],
           ticket' = [ticket EXCEPT ![s] = n],
           at' = [at EXCEPT ![s] = place],
           UNCHANGED <<holding, xlock>>,
           s \notin holding, at[s] # "dispatch",
           slot.entrants = Cardinality(Inside(ProcessOf[s], KeyOf[s])'),
           slot = NoSlot \/ slot.lock > 0,
           n # 0 => n = slot.lock,
           place \in {"waiting", "done"}, place = "waiting" <=> n # 0,
           \A t \in Twins(s) \ {s} : ticket[t] # 0 => slot.lock = Slot(s).lock
    PROVE  FlightInv'
<1> DEFINE P == ProcessOf[s]
           K == KeyOf[s]
<1>0. P \in Processes /\ K \in Keys
  BY ExecutorAssumption
<1>1. /\ at'[s] = place /\ \A t \in Submissions \ {s} : at'[t] = at[t]
      /\ ticket'[s] = n /\ \A t \in Submissions \ {s} : ticket'[t] = ticket[t]
  BY Zenon DEF ResultInv, Columns, FlightInv
<1>2. /\ slots'[P][K] = slot
      /\ \A p \in Processes, k \in Keys : p # P \/ k # K => slots'[p][k] = slots[p][k]
      /\ slots' \in [Processes -> [Keys -> [lock : Nat, entrants : Nat]]]
      /\ ticket' \in [Submissions -> Nat]
  BY <1>0, Zenon DEF FlightInv
<1>3. ASSUME NEW p \in Processes, NEW k \in Keys PROVE SlotFits(p, k)'
  <2>1. CASE p = P /\ k = K
    BY <1>2, <2>1, Zenon DEF SlotFits
  <2>2. CASE p # P \/ k # K
    <3>1. Inside(p, k)' = Inside(p, k)
      BY <1>1, <2>2, Zenon DEF Inside
    <3> QED
      BY <1>2, <2>2, <3>1, SMTT(60) DEF FlightInv, SlotFits
  <2> QED
    BY <2>1, <2>2
<1>4. ASSUME NEW t \in Submissions PROVE InFlight(t)'
  <2>0. ProcessOf[t] \in Processes /\ KeyOf[t] \in Keys /\ InFlight(t)
    BY ExecutorAssumption, Zenon DEF FlightInv
  <2>1. CASE t = s
    BY <1>1, <1>2, <2>1, Zenon DEF InFlight, Slot, Twins
  <2>2. CASE t # s
    <3>1. ticket'[t] # 0 => ticket'[t] = Slot(t)'.lock
      <4>1. CASE t \in Twins(s)
        BY <1>1, <1>2, <2>0, <2>2, <4>1, SMTT(60) DEF InFlight, Slot, Twins
      <4>2. CASE t \notin Twins(s)
        BY <1>1, <1>2, <2>0, <2>2, <4>2, SMTT(60) DEF InFlight, Slot, Twins
      <4> QED
        BY <4>1, <4>2
    <3> QED
      BY <1>1, <2>0, <2>2, <3>1, Zenon DEF InFlight, Twins
  <2> QED
    BY <2>1, <2>2
<1>5. ASSUME NEW k \in Keys PROVE LockHeld(k)'
  BY <1>1, ZenonT(60) DEF FlightInv, LockHeld, ResultInv, Columns
<1> QED
  BY <1>2, <1>3, <1>4, <1>5, Zenon DEF FlightInv

(* enter: the slot of the key, or a new one, counts one more.              *)
LEMMA AwaitFlies ==
    ASSUME ResultInv, FlightInv, NEW s \in Submissions, AwaitFlight(s)
    PROVE  FlightInv'
<1> DEFINE P == ProcessOf[s]
           K == KeyOf[s]
           old == IF Slot(s) = NoSlot THEN [lock |-> FreshLock(s), entrants |-> 0] ELSE Slot(s)
           slot == [old EXCEPT !.entrants = @ + 1]
<1>0. P \in Processes /\ K \in Keys
  BY ExecutorAssumption
<1>1. /\ at[s] = "new" /\ ticket[s] = 0 /\ s \notin holding
      /\ at' = [at EXCEPT ![s] = "waiting"] /\ UNCHANGED <<holding, xlock>>
      /\ slots' = [slots EXCEPT ![P][K] = slot] /\ ticket' = [ticket EXCEPT ![s] = old.lock]
  BY DEF AwaitFlight, EnterFlight, WithSlot, FlightInv, InFlight
<1>2. /\ Slot(s) \in [lock : Nat, entrants : Nat]
      /\ Slot(s).entrants = Cardinality(Inside(P, K))
      /\ Slot(s) # NoSlot => Slot(s).lock > 0
  BY <1>0, Zenon DEF Slot, FlightInv, SlotFits
<1>3. /\ old \in [lock : Nat, entrants : Nat] /\ old.lock > 0 /\ old.entrants = Slot(s).entrants
      /\ Slot(s) # NoSlot => old.lock = Slot(s).lock
  <2>1. CASE Slot(s) = NoSlot
    BY <2>1, FreshLockIsOne DEF NoSlot
  <2>2. CASE Slot(s) # NoSlot
    BY <1>2, <2>2, Zenon
  <2> QED
    BY <2>1, <2>2, Zenon
<1> HIDE DEF old
<1>4. /\ slot \in [lock : Nat, entrants : Nat] /\ slot.lock = old.lock
      /\ slot.entrants = old.entrants + 1
  BY <1>3
<1> HIDE DEF slot
<1>5. Inside(P, K)' = Inside(P, K) \union {s} /\ s \notin Inside(P, K)
  <2>1. ticket'[s] = old.lock /\ \A t \in Submissions \ {s} : ticket'[t] = ticket[t]
    BY <1>1, Zenon DEF FlightInv
  <2> QED
    BY <1>1, <1>3, <2>1 DEF Inside
<1>6. slot.entrants = Cardinality(Inside(P, K)')
  <2>1. IsFiniteSet(Inside(P, K))
    BY InsideFinite, Zenon
  <2>2. Cardinality(Inside(P, K) \union {s}) = Cardinality(Inside(P, K)) + 1
    BY <1>5, <2>1, FS_AddElement, Zenon
  <2> QED
    BY <1>2, <1>3, <1>4, <1>5, <2>2, Zenon
<1>7. ASSUME NEW t \in Twins(s) \ {s}, ticket[t] # 0 PROVE slot.lock = Slot(s).lock
  <2>1. t \in Inside(P, K) /\ IsFiniteSet(Inside(P, K))
    BY <1>7, InsideFinite DEF Inside, Twins
  <2>2. Cardinality(Inside(P, K)) # 0
    BY <2>1, FS_EmptySet, Zenon
  <2>3. Slot(s) # NoSlot
    BY <1>2, <2>2 DEF NoSlot
  <2> QED
    BY <1>3, <1>4, <2>3
<1>8. "waiting" \in Places /\ old.lock \in Nat /\ old.lock # 0
  BY <1>3 DEF Places
<1> QED
  BY <1>1, <1>3, <1>4, <1>6, <1>7, <1>8, OneSlotWritten, Zenon

(* drop: the slot counts one less, and the last to leave removes the key.  *)
LEMMA LeaveFlies ==
    ASSUME ResultInv, FlightInv, NEW s \in Submissions, LeaveFlight(s)
    PROVE  FlightInv'
<1> DEFINE P == ProcessOf[s]
           K == KeyOf[s]
           slot == IF Slot(s).entrants = 1 THEN NoSlot ELSE [Slot(s) EXCEPT !.entrants = @ - 1]
<1>0. P \in Processes /\ K \in Keys
  BY ExecutorAssumption
<1>1. /\ at[s] = "leaving" /\ ticket[s] # 0 /\ s \notin holding
      /\ at' = [at EXCEPT ![s] = "done"] /\ UNCHANGED <<holding, xlock>>
      /\ slots' = [slots EXCEPT ![P][K] = slot] /\ ticket' = [ticket EXCEPT ![s] = 0]
  BY DEF LeaveFlight, WithSlot, FlightInv, InFlight
<1>2. /\ Slot(s) \in [lock : Nat, entrants : Nat]
      /\ Slot(s).entrants = Cardinality(Inside(P, K))
      /\ Slot(s) # NoSlot => Slot(s).lock > 0
  BY <1>0, Zenon DEF Slot, FlightInv, SlotFits
<1>3. s \in Inside(P, K) /\ Inside(P, K)' = Inside(P, K) \ {s}
  <2>1. ticket'[s] = 0 /\ \A t \in Submissions \ {s} : ticket'[t] = ticket[t]
    BY <1>1 DEF FlightInv
  <2> QED
    BY <1>1, <2>1 DEF Inside
<1>4. Cardinality(Inside(P, K)') = Cardinality(Inside(P, K)) - 1
  BY <1>3, InsideFinite, FS_RemoveElement, Zenon
<1>5. IsFiniteSet(Inside(P, K)') /\ Cardinality(Inside(P, K)') \in Nat
  BY <1>3, InsideFinite, FS_Subset, FS_CardinalityType, Zenon
<1>6. /\ slot \in [lock : Nat, entrants : Nat]
      /\ slot.entrants = Cardinality(Inside(P, K)')
      /\ slot = NoSlot \/ slot.lock > 0
      /\ Slot(s).entrants # 1 => slot.lock = Slot(s).lock
  <2>1. CASE Slot(s).entrants = 1
    BY <1>2, <1>4, <2>1 DEF NoSlot
  <2>2. CASE Slot(s).entrants # 1
    <3> DEFINE n == Slot(s).entrants - 1
    <3>1. n \in Nat /\ n = Cardinality(Inside(P, K)') /\ n # 0
      BY <1>2, <1>4, <1>5, <2>2, InsideFinite
    <3>2. slot = [Slot(s) EXCEPT !.entrants = n]
      BY <1>2, <2>2
    <3> HIDE DEF n, slot
    <3>3. slot \in [lock : Nat, entrants : Nat] /\ slot.entrants = n /\ slot.lock = Slot(s).lock
      BY <1>2, <3>1, <3>2
    <3>4. Slot(s) # NoSlot
      BY <1>2, <1>4, <3>1, InsideFinite DEF NoSlot
    <3> QED
      BY <1>2, <3>1, <3>3, <3>4, Zenon
  <2> QED
    BY <2>1, <2>2
<1> HIDE DEF slot
<1>7. ASSUME NEW t \in Twins(s) \ {s}, ticket[t] # 0 PROVE slot.lock = Slot(s).lock
  <2>1. t \in Inside(P, K)'
    BY <1>3, <1>7, Zenon DEF Inside, Twins
  <2>2. Cardinality(Inside(P, K)') # 0
    BY <1>5, <2>1, FS_EmptySet, Zenon
  <2> QED
    BY <1>2, <1>4, <1>6, <2>2
<1>8. "done" \in Places
  BY DEF Places
<1> QED
  BY <1>1, <1>6, <1>7, <1>8, OneSlotWritten, Zenon

(* The lock is free, and twins inside wait for this same lock: the one who *)
(* gets it is alone.                                                       *)
LEMMA ReadingFlies ==
    ASSUME ResultInv, FlightInv, NEW s \in Submissions, NEW reply, FlightEntered(s, reply),
           stored[KeyOf[s]] = NoHash
    PROVE  FlightInv'
<1>1. /\ at[s] = "waiting" /\ LockFree(s) /\ holding' = holding \union {s}
      /\ at' = [at EXCEPT ![s] = "reading"] /\ UNCHANGED <<slots, ticket, xlock>>
  BY Zenon DEF FlightEntered
<1>2. at'[s] = "reading" /\ \A t \in Submissions \ {s} : at'[t] = at[t]
  BY <1>1, Zenon DEF ResultInv, Columns
<1>3. ticket[s] # 0 /\ ticket[s] = Slot(s).lock
  BY <1>1, Zenon DEF FlightInv, InFlight
<1>4. \A t \in Twins(s) : t \in holding => t = s
  BY <1>1, <1>3, Zenon DEF LockFree, FlightInv, InFlight, Slot, Twins
<1>5. \A p \in Processes, k \in Keys : SlotFits(p, k)'
  <2>1. \A p \in Processes, k \in Keys : Inside(p, k)' = Inside(p, k)
    BY <1>1, Zenon DEF Inside
  <2> QED
    BY <1>1, <2>1, Zenon DEF FlightInv, SlotFits
<1>6. ASSUME NEW t \in Submissions PROVE InFlight(t)'
  <2>0. InFlight(t)
    BY Zenon DEF FlightInv
  <2>1. CASE t = s
    BY <1>1, <1>2, <1>3, <1>4, <2>1, Zenon DEF InFlight, Slot, Twins
  <2>2. CASE t # s
    <3>1. t \in holding => s \notin Twins(t)
      BY <1>4, <2>2, Zenon DEF Twins
    <3> QED
      BY <1>1, <1>2, <2>0, <2>2, <3>1, Zenon DEF InFlight, Slot, Twins
  <2> QED
    BY <2>1, <2>2, Zenon
<1>7. ASSUME NEW k \in Keys PROVE LockHeld(k)'
  BY <1>1, <1>2, Zenon DEF FlightInv, LockHeld, ResultInv, Columns
<1> QED
  BY <1>1, <1>5, <1>6, <1>7, Zenon DEF FlightInv

(* One lemma for all of Next; the audit has none of these variables.       *)
LEMMA NextFlies ==
    ASSUME ResultInv, FlightInv, [Next]_vars
    PROVE  FlightInv'
<1>1. CASE UNCHANGED executorVars
  <2>1. \A p \in Processes, k \in Keys : Inside(p, k)' = Inside(p, k)
    BY <1>1 DEF Inside, executorVars
  <2> QED
    BY <1>1, <2>1, ZenonT(60)
    DEF executorVars, FlightInv, SlotFits, InFlight, LockHeld, Slot, Twins
<1>2. {"begin", "dispatch"} \subseteq Places
  BY DEF Places
<1>3. ASSUME NEW s \in Submissions, Proceeds(s) PROVE FlightInv'
  <2>1. ASSUME NEW reply \in Replies, FlightEntered(s, reply) PROVE FlightInv'
    BY <2>1, EndsFlies, ReadingFlies, Zenon DEF FlightEntered
  <2>2. ASSUME NEW reply \in Replies, BeginTransaction(s, reply) PROVE FlightInv'
    <3>1. CASE stored[KeyOf[s]] # NoHash
      BY <2>2, <3>1, EndsFlies, Zenon DEF BeginTransaction
    <3>2. CASE stored[KeyOf[s]] = NoHash
      BY <1>2, <2>2, <3>2, SameFlights, Zenon DEF BeginTransaction
    <3> QED
      BY <3>1, <3>2
  <2>3. ASSUME NEW reply \in Replies, CommitResult(s, reply) PROVE FlightInv'
    BY <2>3, EndsFlies, Zenon DEF CommitResult
  <2>4. CASE RefuseCommand(s)
    BY <2>4, EndsFlies DEF RefuseCommand
  <2>5. CASE RecordRead(s)
    BY <1>2, <2>5, SameFlights, Zenon DEF RecordRead
  <2>6. CASE LeaveFlight(s)
    BY <2>6, LeaveFlies
  <2> QED
    BY <1>3, <2>1, <2>2, <2>3, <2>4, <2>5, <2>6 DEF Proceeds
<1>4. ASSUME NEW s \in Submissions, Submits(s) PROVE FlightInv'
  <2>1. CASE RejectEnvelope(s)
    BY <2>1, EndsFlies DEF RejectEnvelope
  <2>2. CASE AwaitFlight(s)
    BY <2>2, AwaitFlies
  <2>3. CASE NeedsNoRecord(s)
    BY <1>2, <2>3, SameFlights, Zenon DEF NeedsNoRecord
  <2>4. CASE Abort(s)
    BY <2>4, EndsFlies DEF Abort
  <2> QED
    BY <1>4, <2>1, <2>2, <2>3, <2>4 DEF Submits
<1>5. ASSUME NEW p \in Writers, Writes(p) \/ Probes(p) PROVE UNCHANGED executorVars
  BY <1>5 DEF Writes, Probes
<1> QED
  BY <1>1, <1>3, <1>4, <1>5 DEF Next, vars

(* Nobody is under way at the start.                                       *)
LEMMA InitFlies ==
    ASSUME Init
    PROVE  FlightInv
<1>1. /\ NoSlot \in [lock : Nat, entrants : Nat] /\ NoSlot.entrants = 0
      /\ \A p \in Processes, k \in Keys : slots[p][k] = NoSlot
      /\ \A s \in Submissions : ticket[s] = 0 /\ at[s] = "new"
      /\ holding = {} /\ \A k \in Keys : xlock[k] = NoOne
  BY Zenon DEF Init, ExecutorInit, NoSlot
<1>2. \A p \in Processes, k \in Keys : Inside(p, k) = {}
  BY <1>1 DEF Inside
<1>3. \A p \in Processes, k \in Keys : SlotFits(p, k)
  BY <1>1, <1>2, FS_EmptySet, Zenon DEF SlotFits
<1>4. \A s \in Submissions : InFlight(s)
  BY <1>1, Zenon DEF InFlight
<1>5. \A k \in Keys : LockHeld(k)
  BY <1>1, Zenon DEF LockHeld
<1> QED
  BY <1>1, <1>3, <1>4, <1>5, Zenon DEF Init, ExecutorInit, FlightInv

(* For any finite number of submissions, any instances and keys, whoever   *)
(* gives up waiting or leaves: one submission of a command at a time reads *)
(* or executes past its read on an instance, the advisory lock is held by  *)
(* submissions under way only, and a slot counts exactly who is inside     *)
(* (CommandFlights, pg_advisory_xact_lock).                                *)
THEOREM OneReaderAtATime == Spec => []OneReaderPerFlight
<1>1. Init => ResultInv /\ FlightInv
  BY InitResult, InitFlies
<1>2. ResultInv /\ FlightInv /\ [Next]_vars => (ResultInv /\ FlightInv)'
  BY NextKeeps, NextFlies
<1>3. FlightInv => OneReaderPerFlight
  BY Zenon DEF FlightInv, InFlight, LockHeld, SlotFits, Inside, OneReaderPerFlight
<1> QED
  BY <1>1, <1>2, <1>3, PTL DEF Spec

-----------------------------------------------------------------------------
(* What Units has for one x.                                               *)
Block(x, n) == {x} \X (1 .. n)

(* n things of one x are n things.                                         *)
LEMMA BlockSize ==
    ASSUME NEW x, NEW n \in Nat
    PROVE  IsFiniteSet(Block(x, n)) /\ Cardinality(Block(x, n)) = n
<1>1. IsFiniteSet({x}) /\ Cardinality({x}) = 1
  BY FS_Singleton
<1>2. IsFiniteSet(1 .. n) /\ Cardinality(1 .. n) = n
  BY FS_Interval
<1>3. IsFiniteSet({x} \X (1 .. n)) /\ Cardinality({x} \X (1 .. n)) = n
  <2> DEFINE one == {x}
             upto == 1 .. n
  <2>1. /\ IsFiniteSet(one) /\ Cardinality(one) = 1
        /\ IsFiniteSet(upto) /\ Cardinality(upto) = n
    BY <1>1, <1>2
  <2> HIDE DEF one, upto
  <2>2. IsFiniteSet(one \X upto) /\ Cardinality(one \X upto) = Cardinality(one) * Cardinality(upto)
    BY <2>1, FS_Product
  <2>3. Cardinality(one \X upto) = n
    BY <2>1, <2>2
  <2> QED
    BY <2>2, <2>3 DEF one, upto
<1> QED
  BY <1>3 DEF Block

(* When one count of many changes, their sum changes by the difference.    *)
LEMMA OneCountChanges ==
    ASSUME NEW S, NEW f \in [S -> Nat], IsFiniteSet(Units(f)), NEW x \in S,
           NEW g \in [S -> Nat], \A y \in S \ {x} : g[y] = f[y]
    PROVE  /\ IsFiniteSet(Units(g))
           /\ Cardinality(Units(f)) \in Nat /\ Cardinality(Units(g)) \in Nat
           /\ Cardinality(Units(g)) + f[x] = Cardinality(Units(f)) + g[x]
<1> DEFINE rest == UNION {Block(y, f[y]) : y \in S \ {x}}
<1>1. Units(f) = rest \union Block(x, f[x]) /\ Units(g) = rest \union Block(x, g[x])
  <2>1. \A h \in [S -> Nat] : Units(h) = UNION {Block(y, h[y]) : y \in S}
    BY DEF Units, Block
  <2>3. \A h \in [S -> Nat] : UNION {Block(y, h[y]) : y \in S}
              = (UNION {Block(y, h[y]) : y \in S \ {x}}) \union Block(x, h[x])
    OBVIOUS
  <2>4. UNION {Block(y, g[y]) : y \in S \ {x}} = rest
    OBVIOUS
  <2> QED
    BY <2>1, <2>3, <2>4, Zenon
<1>2. rest \cap Block(x, f[x]) = {} /\ rest \cap Block(x, g[x]) = {}
  BY DEF Block
<1> HIDE DEF rest
<1>3. IsFiniteSet(rest)
  BY <1>1, FS_Subset, Zenon
<1>4. \A k \in Nat : rest \cap Block(x, k) = {} =>
          /\ IsFiniteSet(rest \union Block(x, k))
          /\ Cardinality(rest \union Block(x, k)) = Cardinality(rest) + k
  <2> TAKE k \in Nat
  <2> HAVE rest \cap Block(x, k) = {}
  <2>1. IsFiniteSet(Block(x, k)) /\ Cardinality(Block(x, k)) = k
    BY BlockSize
  <2>2. /\ IsFiniteSet(rest \union Block(x, k))
        /\ Cardinality(rest \union Block(x, k))
              = Cardinality(rest) + Cardinality(Block(x, k)) - Cardinality(rest \cap Block(x, k))
    BY <1>3, <2>1, FS_Union, Zenon
  <2>3. Cardinality(rest) \in Nat /\ Cardinality(rest \cap Block(x, k)) = 0
    BY <1>3, FS_EmptySet, FS_CardinalityType, Zenon
  <2> QED
    BY <2>1, <2>2, <2>3
<1>5. f[x] \in Nat /\ g[x] \in Nat /\ Cardinality(rest) \in Nat
  BY <1>3, FS_CardinalityType, Zenon
<1>6. /\ IsFiniteSet(Units(g)) /\ Cardinality(Units(g)) = Cardinality(rest) + g[x]
      /\ Cardinality(Units(f)) = Cardinality(rest) + f[x]
  BY <1>1, <1>2, <1>4, <1>5, Zenon
<1> HIDE DEF Units
<1> QED
  BY <1>5, <1>6

(* A client is told something only when its submission ends.               *)
NotYetTold(s) == at[s] \notin {"leaving", "done"} => answer[s] = "none"

Hands == [kind : RefusalKinds \union {"none"}, attempt : Nat]
(* The writer flushes losses between two envelopes only.                   *)
InHand(p) ==
    \/ hand[p] = Empty
    \/ hand[p].attempt > 0 /\ hand[p].kind \in RefusalKinds /\ swapped[p] = 0

AuditTyped ==
    /\ queue \in [Writers -> Seq(RefusalKinds)]
    /\ hand \in [Writers -> Hands] /\ \A p \in Writers : InHand(p)
    /\ pending \in [Writers -> Nat] /\ swapped \in [Writers -> Nat]
    /\ rows \in [RefusalKinds -> Nat]
    /\ overflow \in Nat /\ gap \in Nat /\ doubled \in Nat

AuditInv ==
    /\ AuditTyped
    /\ IsFiniteSet(Units(InMemory)) /\ IsFiniteSet(Units(rows))
    /\ \A s \in Submissions : NotYetTold(s)
    /\ RefusalsAccounted

(* What a writer holds is a number.                                        *)
LEMMA HeldIsNat ==
    ASSUME AuditTyped, NEW p \in Writers
    PROVE  /\ Held(p) \in Nat /\ Len(queue[p]) \in Nat
           /\ pending[p] \in Nat /\ swapped[p] \in Nat
<1>1. queue[p] \in Seq(RefusalKinds) /\ pending[p] \in Nat /\ swapped[p] \in Nat
  BY Zenon DEF AuditTyped
<1>2. Len(queue[p]) \in Nat
  BY <1>1
<1>3. Working(p) \in Nat
  BY DEF Working
<1> QED
  BY <1>1, <1>2, <1>3, SMTT(60) DEF Held

(* The same after a step.                                                  *)
LEMMA HeldIsNatNext ==
    ASSUME AuditTyped', NEW p \in Writers
    PROVE  Held(p)' \in Nat
<1>1. queue'[p] \in Seq(RefusalKinds) /\ pending'[p] \in Nat /\ swapped'[p] \in Nat
  BY DEF AuditTyped
<1>2. Len(queue'[p]) \in Nat
  BY <1>1
<1>3. Working(p)' \in Nat
  BY DEF Working
<1> QED
  BY <1>1, <1>2, <1>3, SMTT(60) DEF Held

(* A step of one instance changes the sum of what all hold in memory by    *)
(* what it changes of its own.                                             *)
LEMMA MemoryMoves ==
    ASSUME AuditInv, AuditTyped', NEW p \in Writers,
           \A q \in Writers \ {p} : Held(q)' = Held(q)
    PROVE  /\ IsFiniteSet(Units(InMemory)')
           /\ Cardinality(Units(InMemory)) \in Nat /\ Cardinality(Units(InMemory)') \in Nat
           /\ Cardinality(Units(InMemory)') + Held(p) = Cardinality(Units(InMemory)) + Held(p)'
<1>1. \A q \in Writers : Held(q) \in Nat
  BY HeldIsNat, Zenon DEF AuditInv
<1>2. Held(p)' \in Nat
  BY HeldIsNatNext
<1>3. /\ InMemory \in [Writers -> Nat] /\ InMemory' \in [Writers -> Nat]
      /\ InMemory[p] = Held(p) /\ InMemory'[p] = Held(p)'
      /\ \A q \in Writers \ {p} : InMemory'[q] = InMemory[q]
  BY <1>1, <1>2, Zenon DEF InMemory
<1>4. IsFiniteSet(Units(InMemory))
  BY DEF AuditInv
<1> QED
  BY <1>3, <1>4, OneCountChanges

(* A delivery counts one refusal, in its row or as overflow                *)
(* (prepare_delivery).                                                     *)
LEMMA RefusalCounted ==
    ASSUME AuditInv, NEW kind \in RefusalKinds, CountRefusal(kind)
    PROVE  /\ rows' \in [RefusalKinds -> Nat] /\ overflow' \in Nat
           /\ IsFiniteSet(Units(rows)')
           /\ Cardinality(Units(rows)) \in Nat /\ Cardinality(Units(rows)') \in Nat
           /\ Cardinality(Units(rows)') + overflow' = Cardinality(Units(rows)) + overflow + 1
<1>1. rows \in [RefusalKinds -> Nat] /\ overflow \in Nat /\ IsFiniteSet(Units(rows))
  BY Zenon DEF AuditInv, AuditTyped
<1>2. Cardinality(Units(rows)) \in Nat
  BY <1>1, FS_CardinalityType
<1>3. CASE rows' = [rows EXCEPT ![kind] = @ + 1] /\ UNCHANGED overflow
  <2>1. /\ rows' \in [RefusalKinds -> Nat] /\ rows[kind] \in Nat /\ rows'[kind] = rows[kind] + 1
        /\ \A k \in RefusalKinds \ {kind} : rows'[k] = rows[k]
    BY <1>1, <1>3
  <2>2. /\ IsFiniteSet(Units(rows)') /\ Cardinality(Units(rows)') \in Nat
        /\ Cardinality(Units(rows)') + rows[kind] = Cardinality(Units(rows)) + rows'[kind]
    BY <1>1, <2>1, OneCountChanges
  <2> QED
    BY <1>1, <1>2, <1>3, <2>1, <2>2
<1>4. CASE overflow' = overflow + 1 /\ UNCHANGED rows
  <2>1. Units(rows)' = Units(rows)
    BY <1>4 DEF Units
  <2> QED
    BY <1>1, <1>2, <1>4, <2>1
<1> QED
  BY <1>3, <1>4, Zenon DEF CountRefusal

(* Refusals that are stored: in rows, or as overflow.                      *)
InTables == Cardinality(Units(rows)) + overflow

(* What the tables count is a number.                                      *)
LEMMA TablesCounted ==
    ASSUME AuditInv
    PROVE  Cardinality(Units(rows)) \in Nat /\ overflow \in Nat /\ InTables \in Nat
<1>1. Cardinality(Units(rows)) \in Nat /\ overflow \in Nat
  BY FS_CardinalityType DEF AuditInv, AuditTyped
<1> QED
  BY <1>1 DEF InTables

(* It stays what it was when they are not written.                         *)
LEMMA TablesSame ==
    ASSUME AuditInv, UNCHANGED <<rows, overflow>>
    PROVE  IsFiniteSet(Units(rows)') /\ InTables' = InTables /\ InTables \in Nat
<1>1. Units(rows)' = Units(rows)
  BY DEF Units
<1> QED
  BY <1>1, TablesCounted, Zenon DEF InTables, AuditInv

(* RefusalCounted, of both tables together.                                *)
LEMMA OneMoreInTables ==
    ASSUME AuditInv, NEW kind \in RefusalKinds, CountRefusal(kind)
    PROVE  /\ rows' \in [RefusalKinds -> Nat] /\ overflow' \in Nat /\ IsFiniteSet(Units(rows)')
           /\ InTables \in Nat /\ InTables' \in Nat /\ InTables' = InTables + 1
<1>1. Cardinality(Units(rows)) \in Nat /\ overflow \in Nat /\ InTables \in Nat
  BY TablesCounted
<1> QED
  BY <1>1, RefusalCounted DEF InTables

(* The refused submissions are finitely many.                              *)
LEMMA RefusedFinite ==
    IsFiniteSet(Refused) /\ Cardinality(Refused) \in Nat
<1>1. Refused \subseteq Submissions
  BY Zenon DEF Refused
<1> QED
  BY <1>1, ExecutorAssumption, FS_Subset, FS_CardinalityType, Zenon

(* A step of the writer that takes from one place what it puts in another, *)
(* or counts what it doubles, keeps the account.                           *)
LEMMA Balances ==
    ASSUME AuditInv, AuditTyped', NEW p \in Writers, UNCHANGED executorVars,
           \A q \in Writers \ {p} : Held(q)' = Held(q),
           IsFiniteSet(Units(rows)'), InTables' \in Nat,
           Held(p)' + InTables' + gap' + doubled = Held(p) + InTables + gap + doubled'
    PROVE  AuditInv'
<1>1. Refused' = Refused /\ (\A s \in Submissions : NotYetTold(s)')
  BY Zenon DEF executorVars, AuditInv, NotYetTold, Refused
<1>2. /\ IsFiniteSet(Units(InMemory)')
      /\ Cardinality(Units(InMemory)) \in Nat /\ Cardinality(Units(InMemory)') \in Nat
      /\ Cardinality(Units(InMemory)') + Held(p) = Cardinality(Units(InMemory)) + Held(p)'
  BY MemoryMoves, Zenon
<1>3. Cardinality(Refused) \in Nat
  BY RefusedFinite
<1>4. /\ Held(p) \in Nat /\ gap \in Nat /\ gap' \in Nat /\ doubled \in Nat /\ doubled' \in Nat
      /\ overflow \in Nat /\ overflow' \in Nat
  BY HeldIsNat, Zenon DEF AuditInv, AuditTyped
<1>5. Held(p)' \in Nat
  BY HeldIsNatNext
<1>6. Cardinality(Units(rows)) \in Nat /\ Cardinality(Units(rows)') \in Nat
  BY FS_CardinalityType, Zenon DEF AuditInv
<1>7. /\ InTables = Cardinality(Units(rows)) + overflow /\ InTables \in Nat
      /\ InTables' = Cardinality(Units(rows)') + overflow' /\ InTables' \in Nat
  BY <1>4, <1>6 DEF InTables
<1>8. Cardinality(Units(InMemory)) + InTables + gap = Cardinality(Refused) + doubled
  <2>1. Cardinality(Units(InMemory)) + Cardinality(Units(rows)) + overflow + gap
          = Cardinality(Refused) + doubled
    BY Zenon DEF AuditInv, RefusalsAccounted
  <2> QED
    BY <1>2, <1>4, <1>6, <1>7, <2>1
<1>9. Cardinality(Units(InMemory)') + InTables' + gap' = Cardinality(Refused) + doubled'
  <2> DEFINE m == Cardinality(Units(InMemory))
             m1 == Cardinality(Units(InMemory)')
             h == Held(p)
             h1 == Held(p)'
             t == InTables
             t1 == InTables'
             g == gap
             g1 == gap'
             d == doubled
             d1 == doubled'
             r == Cardinality(Refused)
  <2>1. /\ m \in Nat /\ m1 \in Nat /\ h \in Nat /\ h1 \in Nat /\ t \in Nat /\ t1 \in Nat
        /\ g \in Nat /\ g1 \in Nat /\ d \in Nat /\ d1 \in Nat /\ r \in Nat
        /\ m1 + h = m + h1 /\ m + t + g = r + d /\ h1 + t1 + g1 + d = h + t + g + d1
    BY <1>2, <1>3, <1>4, <1>5, <1>7, <1>8, Zenon
  <2> HIDE DEF m, m1, h, h1, t, t1, g, g1, d, d1, r
  <2>2. m1 + t1 + g1 = r + d1
    BY <2>1
  <2> QED
    BY <2>2, Zenon DEF m1, t1, g1, r, d1
<1>10. RefusalsAccounted'
  <2>1. Cardinality(Units(InMemory)') + Cardinality(Units(rows)') + overflow' + gap'
          = Cardinality(Refused) + doubled'
    BY <1>2, <1>4, <1>6, <1>7, <1>9
  <2> QED
    BY <1>1, <2>1, Zenon DEF RefusalsAccounted
<1> QED
  BY <1>1, <1>2, <1>10, Zenon DEF AuditInv

(* The envelope in the writer's hands, if there is one, is of a kind of    *)
(* refusal, and no losses are being flushed meanwhile.                     *)
LEMMA HandValues ==
    ASSUME AuditTyped, NEW p \in Writers
    PROVE  /\ Empty \in Hands
           /\ hand[p] \in Hands
           /\ hand[p] # Empty => /\ hand[p].kind \in RefusalKinds /\ Working(p) = 1
                                /\ swapped[p] = 0
           /\ hand[p] = Empty => Working(p) = 0
           /\ hand[p].attempt = 1 => hand[p] # Empty
BY DEF AuditTyped, InHand, Hands, Empty, Working

(* From the queue into the writer's hands (writer_loop).                   *)
LEMMA ReceiveBalances ==
    ASSUME AuditInv, NEW p \in Writers, Receive(p), UNCHANGED executorVars
    PROVE  AuditInv'
<1>0. AuditTyped
  BY DEF AuditInv
<1> DEFINE h == [kind |-> Head(queue[p]), attempt |-> 1]
<1>1. /\ hand[p] = Empty /\ swapped[p] = 0 /\ queue[p] # <<>>
      /\ hand' = [hand EXCEPT ![p] = h] /\ queue' = [queue EXCEPT ![p] = Tail(queue[p])]
      /\ UNCHANGED <<pending, swapped, rows, overflow, gap, doubled>>
  BY Zenon DEF Receive, Idle
<1>2. /\ queue[p] \in Seq(RefusalKinds) /\ Tail(queue[p]) \in Seq(RefusalKinds)
      /\ Head(queue[p]) \in RefusalKinds /\ Len(Tail(queue[p])) = Len(queue[p]) - 1
      /\ Len(queue[p]) \in Nat
  BY <1>0, <1>1 DEF AuditTyped
<1>3. h \in Hands /\ h.attempt > 0 /\ h.kind \in RefusalKinds /\ h # Empty
  BY <1>2 DEF Hands, Empty
<1> HIDE DEF h
<1>4. /\ hand'[p] = h /\ queue'[p] = Tail(queue[p])
      /\ \A q \in Writers \ {p} : hand'[q] = hand[q] /\ queue'[q] = queue[q]
  BY <1>0, <1>1, Zenon DEF AuditTyped
<1>5. AuditTyped'
  <2>1. hand' \in [Writers -> Hands] /\ queue' \in [Writers -> Seq(RefusalKinds)]
    BY <1>0, <1>1, <1>2, <1>3, Zenon DEF AuditTyped
  <2>2. \A q \in Writers : InHand(q)'
    BY <1>0, <1>1, <1>3, <1>4, Zenon DEF AuditTyped, InHand
  <2> QED
    BY <1>0, <1>1, <2>1, <2>2, Zenon DEF AuditTyped
<1>6. \A q \in Writers \ {p} : Held(q)' = Held(q)
  BY <1>1, <1>4, Zenon DEF Held, Working
<1>7. Held(p)' = Held(p)
  <2>1. Working(p) = 0 /\ Working(p)' = 1
    BY <1>1, <1>3, <1>4, Zenon DEF Working
  <2>2. pending[p] \in Nat /\ swapped[p] \in Nat
    BY <1>0 DEF AuditTyped
  <2> DEFINE n == Len(queue[p])
  <2>3. Held(p) = n + 0 + pending[p] + swapped[p] /\ n \in Nat
    BY <1>2, <2>1, Zenon DEF Held
  <2>4. Held(p)' = n - 1 + 1 + pending[p] + swapped[p]
    BY <1>1, <1>2, <1>4, <2>1, Zenon DEF Held
  <2> HIDE DEF n
  <2> QED
    BY <2>2, <2>3, <2>4
<1>8. IsFiniteSet(Units(rows)') /\ InTables' = InTables /\ InTables \in Nat
  BY <1>1, TablesSame, Zenon
<1> QED
  BY <1>1, <1>5, <1>6, <1>7, <1>8, Balances, Zenon

(* From the writer's hands to the pending losses (record_loss); if the     *)
(* commit happened nevertheless, that refusal is counted as doubled.       *)
LEMMA LossBalances ==
    ASSUME AuditInv, NEW p \in Writers, UNCHANGED executorVars,
           hand[p] # Empty, hand' = [hand EXCEPT ![p] = Empty], LossRecorded(p),
           UNCHANGED <<queue, swapped, gap>>,
           IsFiniteSet(Units(rows)'), InTables' \in Nat,
           rows' \in [RefusalKinds -> Nat], overflow' \in Nat, doubled' \in Nat,
           InTables' + doubled = InTables + doubled'
    PROVE  AuditInv'
<1>0. AuditTyped
  BY Zenon DEF AuditInv
<1>1. /\ pending[p] \in Nat /\ Len(queue[p]) \in Nat /\ swapped[p] \in Nat
      /\ Empty \in Hands /\ Working(p) = 1
  BY <1>0, HeldIsNat, HandValues, Zenon
<1>2. /\ hand'[p] = Empty /\ pending'[p] = pending[p] + 1
      /\ \A q \in Writers \ {p} : hand'[q] = hand[q] /\ pending'[q] = pending[q]
      /\ hand' \in [Writers -> Hands] /\ pending' \in [Writers -> Nat]
  BY <1>0, <1>1, SMTT(60) DEF AuditTyped, LossRecorded
<1>3. AuditTyped'
  <2>1. \A q \in Writers : InHand(q)'
    BY <1>0, <1>2, Zenon DEF AuditTyped, InHand
  <2> QED
    BY <1>0, <1>2, <2>1, Zenon DEF AuditTyped
<1>4. \A q \in Writers \ {p} : Held(q)' = Held(q)
  BY <1>2, Zenon DEF Held, Working
<1>5. Held(p)' = Held(p)
  <2>1. Working(p)' = 0
    BY <1>2, Zenon DEF Working
  <2> DEFINE n == Len(queue[p])
  <2>2. Held(p) = n + 1 + pending[p] + swapped[p] /\ n \in Nat
    BY <1>1, Zenon DEF Held
  <2>3. Held(p)' = n + 0 + (pending[p] + 1) + swapped[p]
    BY <1>2, <2>1, Zenon DEF Held
  <2>4. pending[p] \in Nat /\ swapped[p] \in Nat
    BY <1>1, Zenon
  <2> HIDE DEF n
  <2> QED
    BY <2>2, <2>3, <2>4, SMTT(60)
<1>6. Held(p)' + InTables' + gap' + doubled = Held(p) + InTables + gap + doubled'
  <2>1. Held(p) \in Nat /\ gap \in Nat /\ doubled \in Nat
    BY <1>0, HeldIsNat, Zenon DEF AuditTyped
  <2>2. InTables \in Nat
    BY TablesCounted, Zenon
  <2> DEFINE h == Held(p)
             t == InTables
             t1 == InTables'
             d == doubled
             d1 == doubled'
  <2>3. /\ h \in Nat /\ gap \in Nat /\ t \in Nat /\ t1 \in Nat /\ d \in Nat /\ d1 \in Nat
        /\ t1 + d = t + d1
    BY <2>1, <2>2, Zenon
  <2> HIDE DEF h, t, t1, d, d1
  <2>4. h + t1 + gap + d = h + t + gap + d1
    BY <2>3
  <2> QED
    BY <1>5, <2>4, Zenon DEF h, t, t1, d, d1
<1> QED
  BY <1>3, <1>4, <1>6, Balances, Zenon

(* A failed attempt that will be repeated moves nothing                    *)
(* (deliver_with_retries).                                                 *)
LEMMA RetryBalances ==
    ASSUME AuditInv, NEW p \in Writers, UNCHANGED executorVars,
           hand[p] # Empty, hand' = [hand EXCEPT ![p].attempt = @ + 1],
           UNCHANGED <<queue, pending, swapped, rows, overflow, gap, doubled>>
    PROVE  AuditInv'
<1>0. AuditTyped
  BY DEF AuditInv
<1> DEFINE n == hand[p].attempt + 1
           h == [hand[p] EXCEPT !.attempt = n]
<1>1. /\ n \in Nat /\ n > 0 /\ hand[p] \in Hands /\ hand[p].kind \in RefusalKinds
      /\ swapped[p] = 0
  BY <1>0, HandValues DEF Hands
<1>2. hand' = [hand EXCEPT ![p] = h]
  OBVIOUS
<1> HIDE DEF n
<1>3. h \in Hands /\ h.attempt > 0 /\ h.kind \in RefusalKinds /\ h # Empty
  BY <1>1 DEF Hands, Empty
<1> HIDE DEF h
<1>4. /\ hand'[p] = h /\ hand' \in [Writers -> Hands]
      /\ \A q \in Writers \ {p} : hand'[q] = hand[q]
  BY <1>0, <1>2, <1>3, Zenon DEF AuditTyped
<1>5. AuditTyped'
  <2>1. \A q \in Writers : InHand(q)'
    BY <1>0, <1>1, <1>3, <1>4, Zenon DEF AuditTyped, InHand
  <2> QED
    BY <1>0, <1>4, <2>1, Zenon DEF AuditTyped
<1>6. \A q \in Writers : Held(q)' = Held(q)
  <2>1. \A q \in Writers : Working(q)' = Working(q)
    BY <1>3, <1>4 DEF Working
  <2> QED
    BY <2>1 DEF Held
<1>7. IsFiniteSet(Units(rows)') /\ InTables' = InTables /\ InTables \in Nat
  BY TablesSame
<1> QED
  BY <1>5, <1>6, <1>7, Balances

(* From the writer's hands to the tables; the pending losses are taken to  *)
(* be flushed, where nothing was being flushed yet.                        *)
LEMMA DeliveredBalances ==
    ASSUME AuditInv, NEW p \in Writers, UNCHANGED executorVars, Delivered(p)
    PROVE  AuditInv'
<1>0. AuditTyped
  BY DEF AuditInv
<1>1. /\ hand[p] # Empty /\ CountRefusal(hand[p].kind) /\ hand' = [hand EXCEPT ![p] = Empty]
      /\ swapped' = [swapped EXCEPT ![p] = pending[p]]
      /\ pending' = [pending EXCEPT ![p] = 0] /\ UNCHANGED <<queue, gap, doubled>>
  BY Zenon DEF Delivered
<1>2. /\ pending[p] \in Nat /\ Len(queue[p]) \in Nat /\ swapped[p] \in Nat
      /\ Empty \in Hands /\ Working(p) = 1 /\ hand[p].kind \in RefusalKinds /\ swapped[p] = 0
  BY <1>0, <1>1, HeldIsNat, HandValues, Zenon
<1>3. /\ hand'[p] = Empty /\ pending'[p] = 0 /\ swapped'[p] = pending[p]
      /\ \A q \in Writers \ {p} :
            hand'[q] = hand[q] /\ pending'[q] = pending[q] /\ swapped'[q] = swapped[q]
      /\ hand' \in [Writers -> Hands] /\ pending' \in [Writers -> Nat]
      /\ swapped' \in [Writers -> Nat]
  BY <1>0, <1>1, <1>2, Zenon DEF AuditTyped
<1>4. /\ rows' \in [RefusalKinds -> Nat] /\ overflow' \in Nat /\ IsFiniteSet(Units(rows)')
      /\ InTables \in Nat /\ InTables' \in Nat /\ InTables' = InTables + 1
  BY <1>1, <1>2, OneMoreInTables, Zenon
<1>5. AuditTyped'
  <2>1. \A q \in Writers : InHand(q)'
    BY <1>0, <1>3, Zenon DEF AuditTyped, InHand
  <2> QED
    BY <1>0, <1>1, <1>3, <1>4, <2>1, Zenon DEF AuditTyped
<1>6. \A q \in Writers \ {p} : Held(q)' = Held(q)
  BY <1>1, <1>3, Zenon DEF Held, Working
<1>7. Held(p)' + 1 = Held(p) /\ Held(p) \in Nat /\ Held(p)' \in Nat
  <2>1. Working(p)' = 0
    BY <1>3, Zenon DEF Working
  <2> DEFINE n == Len(queue[p])
  <2>2. Held(p) = n + 1 + pending[p] + 0 /\ n \in Nat
    BY <1>2, Zenon DEF Held
  <2>3. Held(p)' = n + 0 + 0 + pending[p]
    BY <1>1, <1>3, <2>1, Zenon DEF Held
  <2> HIDE DEF n
  <2> QED
    BY <1>2, <2>2, <2>3, SMTT(60)
<1>8. Held(p)' + InTables' + gap' + doubled = Held(p) + InTables + gap + doubled'
  <2>1. gap' = gap /\ doubled' = doubled /\ gap \in Nat /\ doubled \in Nat
    BY <1>0, <1>1, Zenon DEF AuditTyped
  <2> QED
    BY <1>4, <1>7, <2>1
<1> QED
  BY <1>4, <1>5, <1>6, <1>8, Balances, Zenon

(* The losses taken go to the gap, back to the pending ones, or to both,   *)
(* which is counted as doubled (flush_loss_gap).                           *)
LEMMA FlushBalances ==
    ASSUME AuditInv, NEW p \in Writers, UNCHANGED executorVars,
           swapped[p] > 0, swapped' = [swapped EXCEPT ![p] = 0],
           UNCHANGED <<queue, hand, rows, overflow>>,
           NEW back \in Nat, pending' = [pending EXCEPT ![p] = @ + back],
           gap' \in Nat, doubled' \in Nat,
           back + gap' + doubled = swapped[p] + gap + doubled'
    PROVE  AuditInv'
<1>0. AuditTyped
  BY Zenon DEF AuditInv
<1>1. /\ pending[p] \in Nat /\ Len(queue[p]) \in Nat /\ swapped[p] \in Nat
      /\ gap \in Nat /\ doubled \in Nat /\ Working(p) \in Nat
  BY <1>0, HeldIsNat, Zenon DEF AuditTyped, Working
<1>2. /\ pending'[p] = pending[p] + back /\ swapped'[p] = 0
      /\ \A q \in Writers \ {p} : pending'[q] = pending[q] /\ swapped'[q] = swapped[q]
      /\ pending' \in [Writers -> Nat] /\ swapped' \in [Writers -> Nat]
  <2>1. pending \in [Writers -> Nat] /\ swapped \in [Writers -> Nat]
    BY <1>0, Zenon DEF AuditTyped
  <2> QED
    BY <1>1, <2>1, SMTT(60)
<1>3. IsFiniteSet(Units(rows)') /\ InTables' = InTables /\ InTables \in Nat
  BY TablesSame, Zenon
<1>4. AuditTyped'
  <2>1. \A q \in Writers : InHand(q)'
    BY <1>0, <1>2, Zenon DEF AuditTyped, InHand
  <2> QED
    BY <1>0, <1>2, <2>1, Zenon DEF AuditTyped
<1>5. \A q \in Writers : Working(q)' = Working(q)
  BY Zenon DEF Working
<1>6. \A q \in Writers \ {p} : Held(q)' = Held(q)
  BY <1>2, <1>5, Zenon DEF Held
<1>7. Held(p)' + InTables' + gap' + doubled = Held(p) + InTables + gap + doubled'
  <2> DEFINE n == Len(queue[p])
             w == Working(p)
             t == InTables
             d == doubled
             d1 == doubled'
             g1 == gap'
             b == pending[p]
             x == swapped[p]
  <2>1. /\ n \in Nat /\ w \in Nat /\ t \in Nat /\ d \in Nat /\ d1 \in Nat /\ g1 \in Nat
        /\ b \in Nat /\ x \in Nat /\ gap \in Nat /\ back + g1 + d = x + gap + d1
    BY <1>1, <1>3, Zenon
  <2>2. Held(p) = n + w + b + x /\ Held(p)' = n + w + (b + back) + 0
    BY <1>2, <1>5, Zenon DEF Held
  <2> HIDE DEF n, w, t, d, d1, g1, b, x
  <2>3. n + w + (b + back) + 0 + t + g1 + d = n + w + b + x + t + gap + d1
    BY <2>1
  <2>4. Held(p)' + t + g1 + d = Held(p) + t + gap + d1
    BY <2>2, <2>3, Zenon
  <2> QED
    BY <1>3, <2>4, Zenon DEF t, d, d1, g1
<1> QED
  BY <1>3, <1>4, <1>6, <1>7, Balances, Zenon

(* A step that changes neither what is held nor who was told anything.     *)
LEMMA QuietAudit ==
    ASSUME AuditInv, UNCHANGED <<queue, hand, pending, swapped, rows, overflow, gap, doubled>>,
           UNCHANGED executorVars
    PROVE  AuditInv'
<1>1. AuditTyped' /\ InMemory' = InMemory
  BY Zenon DEF AuditInv, AuditTyped, InHand, InMemory, Held, Working
<1>2. Units(InMemory)' = Units(InMemory) /\ Units(rows)' = Units(rows)
  BY <1>1, Zenon DEF Units
<1>3. Refused' = Refused /\ \A s \in Submissions : NotYetTold(s)'
  BY Zenon DEF Refused, executorVars, NotYetTold, AuditInv
<1> QED
  BY <1>1, <1>2, <1>3, Zenon DEF AuditInv, RefusalsAccounted

(* One case per step of the writer task.                                   *)
LEMMA WriterBalances ==
    ASSUME AuditInv, NEW p \in Writers, Writes(p) \/ Probes(p)
    PROVE  AuditInv'
<1>0. /\ AuditTyped /\ UNCHANGED executorVars
      /\ pending[p] \in Nat /\ swapped[p] \in Nat /\ gap \in Nat /\ doubled \in Nat
      /\ rows \in [RefusalKinds -> Nat] /\ overflow \in Nat
  BY Zenon DEF Writes, Probes, AuditInv, AuditTyped
<1>1. CASE Receive(p)
  BY <1>0, <1>1, ReceiveBalances, Zenon
<1>2. CASE Delivered(p)
  BY <1>0, <1>2, DeliveredBalances, Zenon
<1>3. CASE GapFlushed(p)
  <2> DEFINE back == 0
             g1 == gap + swapped[p]
  <2>1. /\ swapped[p] > 0 /\ swapped' = [swapped EXCEPT ![p] = 0] /\ gap' = g1
        /\ UNCHANGED <<queue, hand, pending, rows, overflow, doubled>>
    BY <1>3, Zenon DEF GapFlushed
  <2>2. pending' = [pending EXCEPT ![p] = @ + back]
    BY <1>0, <2>1 DEF AuditTyped
  <2>3. g1 \in Nat /\ back \in Nat /\ back + g1 + doubled = swapped[p] + gap + doubled
    BY <1>0
  <2> HIDE DEF back, g1
  <2> QED
    BY <1>0, <2>1, <2>2, <2>3, FlushBalances, Zenon
<1>4. ASSUME NEW b \in BOOLEAN, WriterPanics(p, b) PROVE AuditInv'
  <2>1. /\ hand[p].attempt = 1 /\ hand' = [hand EXCEPT ![p] = Empty] /\ LossRecorded(p)
        /\ UNCHANGED <<queue, swapped, rows, overflow, gap, doubled>>
    BY <1>4, Zenon DEF WriterPanics
  <2>2. hand[p] # Empty
    BY <1>0, <2>1, HandValues, Zenon
  <2>3. IsFiniteSet(Units(rows)') /\ InTables' = InTables /\ InTables \in Nat
    BY <2>1, TablesSame, Zenon
  <2> QED
    BY <1>0, <2>1, <2>2, <2>3, LossBalances, Zenon
<1>5. ASSUME NEW b \in BOOLEAN, AmbiguousCommit(p, b) PROVE AuditInv'
  <2>1. /\ hand[p] # Empty /\ hand' = [hand EXCEPT ![p] = Empty] /\ LossRecorded(p)
        /\ UNCHANGED <<queue, swapped, gap>>
    BY <1>5, Zenon DEF AmbiguousCommit
  <2>2. CASE b
    <3>1. CountRefusal(hand[p].kind) /\ doubled' = doubled + 1 /\ hand[p].kind \in RefusalKinds
      BY <1>0, <1>5, <2>1, <2>2, HandValues, Zenon DEF AmbiguousCommit
    <3>2. /\ rows' \in [RefusalKinds -> Nat] /\ overflow' \in Nat /\ IsFiniteSet(Units(rows)')
          /\ InTables \in Nat /\ InTables' \in Nat /\ InTables' = InTables + 1
      BY <3>1, OneMoreInTables, Zenon
    <3>3. doubled' \in Nat /\ InTables' + doubled = InTables + doubled'
      BY <1>0, <3>1, <3>2, SMTT(60)
    <3> QED
      BY <1>0, <2>1, <3>2, <3>3, LossBalances, Zenon
  <2>3. CASE ~b
    <3>1. UNCHANGED <<rows, overflow, doubled>>
      BY <1>5, <2>3, Zenon DEF AmbiguousCommit
    <3>2. IsFiniteSet(Units(rows)') /\ InTables' = InTables /\ InTables \in Nat
      BY <3>1, TablesSame, Zenon
    <3> QED
      BY <1>0, <2>1, <3>1, <3>2, LossBalances, Zenon
  <2> QED
    BY <2>2, <2>3, Zenon
<1>6. ASSUME NEW b \in BOOLEAN, AttemptFails(p, b) PROVE AuditInv'
  <2>1. hand[p] # Empty /\ UNCHANGED <<queue, swapped, rows, overflow, gap, doubled>>
    BY <1>6 DEF AttemptFails
  <2>2. CASE hand[p].attempt < DeliveryAttempts
    BY <1>0, <1>6, <2>1, <2>2, RetryBalances DEF AttemptFails
  <2>3. CASE ~(hand[p].attempt < DeliveryAttempts)
    <3>1. hand' = [hand EXCEPT ![p] = Empty] /\ LossRecorded(p)
      BY <1>6, <2>3 DEF AttemptFails
    <3>2. IsFiniteSet(Units(rows)') /\ InTables' = InTables /\ InTables \in Nat
      BY <2>1, TablesSame, Zenon
    <3> QED
      BY <1>0, <2>1, <3>1, <3>2, LossBalances, Zenon
  <2> QED
    BY <2>2, <2>3, Zenon
<1>7. ASSUME NEW b \in BOOLEAN, GapPutBack(p, b) PROVE AuditInv'
  <2> DEFINE back == swapped[p]
             g1 == gap + back
             d1 == doubled + back
  <2>1. /\ swapped[p] > 0 /\ swapped' = [swapped EXCEPT ![p] = 0]
        /\ pending' = [pending EXCEPT ![p] = @ + back]
        /\ UNCHANGED <<queue, hand, rows, overflow>>
        /\ \/ gap' = g1 /\ doubled' = d1
           \/ gap' = gap /\ doubled' = doubled
    BY <1>7, Zenon DEF GapPutBack
  <2>2. back \in Nat /\ back = swapped[p] /\ gap \in Nat /\ doubled \in Nat
    BY <1>0, Zenon
  <2> HIDE DEF back
  <2>3. gap' \in Nat /\ doubled' \in Nat /\ back + gap' + doubled = swapped[p] + gap + doubled'
    <3>1. back + gap' + doubled = back + gap + doubled' /\ gap' \in Nat /\ doubled' \in Nat
      BY <2>1, <2>2
    <3> QED
      BY <2>2, <3>1, Zenon
  <2> QED
    BY <1>0, <2>1, <2>2, <2>3, FlushBalances, Zenon
<1>8. ASSUME NEW ok \in BOOLEAN, Probe(p, ok) PROVE AuditInv'
  BY <1>0, <1>8, QuietAudit, Zenon DEF Probe
<1> QED
  BY <1>1, <1>2, <1>3, <1>4, <1>5, <1>6, <1>7, <1>8, Zenon DEF Writes, Probes

(* A submission that moves on without a refusal leaves the account alone.  *)
LEMMA UntoldAudit ==
    ASSUME AuditInv, UNCHANGED auditVars, Refused' = Refused,
           \A s \in Submissions : NotYetTold(s)'
    PROVE  AuditInv'
<1>1. AuditTyped' /\ InMemory' = InMemory
  BY Zenon DEF AuditInv, AuditTyped, InHand, InMemory, Held, Working, auditVars
<1>2. Units(InMemory)' = Units(InMemory) /\ Units(rows)' = Units(rows)
  BY <1>1, Zenon DEF Units, auditVars
<1> QED
  BY <1>1, <1>2, Zenon DEF AuditInv, RefusalsAccounted, auditVars

(* A refusal is told once, and queued or counted as lost at the same time  *)
(* (try_send).                                                             *)
LEMMA SentBalances ==
    ASSUME AuditInv, NEW p \in Writers, NEW kind \in RefusalKinds, TrySend(p, kind),
           NEW s \in Submissions, Refused' = Refused \union {s}, s \notin Refused,
           \A t \in Submissions : NotYetTold(t)'
    PROVE  AuditInv'
<1>0. AuditTyped
  BY Zenon DEF AuditInv
<1>1. /\ queue[p] \in Seq(RefusalKinds) /\ Len(queue[p]) \in Nat /\ pending[p] \in Nat
      /\ swapped[p] \in Nat /\ Working(p) \in Nat
  BY <1>0, HeldIsNat, Zenon DEF AuditTyped, Working
<1>2. UNCHANGED <<hand, swapped, rows, overflow, gap, doubled>>
  BY Zenon DEF TrySend
<1>3. /\ AuditTyped' /\ Held(p)' = Held(p) + 1
      /\ \A q \in Writers \ {p} : Held(q)' = Held(q)
  <2>0. \A q \in Writers : Working(q)' = Working(q)
    BY <1>2, Zenon DEF Working
  <2>1. CASE queue' = [queue EXCEPT ![p] = Append(@, kind)] /\ UNCHANGED pending
    <3>1. /\ Append(queue[p], kind) \in Seq(RefusalKinds)
          /\ Len(Append(queue[p], kind)) = Len(queue[p]) + 1
      BY <1>1
    <3>2. /\ queue' \in [Writers -> Seq(RefusalKinds)] /\ queue'[p] = Append(queue[p], kind)
          /\ \A q \in Writers \ {p} : queue'[q] = queue[q]
      BY <1>0, <2>1, <3>1, Zenon DEF AuditTyped
    <3>3. AuditTyped'
      BY <1>0, <1>2, <2>1, <3>2, Zenon DEF AuditTyped, InHand
    <3>4. \A q \in Writers \ {p} : Held(q)' = Held(q)
      BY <1>2, <2>0, <2>1, <3>2, Zenon DEF Held
    <3>5. Held(p)' = Held(p) + 1
      <4> DEFINE n == Len(queue[p])
                 w == Working(p)
                 l == pending[p]
                 x == swapped[p]
      <4>1. n \in Nat /\ w \in Nat /\ Held(p) = n + w + l + x
        BY <1>1, Zenon DEF Held
      <4>2. Held(p)' = n + 1 + w + l + x
        BY <1>2, <2>0, <2>1, <3>1, <3>2, Zenon DEF Held
      <4>3. l \in Nat /\ x \in Nat
        BY <1>1, Zenon
      <4> HIDE DEF n, w, l, x
      <4> QED
        BY <4>1, <4>2, <4>3
    <3> QED
      BY <3>3, <3>4, <3>5, Zenon
  <2>2. CASE LossRecorded(p) /\ UNCHANGED queue
    <3>1. /\ pending' \in [Writers -> Nat] /\ pending'[p] = pending[p] + 1
          /\ \A q \in Writers \ {p} : pending'[q] = pending[q]
      BY <1>0, <2>2 DEF AuditTyped, LossRecorded
    <3>2. AuditTyped'
      BY <1>0, <1>2, <2>2, <3>1, Zenon DEF AuditTyped, InHand
    <3>3. \A q \in Writers \ {p} : Held(q)' = Held(q)
      BY <1>2, <2>0, <2>2, <3>1, Zenon DEF Held
    <3>4. Held(p)' = Held(p) + 1
      <4> DEFINE n == Len(queue[p])
                 w == Working(p)
                 l == pending[p]
                 x == swapped[p]
      <4>1. n \in Nat /\ w \in Nat /\ Held(p) = n + w + l + x
        BY <1>1, Zenon DEF Held
      <4>2. Held(p)' = n + w + (l + 1) + x
        BY <1>2, <2>0, <2>2, <3>1, Zenon DEF Held
      <4>3. l \in Nat /\ x \in Nat
        BY <1>1, Zenon
      <4> HIDE DEF n, w, l, x
      <4> QED
        BY <4>1, <4>2, <4>3
    <3> QED
      BY <3>2, <3>3, <3>4, Zenon
  <2> QED
    BY <2>1, <2>2, Zenon DEF TrySend
<1>4. /\ IsFiniteSet(Units(InMemory)')
      /\ Cardinality(Units(InMemory)) \in Nat /\ Cardinality(Units(InMemory)') \in Nat
      /\ Cardinality(Units(InMemory)') + Held(p) = Cardinality(Units(InMemory)) + Held(p)'
  BY <1>3, MemoryMoves, Zenon
<1>5. Cardinality(Units(InMemory)') = Cardinality(Units(InMemory)) + 1
  <2>1. Held(p) \in Nat
    BY <1>0, HeldIsNat, Zenon
  <2> QED
    BY <1>3, <1>4, <2>1
<1>6. Units(rows)' = Units(rows)
  BY <1>2, Zenon DEF Units
<1>7. Cardinality(Refused') = Cardinality(Refused) + 1 /\ Cardinality(Refused) \in Nat
  BY RefusedFinite, FS_AddElement, Zenon
<1>8. RefusalsAccounted'
  <2> DEFINE m == Cardinality(Units(InMemory))
             r == Cardinality(Refused)
             o == Cardinality(Units(rows))
  <2>1. m + o + overflow + gap = r + doubled
    BY Zenon DEF AuditInv, RefusalsAccounted
  <2>2. m \in Nat /\ r \in Nat /\ o \in Nat /\ overflow \in Nat /\ gap \in Nat /\ doubled \in Nat
    BY <1>0, <1>4, <1>7, TablesCounted, Zenon DEF AuditTyped
  <2> HIDE DEF m, r, o
  <2>3. m + 1 + o + overflow + gap = r + 1 + doubled
    BY <2>1, <2>2
  <2> QED
    BY <1>2, <1>5, <1>6, <1>7, <2>3, Zenon DEF RefusalsAccounted, m, r, o
<1> QED
  BY <1>3, <1>4, <1>6, <1>8, Zenon DEF AuditInv

(* A submission ends once, so its refusal is new to the account            *)
(* (enqueue_refusal).                                                      *)
LEMMA EndBalances ==
    ASSUME ResultInv, AuditInv, NEW s \in Submissions, NEW reply \in Replies,
           Ends(s, reply), Audited(s, reply), at[s] \notin {"leaving", "done"}
    PROVE  AuditInv'
<1>1. /\ answer'[s] = reply /\ at'[s] \in {"leaving", "done"}
      /\ \A t \in Submissions \ {s} : answer'[t] = answer[t] /\ at'[t] = at[t]
  BY Zenon DEF Ends, ResultInv, Columns
<1>2. \A t \in Submissions : NotYetTold(t)'
  BY <1>1, Zenon DEF AuditInv, NotYetTold
<1>3. s \notin Refused
  BY Zenon DEF AuditInv, NotYetTold, Refused, Refusals
<1>4. CASE reply \in Refusals /\ ProcessOf[s] \in Writers
  <2>1. Refused' = Refused \union {s}
    BY <1>1, <1>4, Zenon DEF Refused
  <2>2. reply \in RefusalKinds /\ TrySend(ProcessOf[s], reply)
    BY <1>4, CommandsAssumption, Zenon DEF Audited
  <2> QED
    BY <1>2, <1>3, <1>4, <2>1, <2>2, SentBalances, Zenon
<1>5. CASE ~(reply \in Refusals /\ ProcessOf[s] \in Writers)
  <2>1. Refused' = Refused
    BY <1>1, <1>3, <1>5, Zenon DEF Refused
  <2>2. UNCHANGED auditVars
    BY <1>5, Zenon DEF Audited
  <2> QED
    BY <1>2, <2>1, <2>2, UntoldAudit, Zenon
<1> QED
  BY <1>4, <1>5, Zenon

(* A submission that goes on, or leaves its flight, tells its client       *)
(* nothing.                                                                *)
LEMMA MoveBalances ==
    ASSUME ResultInv, AuditInv, NEW s \in Submissions, NEW place,
           at' = [at EXCEPT ![s] = place], UNCHANGED answer, UNCHANGED auditVars,
           place = "done" \/ at[s] \notin {"leaving", "done"}
    PROVE  AuditInv'
<1>1. at'[s] = place /\ \A t \in Submissions \ {s} : at'[t] = at[t]
  BY Zenon DEF ResultInv, Columns
<1>2. \A t \in Submissions : NotYetTold(t)'
  BY <1>1, Zenon DEF AuditInv, NotYetTold
<1>3. Refused' = Refused
  BY Zenon DEF Refused
<1> QED
  BY <1>2, <1>3, UntoldAudit, Zenon

(* One lemma for all of Next.                                              *)
LEMMA NextBalances ==
    ASSUME ResultInv, AuditInv, [Next]_vars
    PROVE  AuditInv'
<1>1. CASE UNCHANGED vars
  BY <1>1, QuietAudit, Zenon DEF vars, auditVars
<1>2. ASSUME NEW s \in Submissions, Proceeds(s) PROVE AuditInv'
  <2>0. "none" \notin Refusals /\ "refused" \in Replies
    BY DEF Refusals, Replies
  <2>1. ASSUME NEW reply \in Replies, FlightEntered(s, reply), Audited(s, reply) PROVE AuditInv'
    <3>1. CASE stored[KeyOf[s]] # NoHash
      BY <2>1, <3>1, EndBalances, Zenon DEF FlightEntered
    <3>2. CASE stored[KeyOf[s]] = NoHash
      BY <2>0, <2>1, <3>2, MoveBalances, Zenon DEF FlightEntered, Audited
    <3> QED
      BY <3>1, <3>2, Zenon
  <2>2. ASSUME NEW reply \in Replies, BeginTransaction(s, reply), Audited(s, reply) PROVE AuditInv'
    <3>1. CASE stored[KeyOf[s]] # NoHash
      BY <2>2, <3>1, EndBalances, Zenon DEF BeginTransaction
    <3>2. CASE stored[KeyOf[s]] = NoHash
      BY <2>0, <2>2, <3>2, MoveBalances, Zenon DEF BeginTransaction, Audited
    <3> QED
      BY <3>1, <3>2, Zenon
  <2>3. ASSUME NEW reply \in Replies, CommitResult(s, reply), Audited(s, reply) PROVE AuditInv'
    BY <2>3, EndBalances, Zenon DEF CommitResult
  <2>4. CASE RefuseCommand(s) /\ Audited(s, "refused")
    BY <2>0, <2>4, EndBalances, Zenon DEF RefuseCommand
  <2>5. CASE RecordRead(s) /\ UNCHANGED auditVars
    BY <2>5, MoveBalances, Zenon DEF RecordRead
  <2>6. CASE LeaveFlight(s) /\ UNCHANGED auditVars
    BY <2>6, MoveBalances, Zenon DEF LeaveFlight
  <2> QED
    BY <1>2, <2>1, <2>2, <2>3, <2>4, <2>5, <2>6, Zenon DEF Proceeds
<1>3. ASSUME NEW s \in Submissions, Submits(s) PROVE AuditInv'
  <2>0. {"none", "invalid"} \subseteq Replies /\ "none" \notin Refusals
    BY DEF Refusals, Replies
  <2>1. CASE RejectEnvelope(s) /\ Audited(s, "invalid")
    BY <2>0, <2>1, EndBalances, Zenon DEF RejectEnvelope
  <2>2. CASE AwaitFlight(s) /\ UNCHANGED auditVars
    BY <2>2, MoveBalances, Zenon DEF AwaitFlight
  <2>3. CASE NeedsNoRecord(s) /\ UNCHANGED auditVars
    BY <2>3, MoveBalances, Zenon DEF NeedsNoRecord
  <2>4. CASE Abort(s) /\ UNCHANGED auditVars
    BY <2>0, <2>4, EndBalances, Zenon DEF Abort, Audited
  <2> QED
    BY <1>3, <2>1, <2>2, <2>3, <2>4, Zenon DEF Submits
<1> QED
  BY <1>1, <1>2, <1>3, WriterBalances, Zenon DEF Next

(* Nothing was told and nothing is held at the start.                      *)
LEMMA InitBalances ==
    ASSUME Init
    PROVE  AuditInv
<1>1. AuditTyped
  BY SMTT(60) DEF Init, AuditInit, AuditTyped, Hands, InHand, Empty
<1>2. Units(InMemory) = {} /\ Units(rows) = {}
  <2>1. \A p \in Writers : Held(p) = 0
    BY DEF Init, AuditInit, Held, Working
  <2>2. InMemory = [p \in Writers |-> 0]
    BY <2>1 DEF InMemory
  <2> QED
    BY <2>2 DEF Init, AuditInit, Units
<1>3. Refused = {} /\ \A s \in Submissions : NotYetTold(s)
  BY Zenon DEF Init, ExecutorInit, Refused, Refusals, NotYetTold
<1>4. IsFiniteSet(Units(InMemory)) /\ IsFiniteSet(Units(rows)) /\ RefusalsAccounted
  <2>1. IsFiniteSet({}) /\ Cardinality({}) = 0
    BY FS_EmptySet, Zenon
  <2>2. overflow = 0 /\ gap = 0 /\ doubled = 0
    BY Zenon DEF Init, AuditInit
  <2> HIDE DEF Units
  <2> QED
    BY <1>2, <1>3, <2>1, <2>2 DEF RefusalsAccounted
<1> QED
  BY <1>1, <1>3, <1>4, Zenon DEF AuditInv

(* For any number of instances and kinds of refusal, queue capacity,       *)
(* number of attempts and limit of rows, whatever the writer task and the  *)
(* database do: the refusals told are exactly those in memory, in the      *)
(* tables and in the loss gap, less the ones counted twice because a       *)
(* commit that was given up had happened (try_send, deliver_with_retries,  *)
(* flush_loss_gap).                                                        *)
THEOREM NoRefusalMissing == Spec => []RefusalsAccounted
<1>1. Init => ResultInv /\ AuditInv
  BY InitResult, InitBalances
<1>2. ResultInv /\ AuditInv /\ [Next]_vars => (ResultInv /\ AuditInv)'
  BY NextKeeps, NextBalances
<1>3. AuditInv => RefusalsAccounted
  BY Zenon DEF AuditInv
<1> QED
  BY <1>1, <1>2, <1>3, PTL DEF Spec
=============================================================================
