------------------------------- MODULE Executor -------------------------------
(***************************************************************************)
(* Command execution (crates/service/src/executor.rs) with the flights of  *)
(* command_flight.rs: submissions of commands, several of which may carry  *)
(* the same actor and command id, to the same process or to another one.   *)
(*                                                                         *)
(* What a command does is abstract: its handler accepts it, and its effect *)
(* commits with its result, or refuses it and rolls back.                  *)
(***************************************************************************)
EXTENDS Naturals, FiniteSets

CONSTANTS
    Submissions,  \* requests, each carrying one command
    Processes,    \* the instances of the service
    Keys,         \* pairs of actor and command id
    Hashes,       \* request hashes: what a command says
    ProcessOf,    \* ProcessOf[s]: the instance s is sent to
    KeyOf,        \* KeyOf[s]
    HashOf,       \* HashOf[s]
    Registers,    \* hashes of listing.register, which may need a public record
    Sealed,       \* hashes whose stored result is redacted or opened for a replay
    NoOne, NoHash

ASSUME ExecutorAssumption ==
    /\ ProcessOf \in [Submissions -> Processes]
    /\ KeyOf \in [Submissions -> Keys]
    /\ HashOf \in [Submissions -> Hashes]
    /\ Registers \subseteq Hashes /\ Sealed \subseteq Hashes
    /\ NoOne \notin Submissions /\ NoHash \notin Hashes
    /\ IsFiniteSet(Submissions)

VARIABLES
    at,         \* at[s]: how far the submission is
    answer,     \* answer[s]: what its client was told
    slots,      \* slots[p][k]: the flight of a key, [lock, entrants]; lock 0 is none
    ticket,     \* ticket[s]: the lock s entered by, 0 outside any flight
    holding,    \* submissions that hold the lock they entered by
    xlock,      \* xlock[k]: whose transaction holds the advisory lock
    stored,     \* stored[k]: the hash in command_results
    applied     \* applied[k]: how often an effect of the command committed

executorVars == <<at, answer, slots, ticket, holding, xlock, stored, applied>>

Refusals == {"invalid", "refused", "conflict", "unreadable"}
NoSlot == [lock |-> 0, entrants |-> 0]

ExecutorInit ==
    /\ at = [s \in Submissions |-> "new"]
    /\ answer = [s \in Submissions |-> "none"]
    /\ slots = [p \in Processes |-> [k \in Keys |-> NoSlot]]
    /\ ticket = [s \in Submissions |-> 0]
    /\ holding = {}
    /\ xlock = [k \in Keys |-> NoOne]
    /\ stored = [k \in Keys |-> NoHash]
    /\ applied = [k \in Keys |-> 0]

-----------------------------------------------------------------------------
(* Flights: CommandFlights.                                                *)

Slot(s) == slots[ProcessOf[s]][KeyOf[s]]
WithSlot(s, slot) == slots' = [slots EXCEPT ![ProcessOf[s]][KeyOf[s]] = slot]

Twins(s) == {t \in Submissions : ProcessOf[t] = ProcessOf[s] /\ KeyOf[t] = KeyOf[s]}

(* A new lock differs from every lock somebody still refers to.            *)
FreshLock(s) ==
    CHOOSE n \in 1 .. Cardinality(Submissions) : \A t \in Twins(s) : ticket[t] # n

(* enter, up to its wait: the slot counts who holds or waits for its lock. *)
EnterFlight(s) ==
    LET slot == IF Slot(s) = NoSlot THEN [lock |-> FreshLock(s), entrants |-> 0]
                ELSE Slot(s)
    IN  /\ WithSlot(s, [slot EXCEPT !.entrants = @ + 1])
        /\ ticket' = [ticket EXCEPT ![s] = slot.lock]

LockFree(s) == \A t \in Twins(s) \ {s} : t \in holding => ticket[t] # ticket[s]

(* The first half of drop.                                                 *)
GuardTaken(s) == holding \ {s}

(* Faulty: the slot goes with the first submission that leaves it.         *)
LeavesNothing(s) ==
    /\ at[s] = "leaving"
    /\ WithSlot(s, NoSlot)
    /\ ticket' = [ticket EXCEPT ![s] = 0]
    /\ at' = [at EXCEPT ![s] = "done"]
    /\ UNCHANGED <<answer, holding, xlock, stored, applied>>

(* Its second half: the last to leave removes the key.                     *)
LeaveFlight(s) ==
    /\ at[s] = "leaving"
    /\ WithSlot(s, IF Slot(s).entrants = 1 THEN NoSlot
                   ELSE [Slot(s) EXCEPT !.entrants = @ - 1])
    /\ ticket' = [ticket EXCEPT ![s] = 0]
    /\ at' = [at EXCEPT ![s] = "done"]
    /\ UNCHANGED <<answer, holding, xlock, stored, applied>>

-----------------------------------------------------------------------------
(* execute.                                                                *)

(* The submission ends with an answer, or "none" when its client gets no   *)
(* answer of the command: its transaction is over and its flight dropped.  *)
Ends(s, reply) ==
    /\ answer' = [answer EXCEPT ![s] = reply]
    /\ at' = [at EXCEPT ![s] = IF ticket[s] = 0 THEN "done" ELSE "leaving"]
    /\ holding' = GuardTaken(s)
    /\ xlock' = [k \in Keys |-> IF xlock[k] = s THEN NoOne ELSE xlock[k]]
    /\ UNCHANGED <<slots, ticket>>

(* stored_result_response: the stored result for the same input, unless it *)
(* cannot be opened any more, and a conflict for any other.                *)
StoredReplies(s) ==
    IF stored[KeyOf[s]] # HashOf[s] THEN {"conflict"}
    ELSE IF HashOf[s] \in Sealed THEN {"accepted", "unreadable"}
    ELSE {"accepted"}

(* parse_command fails: there is no key and no hash.  (The actor is an     *)
(* authenticated one, which validate_actor accepts.)                       *)
RejectEnvelope(s) ==
    /\ at[s] = "new"
    /\ Ends(s, "invalid")
    /\ UNCHANGED <<stored, applied>>

(* public_record_request: a register that needs the seller's record enters *)
(* its flight; every other command goes straight to its transaction.       *)
AwaitFlight(s) ==
    /\ at[s] = "new" /\ HashOf[s] \in Registers
    /\ EnterFlight(s)
    /\ at' = [at EXCEPT ![s] = "waiting"]
    /\ UNCHANGED <<answer, holding, xlock, stored, applied>>

NeedsNoRecord(s) ==
    /\ at[s] = "new"
    /\ at' = [at EXCEPT ![s] = "begin"]
    /\ UNCHANGED <<answer, slots, ticket, holding, xlock, stored, applied>>

(* The flight is entered: a stored result answers, otherwise the record is *)
(* read.                                                                   *)
FlightEntered(s, reply) ==
    /\ at[s] = "waiting" /\ LockFree(s)
    /\ IF stored[KeyOf[s]] # NoHash
       THEN reply \in StoredReplies(s) /\ Ends(s, reply)
       ELSE /\ reply = "none"
            /\ holding' = holding \union {s}
            /\ at' = [at EXCEPT ![s] = "reading"]
            /\ UNCHANGED <<answer, slots, ticket, xlock>>
    /\ UNCHANGED <<stored, applied>>

(* prefetch_public_record returns, with a record or without.               *)
RecordRead(s) ==
    /\ at[s] = "reading"
    /\ at' = [at EXCEPT ![s] = "begin"]
    /\ UNCHANGED <<answer, slots, ticket, holding, xlock, stored, applied>>

(* Faulty: the advisory lock without the lookup behind it.                 *)
LocksBlindly(s, reply) ==
    /\ at[s] = "begin" /\ xlock[KeyOf[s]] = NoOne
    /\ reply = "none"
    /\ xlock' = [xlock EXCEPT ![KeyOf[s]] = s]
    /\ at' = [at EXCEPT ![s] = "dispatch"]
    /\ UNCHANGED <<answer, slots, ticket, holding, stored, applied>>

(* The transaction takes the advisory lock and looks for a stored result.  *)
(* Nobody else can store one while it has the lock.                        *)
BeginTransaction(s, reply) ==
    /\ at[s] = "begin" /\ xlock[KeyOf[s]] = NoOne
    /\ IF stored[KeyOf[s]] # NoHash
       THEN reply \in StoredReplies(s) /\ Ends(s, reply)
       ELSE /\ reply = "none"
            /\ xlock' = [xlock EXCEPT ![KeyOf[s]] = s]
            /\ at' = [at EXCEPT ![s] = "dispatch"]
            /\ UNCHANGED <<answer, slots, ticket, holding>>
    /\ UNCHANGED <<stored, applied>>

(* The handler succeeded: its effect and the result commit together; the   *)
(* primary key of command_results fails a second result, as an error that  *)
(* is not audited.  A commit without an answer leaves the client without.  *)
CommitResult(s, reply) ==
    /\ at[s] = "dispatch"
    /\ IF stored[KeyOf[s]] = NoHash
       THEN /\ reply \in {"accepted", "none"}
            /\ stored' = [stored EXCEPT ![KeyOf[s]] = HashOf[s]]
            /\ applied' = [applied EXCEPT ![KeyOf[s]] = @ + 1]
       ELSE reply = "collided" /\ UNCHANGED <<stored, applied>>
    /\ Ends(s, reply)

(* The handler refused, a uniqueness constraint did, or the result could   *)
(* not be sealed: everything is rolled back and nothing is stored.         *)
RefuseCommand(s) ==
    /\ at[s] = "dispatch"
    /\ Ends(s, "refused")
    /\ UNCHANGED <<stored, applied>>

(* The client goes away or the database fails, before any commit.          *)
Abort(s) ==
    /\ at[s] \in {"waiting", "reading", "begin", "dispatch"}
    /\ Ends(s, "none")
    /\ UNCHANGED <<stored, applied>>
=============================================================================
