------------------------------ MODULE WorkerPass ------------------------------
(***************************************************************************)
(* The worker runtime of crates/service/src/workers.rs: every service      *)
(* instance loops over run_once, which walks the maintenance tasks in one  *)
(* fixed order and, for each, takes the task's lease, drains it and        *)
(* releases it.  What a drain does is another module's business; here a    *)
(* drain succeeds, fails or never returns.                                 *)
(*                                                                         *)
(* Time is abstracted to one bit per lease: it stands or it has lapsed.    *)
(* Every lease of a pass is stamped from the time the pass started, so a   *)
(* lease may lapse at any moment, while its holder still works included.   *)
(***************************************************************************)
EXTENDS Naturals, Sequences

CONSTANTS
    Workers,    \* the service instances that run the worker loop
    Tasks,      \* the tasks, in the order run_once walks them
    Tolerant,   \* the tasks whose failure run_once logs and steps over
    Nobody,     \* the holder of a lapsed or released lease
    Gone        \* the holder id of an instance that died: never reused

ASSUME PassAssumption ==
    /\ Nobody \notin Workers /\ Gone \notin Workers /\ Nobody # Gone
    /\ Tasks \in Seq(STRING) /\ Tasks # <<>>

VARIABLES
    at,         \* at[w]: w's place in the pass it is on
    draining,   \* draining[w]: w is inside the drain of task at[w]
    lease       \* lease[t]: the live holder of task t's lease row

passVars == <<at, draining, lease>>

TaskNames == {Tasks[i] : i \in DOMAIN Tasks}

Task(w) == Tasks[at[w]]

PassInit ==
    /\ at = [w \in Workers |-> 1]
    /\ draining = [w \in Workers |-> FALSE]
    /\ lease = [t \in TaskNames |-> Nobody]

(* The task after w's current one; after the last, or once the pass is     *)
(* over for another reason, the loop of spawn sleeps and starts again.     *)
Advance(w) == IF at[w] = Len(Tasks) THEN 1 ELSE at[w] + 1

(* try_acquire_lease: a lapsed lease, or one's own, can be taken.          *)
CanAcquire(w) == ~draining[w] /\ lease[Task(w)] \in {Nobody, w}

Acquire(w) ==
    /\ CanAcquire(w)
    /\ lease' = [lease EXCEPT ![Task(w)] = w]
    /\ draining' = [draining EXCEPT ![w] = TRUE]
    /\ UNCHANGED at

(* Another live holder owns the task: the pass skips it.                   *)
Skip(w) ==
    /\ ~draining[w]
    /\ lease[Task(w)] \notin {Nobody, w}
    /\ at' = [at EXCEPT ![w] = Advance(w)]
    /\ UNCHANGED <<draining, lease>>

(* release_lease: only the row's current holder ends the lease.            *)
Released(w) == [lease EXCEPT ![Task(w)] = IF @ = w THEN Nobody ELSE @]

(* Faulty: every failed drain ends the pass.                               *)
AbortsAlways(w, ok) == IF ok THEN Advance(w) ELSE 1

(* Where w goes from a drain that returned: an error that run_once does    *)
(* not log and step over ends the pass.                                    *)
Onward(w, ok) == IF ok \/ Task(w) \in Tolerant THEN Advance(w) ELSE 1

(* The drain returned.  The lease is released before its error counts.     *)
Finish(w, ok) ==
    /\ draining[w]
    /\ draining' = [draining EXCEPT ![w] = FALSE]
    /\ lease' = Released(w)
    /\ at' = [at EXCEPT ![w] = Onward(w, ok)]

(* A whole task in one step: lease taken, drained, lease released.         *)
RunTask(w, ok) ==
    /\ CanAcquire(w)
    /\ at' = [at EXCEPT ![w] = Onward(w, ok)]
    /\ UNCHANGED <<draining, lease>>

(* A statement of the pass itself fails: taking a lease, or releasing one, *)
(* whose row then keeps its holder.  Either ends the pass.                 *)
PassFails(w) ==
    /\ at' = [at EXCEPT ![w] = 1]
    /\ draining' = [draining EXCEPT ![w] = FALSE]
    /\ UNCHANGED lease

(* The instance dies, or a drain panics and takes the loop down, and a new *)
(* process with a new holder id takes its place.                           *)
Crash(w) ==
    /\ at' = [at EXCEPT ![w] = 1]
    /\ draining' = [draining EXCEPT ![w] = FALSE]
    /\ lease' = [t \in TaskNames |-> IF lease[t] = w THEN Gone ELSE lease[t]]

(* A lease's time is up.                                                   *)
LeaseLapses(t) ==
    /\ lease[t] # Nobody
    /\ lease' = [lease EXCEPT ![t] = Nobody]
    /\ UNCHANGED <<at, draining>>
=============================================================================
