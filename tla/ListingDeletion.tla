-------------------------- MODULE ListingDeletion --------------------------
(***************************************************************************)
(* How the service follows the deletion of a seller's listing records.     *)
(* The records live on the seller's homeserver, which keeps a log of PUT   *)
(* and DEL events.  A listing row is tombstoned by a listing.sync that     *)
(* finds its record gone, or by the follower, a worker pass that reads the *)
(* log under a lease; it is revived by a sync or a register that has seen  *)
(* a record.  Each reads the row and the homeserver at different times and *)
(* writes later, so the write is fenced by the row's record_epoch.         *)
(*                                                                         *)
(* One seller, fixed-price listings.  The position of an event in the log  *)
(* is its cursor, and a record is named by the cursor of its PUT.  A pass  *)
(* is named by its lease: the process that holds it runs one pass at a     *)
(* time, so holder and fence are one value.                                *)
(***************************************************************************)
EXTENDS Integers, Sequences, FiniteSets, FiniteSetsExt

CONSTANTS
    Listings,
    NoListing,
    Followers,     \* the worker processes
    NoOne,         \* the holder of a lease nobody took yet
    Sessions,      \* the register and sync commands that run
    Page,          \* FOLLOW_PAGE: the events one read returns
    MaxEvents,     \* bound: the events of the log
    MaxFaults      \* bound: passes cut short, unanswered calls, lapsed leases

ASSUME PagePositive == Page \in Nat \ {0}


VARIABLES
    log,           \* the homeserver's events for this seller
    row,           \* the listings table
    checked,       \* listing_revival_checks.checked_generation
    cursor,        \* listing_deletion_cursors.event_cursor
    lease,         \* the worker_leases row of the follower
    pass,          \* the running follower passes
    session,       \* the running commands
    faults

vars == <<log, row, checked, cursor, lease, pass, session, faults>>

(* registered is the length of the log when the row was inserted, and      *)
(* record the record it was last written from.                             *)
NoRow == [state |-> "none", deletedAt |-> 0, revivedFrom |-> 0, epoch |-> 0,
          generation |-> 0, record |-> 0, registered |-> 0]
Idle == [pc |-> "idle", mode |-> "revival", due |-> {}, at |-> 0, upto |-> 0,
         listing |-> NoListing, epoch |-> 0, generation |-> 0, found |-> 0]
NewSession == [pc |-> "new", listing |-> NoListing, seen |-> 0, epoch |-> 0, found |-> 0]

Init ==
    /\ log = << >>
    /\ row = [l \in Listings |-> NoRow]
    /\ checked = [l \in Listings |-> 0]
    /\ cursor = 0
    /\ lease = [holder |-> NoOne, live |-> FALSE]
    /\ pass = [f \in Followers |-> Idle]
    /\ session = [s \in Sessions |-> NewSession]
    /\ faults = 0

-----------------------------------------------------------------------------
(* The homeserver.                                                         *)

(* The event the homeserver returns for a listing's path, newest first.    *)
Latest(l, c) ==
    /\ c \in DOMAIN log /\ log[c].listing = l
    /\ \A d \in c + 1 .. Len(log) : log[d].listing # l
LatestEvent(l) == CHOOSE c \in DOMAIN log : Latest(l, c)
Published(l) == \E c \in DOMAIN log : Latest(l, c) /\ log[c].kind = "PUT"

(* Both steps of the proof of deletion: the record is not found, and the   *)
(* latest event for its path is a DEL.                                     *)
LatestEventIsDelete(l) == \E c \in DOMAIN log : Latest(l, c) /\ log[c].kind = "DEL"

SellerWrites(l, kind) ==
    /\ Len(log) < MaxEvents
    /\ kind = "DEL" => Published(l)
    /\ log' = Append(log, [listing |-> l, kind |-> kind])
    /\ UNCHANGED <<row, checked, cursor, lease, pass, session, faults>>

-----------------------------------------------------------------------------
(* The row.                                                                *)

(* TOMBSTONE_FENCE and listings_deletion_guard: no record was accepted     *)
(* since the epoch was observed, and no revival superseded a newer delete. *)
RetirableAnyEpoch(l, found, epoch) ==          \* faulty: the epoch is not compared
    row[l].state = "live" /\ found >= row[l].revivedFrom
Retirable(l, found, epoch) ==
    /\ row[l].state = "live"
    /\ row[l].epoch = epoch
    /\ found >= row[l].revivedFrom

Tombstoned(l, found) == [row EXCEPT ![l].state = "deleted", ![l].deletedAt = found]

(* apply_registration and confirm_record, with the triggers that keep the  *)
(* epoch and the revival marker: every record accepted for a row advances  *)
(* its epoch, also one that changes nothing.                               *)
Accepted(l, record) ==
    [row EXCEPT ![l] =
        IF row[l].state = "none"
        THEN [NoRow EXCEPT !.state = "live", !.record = record, !.registered = Len(log)]
        ELSE IF row[l].state = "deleted"
        THEN [row[l] EXCEPT !.state = "live", !.deletedAt = 0,
                !.revivedFrom = Max({@, row[l].deletedAt}),
                !.epoch = @ + 1, !.generation = @ + 1, !.record = record]
        ELSE [row[l] EXCEPT !.epoch = @ + 1, !.record = Max({@, record})]]

-----------------------------------------------------------------------------
(* listing.register and listing.sync.                                      *)

(* A session is used for one command on one listing.                       *)
Done == [NewSession EXCEPT !.pc = "done"]

Start(s, l, pc) ==
    /\ session[s].pc = "new"
    /\ session' = [session EXCEPT ![s] =
          [pc |-> pc, listing |-> l, epoch |-> 0, found |-> 0,
           seen |-> IF Published(l) THEN LatestEvent(l) ELSE 0]]
    /\ UNCHANGED <<log, row, checked, cursor, lease, pass, faults>>

SyncFetch(s, l) == Start(s, l, IF Published(l) THEN "found" ELSE "missing")

(* The record of a tombstoned listing is read before the transaction.      *)
RegisterPrefetch(s, l) == Start(s, l, "register")

Commit(s, rows) ==
    /\ row' = rows
    /\ session' = [session EXCEPT ![s] = Done]
    /\ UNCHANGED <<log, checked, cursor, lease, pass, faults>>

SyncFound(s) ==
    /\ session[s].pc = "found"
    /\ Commit(s, Accepted(session[s].listing, session[s].seen))

(* A live or a new fixed-price listing is registered on the seller's word, *)
(* a deleted one only with a record that was seen.                         *)
Register(s) ==
    /\ session[s].pc = "register"
    /\ LET l == session[s].listing
           revives == row[l].state = "deleted"
       IN  Commit(s, IF revives /\ session[s].seen = 0 THEN row
                     ELSE Accepted(l, IF revives THEN session[s].seen ELSE 0))

SyncObserve(s) ==
    /\ session[s].pc = "missing"
    /\ LET l == session[s].listing
       IN  session' = [session EXCEPT ![s] =
              IF row[l].state = "live" THEN [@ EXCEPT !.pc = "events", !.epoch = row[l].epoch]
              ELSE Done]
    /\ UNCHANGED <<log, row, checked, cursor, lease, pass, faults>>

SyncConfirm(s) ==
    LET l == session[s].listing
    IN  /\ session[s].pc = "events"
        /\ session' = [session EXCEPT ![s] =
              IF LatestEventIsDelete(l) THEN [@ EXCEPT !.pc = "write", !.found = LatestEvent(l)]
              ELSE Done]
        /\ UNCHANGED <<log, row, checked, cursor, lease, pass, faults>>

SyncTombstone(s) ==
    /\ session[s].pc = "write"
    /\ LET l == session[s].listing
       IN  Commit(s, IF Retirable(l, session[s].found, session[s].epoch)
                     THEN Tombstoned(l, session[s].found) ELSE row)

-----------------------------------------------------------------------------
(* The follower's pass.                                                    *)

Holds(f) == lease.holder = f /\ lease.live

(* Revived listings not confirmed at their generation.                     *)
DueRevivals == {l \in Listings : row[l].state = "live" /\ row[l].revivedFrom # 0
                                    /\ checked[l] < row[l].generation}

Move(f, p) ==
    /\ pass' = [pass EXCEPT ![f] = p]
    /\ UNCHANGED <<log, session>>

(* try_acquire_fenced_lease, and the revivals the pass is to confirm.      *)
BeginPass(f) ==
    /\ pass[f].pc = "idle" /\ ~lease.live
    /\ lease' = [holder |-> f, live |-> TRUE]
    /\ Move(f, [Idle EXCEPT !.pc = "revivals", !.due = DueRevivals])
    /\ UNCHANGED <<row, checked, cursor, faults>>

CheckRevival(f, l) ==
    /\ pass[f].pc = "revivals" /\ l \in pass[f].due
    /\ Move(f, [pass[f] EXCEPT !.pc = "observe", !.mode = "revival",
                               !.listing = l, !.due = @ \ {l}])
    /\ UNCHANGED <<row, checked, cursor, lease, faults>>

(* The events after the cursor, of a seller with a live listing.           *)
ReadPage(f) ==
    /\ pass[f].pc = "revivals" /\ pass[f].due = {}
    /\ Move(f, IF \E l \in Listings : row[l].state = "live"
               THEN [Idle EXCEPT !.pc = "page", !.mode = "event", !.at = cursor + 1,
                                 !.upto = Min({cursor + Page, Len(log)})]
               ELSE [Idle EXCEPT !.pc = "release"])
    /\ UNCHANGED <<row, checked, cursor, lease, faults>>

(* Only a DEL that is the page's latest event for its listing is settled.  *)
Settles(p) == {i \in p.at .. p.upto : /\ log[i].kind = "DEL"
                                      /\ \A j \in i + 1 .. p.upto : log[j].listing # log[i].listing}

(* The next event to settle, or the end of the page.                       *)
NextEvent(f) ==
    LET p == pass[f]
    IN  /\ p.pc = "page"
        /\ \/ \E i \in Settles(p) :
                /\ \A j \in Settles(p) : i <= j
                /\ Move(f, [p EXCEPT !.pc = "observe", !.at = i, !.listing = log[i].listing])
           \/ Settles(p) = {} /\ Move(f, [p EXCEPT !.pc = "poll", !.at = p.upto + 1])
        /\ UNCHANGED <<row, checked, cursor, lease, faults>>

(* What a pass does with the outcome of settle_deletion: a revival that    *)
(* was not retired is recorded, an event that is settled is passed, and an *)
(* unsettled event ends the page before it.                                *)
Settled(p) == [p EXCEPT !.epoch = 0, !.generation = 0, !.found = 0]
Continue(p) == IF p.mode = "revival" THEN [Settled(p) EXCEPT !.pc = "revivals"]
               ELSE [Settled(p) EXCEPT !.pc = "page", !.at = @ + 1]
NotDeleted(p) == IF p.mode = "revival" THEN [p EXCEPT !.pc = "attempt"] ELSE Continue(p)
SettledAnyway(p) == Continue(p)          \* faulty: an unsettled event is passed
Unsettled(p) == [Settled(p) EXCEPT !.pc = IF p.mode = "revival" THEN "revivals" ELSE "poll"]

Observe(f) ==
    LET p == pass[f]
    IN  /\ p.pc = "observe"
        /\ Move(f, IF row[p.listing].state = "live"
                   THEN [p EXCEPT !.pc = "confirm", !.epoch = row[p.listing].epoch,
                                  !.generation = row[p.listing].generation]
                   ELSE Continue(p))
        /\ UNCHANGED <<row, checked, cursor, lease, faults>>

ConfirmDeleted(f) ==
    LET p == pass[f]
    IN  /\ p.pc = "confirm"
        /\ Move(f, IF LatestEventIsDelete(p.listing)
                   THEN [p EXCEPT !.pc = "write", !.found = LatestEvent(p.listing)]
                   ELSE NotDeleted(p))
        /\ UNCHANGED <<row, checked, cursor, lease, faults>>

(* The homeserver does not answer, or the deadline of the call passes.     *)
Unavailable(f) ==
    /\ pass[f].pc = "confirm" /\ faults < MaxFaults
    /\ faults' = faults + 1
    /\ Move(f, Unsettled(pass[f]))
    /\ UNCHANGED <<row, checked, cursor, lease>>

(* Half of the pass's time went to revivals: the others wait.              *)
RevivalsOutOfTime(f) ==
    /\ pass[f].pc = "revivals" /\ pass[f].due # {} /\ faults < MaxFaults
    /\ faults' = faults + 1
    /\ Move(f, [pass[f] EXCEPT !.due = {}])
    /\ UNCHANGED <<row, checked, cursor, lease>>

(* The events of the seller could not be read: the cursor stays.           *)
NoEvents(f) ==
    /\ pass[f].pc = "revivals" /\ pass[f].due = {} /\ faults < MaxFaults
    /\ faults' = faults + 1
    /\ Move(f, [Idle EXCEPT !.pc = "release"])
    /\ UNCHANGED <<row, checked, cursor, lease>>

(* The write of settle_deletion: under the lease, or the pass ends.        *)
SettleDeletion(f) ==
    LET p == pass[f]
        l == p.listing
        retire == Holds(f) /\ Retirable(l, p.found, p.epoch)
    IN  /\ p.pc = "write"
        /\ row' = IF retire THEN Tombstoned(l, p.found) ELSE row
        /\ Move(f, IF ~Holds(f) THEN Idle
                   ELSE IF retire THEN Continue(p)
                   ELSE IF row[l].state = "live" /\ row[l].epoch # p.epoch THEN Unsettled(p)
                   ELSE NotDeleted(p))
        /\ UNCHANGED <<checked, cursor, lease, faults>>

RecordRevivalAttempt(f) ==
    LET p == pass[f]
    IN  /\ p.pc = "attempt"
        /\ checked' = IF Holds(f) THEN [checked EXCEPT ![p.listing] = Max({@, p.generation})]
                      ELSE checked
        /\ Move(f, IF Holds(f) THEN Continue(p) ELSE Idle)
        /\ UNCHANGED <<row, cursor, lease, faults>>

PollsWhenSettled(f) ==                     \* faulty: a page without a DEL is not passed
    /\ pass[f].pc = "poll"
    /\ cursor' = IF Holds(f) /\ pass[f].listing # NoListing
                 THEN Max({cursor, pass[f].at - 1}) ELSE cursor
    /\ Move(f, [Idle EXCEPT !.pc = IF Holds(f) THEN "release" ELSE "idle"])
    /\ UNCHANGED <<row, checked, lease, faults>>
(* The cursor moves to the last settled event, never backwards.            *)
RecordPoll(f) ==
    /\ pass[f].pc = "poll"
    /\ cursor' = IF Holds(f) THEN Max({cursor, pass[f].at - 1}) ELSE cursor
    /\ Move(f, [Idle EXCEPT !.pc = IF Holds(f) THEN "release" ELSE "idle"])
    /\ UNCHANGED <<row, checked, lease, faults>>

ReleaseLease(f) ==
    /\ pass[f].pc = "release"
    /\ lease' = IF lease.holder = f THEN [lease EXCEPT !.live = FALSE] ELSE lease
    /\ Move(f, Idle)
    /\ UNCHANGED <<row, checked, cursor, faults>>

(* A crash or the pass's own deadline, between any two steps: the lease is *)
(* left to lapse.                                                          *)
CutPass(f) ==
    /\ pass[f].pc # "idle" /\ faults < MaxFaults
    /\ faults' = faults + 1
    /\ Move(f, Idle)
    /\ UNCHANGED <<row, checked, cursor, lease>>

(* lease_until passes, also while the pass that took the lease still runs. *)
LapseRunning ==
    /\ lease.live /\ pass[lease.holder].pc # "idle" /\ faults < MaxFaults
    /\ faults' = faults + 1
    /\ lease' = [lease EXCEPT !.live = FALSE]
    /\ UNCHANGED <<log, row, checked, cursor, pass, session>>
LapseLeft ==
    /\ lease.live /\ pass[lease.holder].pc = "idle"
    /\ lease' = [lease EXCEPT !.live = FALSE]
    /\ UNCHANGED <<log, row, checked, cursor, pass, session, faults>>

-----------------------------------------------------------------------------
FollowerStep(f) ==
    \/ \E l \in Listings : CheckRevival(f, l)
    \/ BeginPass(f) \/ ReadPage(f) \/ NextEvent(f) \/ Observe(f) \/ ConfirmDeleted(f)
    \/ SettleDeletion(f) \/ RecordRevivalAttempt(f) \/ RecordPoll(f) \/ ReleaseLease(f)

CommandStep(s) ==
    \/ \E l \in Listings : SyncFetch(s, l) \/ RegisterPrefetch(s, l)
    \/ SyncFound(s) \/ Register(s) \/ SyncObserve(s) \/ SyncConfirm(s) \/ SyncTombstone(s)

Next ==
    \/ \E l \in Listings, kind \in {"PUT", "DEL"} : SellerWrites(l, kind)
    \/ \E s \in Sessions : CommandStep(s)
    \/ \E f \in Followers : FollowerStep(f) \/ Unavailable(f) \/ CutPass(f)
                             \/ RevivalsOutOfTime(f) \/ NoEvents(f)
    \/ LapseRunning
    \/ LapseLeft

Spec == Init /\ [][Next]_vars

(* The worker loop keeps running passes, a lease left behind lapses with   *)
(* the clock, and calls fail or passes are cut only finitely often.        *)
FairSpec ==
    /\ Spec
    /\ WF_vars(LapseLeft)
    /\ \A f \in Followers : WF_vars(FollowerStep(f))

-----------------------------------------------------------------------------
Event == [listing : Listings, kind : {"PUT", "DEL"}]
Row == [state : {"none", "live", "deleted"}, deletedAt : Nat, revivedFrom : Nat,
        epoch : Nat, generation : Nat, record : Nat, registered : Nat]
Pass == [pc : {"idle", "revivals", "page", "observe", "confirm", "write", "attempt",
               "poll", "release"},
         mode : {"revival", "event"}, due : SUBSET Listings, at : Nat, upto : Nat,
         listing : Listings \union {NoListing}, epoch : Nat, generation : Nat, found : Nat]
Session == [pc : {"new", "found", "missing", "register", "events", "write", "done"},
            listing : Listings \union {NoListing}, seen : Nat, epoch : Nat, found : Nat]

(* A pass stays within the page it read, and is on an event of it while it *)
(* settles one.                                                            *)
WithinPage(p) ==
    /\ p.at <= p.upto + 1 /\ p.upto <= Len(log)
    /\ p.pc = "page" => p.at >= 1
    /\ p.mode = "event" /\ p.pc \in {"observe", "confirm", "write", "attempt"}
          => p.at <= p.upto

(* The columns keep their domains, a running pass is within its page, and  *)
(* the cursor names an event of the homeserver's log.                      *)
TypeOK ==
    /\ log \in Seq(Event)
    /\ row \in [Listings -> Row]
    /\ checked \in [Listings -> Nat]
    /\ cursor \in 0 .. Len(log)
    /\ lease \in [holder : Followers \union {NoOne}, live : BOOLEAN]
    /\ faults \in Nat
    /\ pass \in [Followers -> Pass]
    /\ session \in [Sessions -> Session]
    /\ \A f \in Followers : WithinPage(pass[f])

(* A tombstone stands on a delete newer than every record the service      *)
(* accepted for the listing: a sync that accepts a re-published record     *)
(* between the proof of an old delete and its tombstone is not undone by   *)
(* it, whichever of the follower and another sync writes it.               *)
DeletedIsNewer ==
    \A l \in Listings : row[l].state = "deleted" =>
        /\ row[l].deletedAt \in DOMAIN log
        /\ log[row[l].deletedAt] = [listing |-> l, kind |-> "DEL"]
        /\ row[l].deletedAt > row[l].record

(* The listing's delete is one the follower answers for: it came after the *)
(* row was registered, or the row was revived.                             *)
Orphaned(l) ==
    /\ row[l].state = "live"
    /\ LatestEventIsDelete(l)
    /\ row[l].revivedFrom # 0 \/ row[l].registered < LatestEvent(l)

(* The cursor never passes a delete that is still to be answered: behind   *)
(* it, a row whose record is gone is live only as a revival that the       *)
(* follower has not confirmed yet.                                         *)
NothingSkipped ==
    \A l \in Listings : Orphaned(l) /\ LatestEvent(l) <= cursor => l \in DueRevivals

(* A listing whose record is gone does not stay for sale: it is            *)
(* tombstoned, or its record is published again.                           *)
DeletionsFollowed == \A l \in Listings : Orphaned(l) ~> ~Orphaned(l)

=============================================================================
