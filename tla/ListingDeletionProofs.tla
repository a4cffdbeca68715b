----------------------- MODULE ListingDeletionProofs -----------------------
(***************************************************************************)
(* A tombstone is never older than a record the service accepted, and the  *)
(* follower never leaves a delete behind without an answer, for any number *)
(* of listings, followers and commands and a log of any length.            *)
(***************************************************************************)
EXTENDS ListingDeletion, SequenceTheorems, TLAPS

-----------------------------------------------------------------------------
(* The inductive invariant.                                                *)

(* A record is named by a PUT of its listing.                              *)
RecordSeen(l, c) == c = 0 \/ (c \in DOMAIN log /\ log[c] = [listing |-> l, kind |-> "PUT"])

(* The row was observed live: its epoch only grows from there.             *)
Observed(l, epoch) ==
    /\ l \in Listings
    /\ row[l].state # "none"
    /\ epoch <= row[l].epoch

(* The delete found after the observation is newer than the row's record,  *)
(* as long as the epoch is the one that was observed.                      *)
Proved(l, epoch, found) ==
    /\ found \in DOMAIN log
    /\ log[found] = [listing |-> l, kind |-> "DEL"]
    /\ row[l].epoch = epoch => row[l].record < found

PassOK(p) ==
    /\ p.pc \in {"observe", "confirm", "write", "attempt"} => p.listing \in Listings
    /\ p.pc \in {"confirm", "write"} => Observed(p.listing, p.epoch)
    /\ p.pc = "write" => Proved(p.listing, p.epoch, p.found)

SessionOK(s) ==
    /\ s.pc \notin {"new", "done"} => s.listing \in Listings
    /\ s.pc \in {"found", "register"} => RecordSeen(s.listing, s.seen)
    /\ s.pc \in {"events", "write"} => Observed(s.listing, s.epoch)
    /\ s.pc = "write" => Proved(s.listing, s.epoch, s.found)

RowOK(l) ==
    /\ RecordSeen(l, row[l].record)
    /\ row[l].state = "none" => row[l].epoch = 0
    /\ row[l].state = "deleted" =>
          /\ row[l].deletedAt \in DOMAIN log
          /\ log[row[l].deletedAt] = [listing |-> l, kind |-> "DEL"]
          /\ row[l].deletedAt > row[l].record

Fenced ==
    /\ TypeOK
    /\ \A l \in Listings : RowOK(l)
    /\ \A f \in Followers : PassOK(pass[f])
    /\ \A s \in Sessions : SessionOK(session[s])

-----------------------------------------------------------------------------
(* What every step leaves of the log and of the rows.                      *)

LogKept == log' \in Seq(Event) /\ DOMAIN log \subseteq DOMAIN log'
              /\ \A c \in DOMAIN log : log'[c] = log[c]
RowsKept == row' \in [Listings -> Row] /\ \A l \in Listings :
    /\ row[l].state # "none" => row'[l].state # "none"
    /\ row'[l].epoch >= row[l].epoch
    /\ row'[l].epoch = row[l].epoch /\ row[l].state # "none" => row'[l].record = row[l].record

(* What was observed and proved of a row stays so under such a step.       *)
LEMMA Kept ==
    ASSUME TypeOK, LogKept, RowsKept, NEW l \in Listings,
           NEW epoch \in Nat, NEW c \in Nat
    PROVE  /\ RecordSeen(l, c) => RecordSeen(l, c)'
           /\ Observed(l, epoch) => Observed(l, epoch)'
           /\ Observed(l, epoch) /\ Proved(l, epoch, c) => Proved(l, epoch, c)'
<1>1. row[l] \in Row /\ row'[l] \in Row
  BY DEF TypeOK, RowsKept
<1>2. RecordSeen(l, c) => RecordSeen(l, c)'
  BY DEF RecordSeen, LogKept
<1>3. Observed(l, epoch) => Observed(l, epoch)'
  BY <1>1 DEF Observed, RowsKept, Row
<1>4. Observed(l, epoch) /\ Proved(l, epoch, c) => Proved(l, epoch, c)'
  <2> SUFFICES ASSUME Observed(l, epoch), Proved(l, epoch, c)
               PROVE  Proved(l, epoch, c)'
    OBVIOUS
  <2>1. c \in DOMAIN log' /\ log'[c] = [listing |-> l, kind |-> "DEL"]
    BY DEF Proved, LogKept
  <2>2. row'[l].epoch = epoch => row'[l].record < c
    BY <1>1 DEF Observed, Proved, RowsKept, Row
  <2> QED BY <2>1, <2>2 DEF Proved
<1> QED BY <1>2, <1>3, <1>4

(* A pass or a session that the step leaves alone stays as it was.         *)
LEMMA OthersKept ==
    ASSUME Fenced, LogKept, RowsKept
    PROVE  /\ \A f \in Followers : pass'[f] = pass[f] => PassOK(pass[f])'
           /\ \A s \in Sessions : session'[s] = session[s] => SessionOK(session[s])'
<1>1. TypeOK
  BY DEF Fenced
<1>2. ASSUME NEW f \in Followers, pass'[f] = pass[f]
      PROVE  PassOK(pass[f])'
  <2>1. pass[f] \in Pass /\ PassOK(pass[f])
    BY <1>1 DEF Fenced, TypeOK
  <2> QED BY <1>1, <1>2, <2>1, Kept DEF PassOK, Pass
<1>3. ASSUME NEW s \in Sessions, session'[s] = session[s]
      PROVE  SessionOK(session[s])'
  <2>1. session[s] \in Session /\ SessionOK(session[s])
    BY <1>1 DEF Fenced, TypeOK
  <2> QED BY <1>1, <1>3, <2>1, Kept, Zenon DEF SessionOK, Session
<1> QED BY <1>2, <1>3

(* A step that reads only.                                                 *)
LEMMA NothingWritten ==
    ASSUME Fenced, UNCHANGED <<log, row>>
    PROVE  LogKept /\ RowsKept /\ \A l \in Listings : RowOK(l)'
<1>1. LogKept /\ RowsKept
  BY DEF Fenced, TypeOK, LogKept, RowsKept, Row
<1>2. \A l \in Listings : RowOK(l)'
  BY Zenon DEF Fenced, RowOK, RecordSeen
<1> QED BY <1>1, <1>2

(* The larger of two cursors.                                              *)
LEMMA MaxOfTwo ==
    ASSUME NEW a \in Nat, NEW b \in Nat
    PROVE  Max({a, b}) = IF a >= b THEN a ELSE b
<1> DEFINE top == IF a >= b THEN a ELSE b
<1>1. top \in {a, b} /\ \A y \in {a, b} : top >= y
  OBVIOUS
<1>2. \A x \in {a, b} : (\A y \in {a, b} : x >= y) => x = top
  OBVIOUS
<1> QED BY <1>1, <1>2 DEF Max

(* The earlier of two log positions, without CHOOSE.                       *)
LEMMA MinOfTwo ==
    ASSUME NEW a \in Nat, NEW b \in Nat
    PROVE  Min({a, b}) = IF a <= b THEN a ELSE b
<1> DEFINE low == IF a <= b THEN a ELSE b
<1>1. low \in {a, b} /\ \A y \in {a, b} : low <= y
  OBVIOUS
<1>2. \A x \in {a, b} : (\A y \in {a, b} : x <= y) => x = low
  OBVIOUS
<1> QED BY <1>1, <1>2 DEF Min

(* A record that is accepted advances the epoch of its row.                *)
LEMMA AcceptedKept ==
    ASSUME Fenced, log' = log, NEW l \in Listings, NEW c \in Nat, RecordSeen(l, c),
           row' = Accepted(l, c)
    PROVE  LogKept /\ RowsKept /\ \A k \in Listings : RowOK(k)'
<1>1. row \in [Listings -> Row] /\ Len(log) \in Nat /\ row[l] \in Row /\ LogKept
  BY DEF Fenced, TypeOK, LogKept
<1> DEFINE new == row'[l]
<1>2. \A k \in Listings \ {l} : row'[k] = row[k]
  BY <1>1 DEF Accepted
<1>3. /\ new \in Row
      /\ new.state = "live"
      /\ new.record \in {c, row[l].record}
      /\ row[l].state # "none" => new.epoch > row[l].epoch
  <2>1. /\ row[l].epoch \in Nat /\ row[l].epoch + 1 \in Nat
        /\ row[l].generation + 1 \in Nat
        /\ row[l].record \in Nat /\ row[l].revivedFrom \in Nat /\ row[l].deletedAt \in Nat
    BY <1>1, SMTT(60) DEF Row
  <2>2. CASE row[l].state = "none"
    <3>1. new = [NoRow EXCEPT !.state = "live", !.record = c, !.registered = Len(log)]
      BY <1>1, <2>2 DEF Accepted
    <3>2. new \in Row
      <4> HIDE DEF new
      <4> QED BY <1>1, <3>1, Zenon DEF NoRow, Row
    <3>3. new.state = "live" /\ new.record = c
      BY <3>1 DEF NoRow
    <3> QED BY <2>2, <3>2, <3>3
  <2>3. CASE row[l].state = "deleted"
    <3>1. PICK m : m = Max({row[l].revivedFrom, row[l].deletedAt})
      OBVIOUS
    <3>2. m \in Nat
      BY <2>1, <3>1, MaxOfTwo, Zenon
    <3>3. new = [row[l] EXCEPT !.state = "live", !.deletedAt = 0, !.revivedFrom = m,
                               !.epoch = @ + 1, !.generation = @ + 1, !.record = c]
      BY <1>1, <2>3, <3>1 DEF Accepted
    <3>4. new \in Row
      <4> HIDE DEF new
      <4> QED BY <1>1, <2>1, <3>2, <3>3, Zenon DEF Row
    <3>5. new.state = "live" /\ new.record = c /\ new.epoch = row[l].epoch + 1
      BY <1>1, <3>3 DEF Row
    <3> QED BY <2>1, <3>4, <3>5
  <2>4. CASE row[l].state = "live"
    <3>1. PICK m : m = Max({row[l].record, c})
      OBVIOUS
    <3>2. m \in {c, row[l].record} /\ m \in Nat
      BY <2>1, <3>1, MaxOfTwo
    <3>3. new = [row[l] EXCEPT !.epoch = @ + 1, !.record = m]
      BY <1>1, <2>4, <3>1 DEF Accepted
    <3>4. new \in Row
      BY <1>1, <2>1, <3>2, <3>3, Zenon DEF Row
    <3>5. new.state = "live" /\ new.record = m /\ new.epoch = row[l].epoch + 1
      BY <1>1, <2>4, <3>3 DEF Row
    <3> QED BY <2>1, <3>2, <3>4, <3>5
  <2> QED BY <1>1, <2>2, <2>3, <2>4, Zenon DEF Row
<1>4. RowsKept
  <2>1. row' \in [Listings -> Row]
    BY <1>1, <1>3 DEF Accepted
  <2>2. row[l].epoch \in Nat /\ new.epoch \in Nat
    BY <1>1, <1>3, Zenon DEF Row
  <2>3. row[l].state = "none" => row[l].epoch = 0
    BY Zenon DEF Fenced, RowOK
  <2>4. \A k \in Listings : row[k].epoch \in Nat
    BY <1>1 DEF Row
  <2> QED BY <1>2, <1>3, <2>1, <2>2, <2>3, <2>4 DEF RowsKept
<1>5. ASSUME NEW k \in Listings PROVE RowOK(k)'
  BY <1>2, <1>3 DEF Fenced, RowOK, RecordSeen
<1> QED BY <1>1, <1>4, <1>5

(* A fenced tombstone leaves the epoch and the record of its row.          *)
LEMMA TombstonedKept ==
    ASSUME Fenced, log' = log, NEW l \in Listings, NEW found \in Nat, NEW epoch \in Nat,
           Observed(l, epoch), Proved(l, epoch, found), Retirable(l, found, epoch),
           row' = Tombstoned(l, found)
    PROVE  LogKept /\ RowsKept /\ \A k \in Listings : RowOK(k)'
<1>1. row \in [Listings -> Row] /\ row[l] \in Row /\ LogKept
  BY DEF Fenced, TypeOK, LogKept
<1>2. \A k \in Listings \ {l} : row'[k] = row[k]
  BY <1>1 DEF Tombstoned
<1>3. row'[l] = [row[l] EXCEPT !.state = "deleted", !.deletedAt = found]
  BY <1>1 DEF Tombstoned
<1>4. row' \in [Listings -> Row]
  <2>1. [row[l] EXCEPT !.state = "deleted", !.deletedAt = found] \in Row
    BY <1>1, Zenon DEF Row
  <2> QED BY <1>1, <2>1 DEF Tombstoned
<1>5. RowsKept
  <2>1. row'[l].state = "deleted" /\ row'[l].epoch = row[l].epoch
          /\ row'[l].record = row[l].record
    BY <1>1, <1>3 DEF Row
  <2>2. \A k \in Listings : row[k].epoch \in Nat
    BY <1>1 DEF Row
  <2> QED BY <1>2, <1>4, <2>1, <2>2 DEF RowsKept
<1>6. ASSUME NEW k \in Listings PROVE RowOK(k)'
  <2>1. row[l].record < found
    BY DEF Proved, Retirable
  <2>2. CASE k = l
    BY <1>1, <1>3, <2>1, <2>2, ZenonT(60) DEF Fenced, RowOK, RecordSeen, Proved, Row
  <2>3. CASE k # l
    BY <1>2, <2>3, ZenonT(60) DEF Fenced, RowOK, RecordSeen
  <2> QED BY <2>2, <2>3
<1> QED BY <1>1, <1>5, <1>6

-----------------------------------------------------------------------------
(* A step of one pass, and a step of one command, keep the invariant if    *)
(* they leave the log and the rows as above and their own record sound.    *)

(* A step that moves one pass, and leaves what others have seen true,      *)
(* keeps the invariant.                                                    *)
LEMMA PassMoved ==
    ASSUME Fenced, LogKept, RowsKept, \A l \in Listings : RowOK(l)', Len(log) <= Len(log)',
           NEW f \in Followers, NEW p \in Pass, Move(f, p), WithinPage(p)', PassOK(p)',
           checked' \in [Listings -> Nat], cursor' \in 0 .. Len(log'), faults' \in Nat,
           lease' \in [holder : Followers \union {NoOne}, live : BOOLEAN]
    PROVE  Fenced'
<1>1. TypeOK /\ pass \in [Followers -> Pass] /\ Len(log) \in Nat /\ Len(log)' \in Nat
  BY DEF Fenced, TypeOK, LogKept
<1>2. /\ pass' \in [Followers -> Pass] /\ pass'[f] = p
      /\ \A g \in Followers \ {f} : pass'[g] = pass[g]
  BY <1>1 DEF Move
<1>3. \A g \in Followers : PassOK(pass[g])'
  <2>1. \A g \in Followers \ {f} : PassOK(pass[g])'
    BY <1>2, OthersKept
  <2>2. PassOK(pass[f])'
    BY <1>2, Zenon DEF PassOK, Observed, Proved
  <2> QED BY <2>1, <2>2
<1>4. \A s \in Sessions : SessionOK(session[s])'
  BY OthersKept DEF Move
<1>5. \A g \in Followers : WithinPage(pass[g])'
  <2>1. ASSUME NEW g \in Followers \ {f} PROVE WithinPage(pass[g])'
    <3>1. WithinPage(pass[g]) /\ pass'[g] = pass[g]
      BY <1>1, <1>2 DEF TypeOK
    <3>2. pass[g].at \in Nat /\ pass[g].upto \in Nat
      BY <1>1, Zenon DEF Pass
    <3> QED BY <1>1, <3>1, <3>2 DEF WithinPage
  <2>2. WithinPage(pass[f])'
    BY <1>2 DEF WithinPage
  <2> QED BY <2>1, <2>2
<1>6. TypeOK'
  BY <1>1, <1>2, <1>5, Zenon DEF TypeOK, LogKept, RowsKept, Move
<1> QED BY <1>3, <1>4, <1>6, Zenon DEF Fenced

(* A step that moves one sync or register, and no pass, keeps the          *)
(* invariant.                                                              *)
LEMMA SessionMoved ==
    ASSUME Fenced, LogKept, RowsKept, \A l \in Listings : RowOK(l)', log' = log,
           NEW s \in Sessions, NEW q \in Session, session' = [session EXCEPT ![s] = q],
           SessionOK(q)', UNCHANGED <<checked, cursor, lease, pass, faults>>
    PROVE  Fenced'
<1>1. TypeOK /\ session \in [Sessions -> Session]
  BY DEF Fenced, TypeOK
<1>2. /\ session' \in [Sessions -> Session] /\ session'[s] = q
      /\ \A t \in Sessions \ {s} : session'[t] = session[t]
  BY <1>1
<1>3. \A t \in Sessions : SessionOK(session[t])'
  <2>1. \A t \in Sessions \ {s} : SessionOK(session[t])'
    BY <1>2, OthersKept
  <2>2. SessionOK(session[s])'
    BY <1>2, Zenon DEF SessionOK, RecordSeen, Observed, Proved
  <2> QED BY <2>1, <2>2
<1>4. \A f \in Followers : PassOK(pass[f])'
  BY OthersKept
<1>5. TypeOK'
  BY <1>1, <1>2, Zenon DEF TypeOK, LogKept, RowsKept, WithinPage
<1> QED BY <1>3, <1>4, <1>5 DEF Fenced

-----------------------------------------------------------------------------
(* The steps of the follower.                                              *)

(* A pass that is not running has nothing to be held to.                   *)
LEMMA IdleSound == Idle \in Pass /\ \A f \in Followers : TypeOK => WithinPage(Idle) /\ PassOK(Idle)
BY SMTT(60) DEF Idle, Pass, WithinPage, PassOK, TypeOK

(* A pass that only reads the rows and the log.                            *)
LEMMA ReadersSound ==
    ASSUME Fenced, NEW f \in Followers, NEW p \in Pass, Move(f, p),
           UNCHANGED <<row, checked, cursor>>, WithinPage(p), PassOK(p), faults' \in Nat,
           lease' \in [holder : Followers \union {NoOne}, live : BOOLEAN]
    PROVE  Fenced'
<1>1. UNCHANGED <<log, row>>
  BY DEF Move
<1>2. LogKept /\ RowsKept /\ \A l \in Listings : RowOK(l)'
  BY <1>1, NothingWritten
<1>3. WithinPage(p)' /\ PassOK(p)'
  BY <1>1 DEF WithinPage, PassOK, Observed, Proved
<1>4. checked' \in [Listings -> Nat] /\ cursor' \in 0 .. Len(log') /\ Len(log) <= Len(log)'
  BY <1>1 DEF Fenced, TypeOK
<1> QED BY <1>2, <1>3, <1>4, PassMoved

(* What the invariant says of one pass, its lease and the cursor.          *)
LEMMA PassType ==
    ASSUME Fenced, NEW f \in Followers
    PROVE  /\ pass[f] \in Pass /\ WithinPage(pass[f]) /\ PassOK(pass[f])
           /\ lease \in [holder : Followers \union {NoOne}, live : BOOLEAN]
           /\ faults \in Nat /\ cursor \in Nat /\ cursor <= Len(log) /\ Len(log) \in Nat
           /\ checked \in [Listings -> Nat]
BY DEF Fenced, TypeOK

(* run_once of the follower takes the lease and starts with nothing        *)
(* proved.                                                                 *)
LEMMA BeginPassSound ==
    ASSUME Fenced, NEW f \in Followers, BeginPass(f)
    PROVE  Fenced'
<1> DEFINE p == [Idle EXCEPT !.pc = "revivals", !.due = DueRevivals]
<1>1. DueRevivals \in SUBSET Listings
  BY DEF DueRevivals
<1>2. p \in Pass /\ WithinPage(p) /\ PassOK(p)
  <2>1. p \in Pass
    BY <1>1, Zenon DEF Idle, Pass
  <2>2. p.pc = "revivals" /\ p.at = 0 /\ p.upto = 0
    BY DEF Idle
  <2> HIDE DEF p
  <2> QED BY <2>1, <2>2, PassType DEF WithinPage, PassOK
<1>3. lease' \in [holder : Followers \union {NoOne}, live : BOOLEAN] /\ faults' \in Nat
  BY PassType DEF BeginPass
<1>4. Move(f, p) /\ UNCHANGED <<row, checked, cursor>>
  BY DEF BeginPass
<1> HIDE DEF p
<1> QED BY <1>2, <1>3, <1>4, ReadersSound

(* A pass turns to a revived row before it reads its page.                 *)
LEMMA CheckRevivalSound ==
    ASSUME Fenced, NEW f \in Followers, NEW l \in Listings, CheckRevival(f, l)
    PROVE  Fenced'
<1> DEFINE p == [pass[f] EXCEPT !.pc = "observe", !.mode = "revival",
                                !.listing = l, !.due = @ \ {l}]
<1>1. p \in Pass /\ WithinPage(p) /\ PassOK(p)
  <2>1. pass[f] \in Pass /\ WithinPage(pass[f]) /\ pass[f].due \ {l} \in SUBSET Listings
    BY PassType, Zenon DEF Pass
  <2>2. p \in Pass
    BY <2>1, Zenon DEF Pass
  <2>3. p.pc = "observe" /\ p.mode = "revival" /\ p.listing = l
           /\ p.at = pass[f].at /\ p.upto = pass[f].upto
    BY <2>1 DEF Pass
  <2> HIDE DEF p
  <2> QED BY <2>1, <2>2, <2>3, Zenon DEF WithinPage, PassOK
<1>2. Move(f, p) /\ UNCHANGED <<row, checked, cursor>>
        /\ lease' \in [holder : Followers \union {NoOne}, live : BOOLEAN] /\ faults' \in Nat
  BY PassType DEF CheckRevival
<1> HIDE DEF p
<1> QED BY <1>1, <1>2, ReadersSound

(* The page read is a part of the log behind the cursor.                   *)
LEMMA ReadPageSound ==
    ASSUME Fenced, NEW f \in Followers, ReadPage(f)
    PROVE  Fenced'
<1>1. PICK m : m = Min({cursor + Page, Len(log)})
  OBVIOUS
<1>2. m \in Nat /\ cursor <= m /\ m <= Len(log) /\ cursor + 1 \in Nat
  <2>1. cursor + Page \in Nat /\ cursor \in Nat /\ cursor <= Len(log) /\ Len(log) \in Nat
    BY PassType, PagePositive
  <2>2. m = IF cursor + Page <= Len(log) THEN cursor + Page ELSE Len(log)
    BY <1>1, <2>1, MinOfTwo, Zenon
  <2> QED BY <2>1, <2>2, PagePositive
<1> DEFINE p == [Idle EXCEPT !.pc = "page", !.mode = "event", !.at = cursor + 1, !.upto = m]
           q == [Idle EXCEPT !.pc = "release"]
<1>3. p \in Pass /\ WithinPage(p) /\ PassOK(p)
  <2>1. p \in Pass
    BY <1>2, Zenon DEF Idle, Pass
  <2>2. p.pc = "page" /\ p.at = cursor + 1 /\ p.upto = m
    BY DEF Idle
  <2> HIDE DEF p
  <2> QED BY <1>2, <2>1, <2>2, PassType, SMTT(60) DEF WithinPage, PassOK
<1>4. q \in Pass /\ WithinPage(q) /\ PassOK(q)
  <2>1. q \in Pass
    BY DEF Idle, Pass
  <2>2. q.pc = "release" /\ q.at = 0 /\ q.upto = 0
    BY DEF Idle
  <2> HIDE DEF q
  <2> QED BY <2>1, <2>2, PassType DEF WithinPage, PassOK
<1>5. Move(f, p) \/ Move(f, q)
  BY <1>1 DEF ReadPage
<1>6. UNCHANGED <<row, checked, cursor>> /\ faults' \in Nat
        /\ lease' \in [holder : Followers \union {NoOne}, live : BOOLEAN]
  BY PassType DEF ReadPage
<1> HIDE DEF p, q
<1> QED BY <1>3, <1>4, <1>5, <1>6, ReadersSound

(* Going to the next delete of the page forgets what was proved for the    *)
(* last one.                                                               *)
LEMMA NextEventSound ==
    ASSUME Fenced, NEW f \in Followers, NextEvent(f)
    PROVE  Fenced'
<1>1. /\ pass[f] \in Pass /\ WithinPage(pass[f])
      /\ pass[f].at \in Nat /\ pass[f].upto \in Nat /\ pass[f].upto + 1 \in Nat
      /\ Len(log) \in Nat /\ log \in Seq(Event)
  BY PassType, SMTT(60) DEF Pass, Fenced, TypeOK
<1>2. UNCHANGED <<row, checked, cursor>> /\ faults' \in Nat
        /\ lease' \in [holder : Followers \union {NoOne}, live : BOOLEAN]
  BY PassType, Zenon DEF NextEvent
<1>3. ASSUME NEW i \in Settles(pass[f]),
             Move(f, [pass[f] EXCEPT !.pc = "observe", !.at = i, !.listing = log[i].listing])
      PROVE  Fenced'
  <2> DEFINE p == [pass[f] EXCEPT !.pc = "observe", !.at = i, !.listing = log[i].listing]
  <2>1. i \in Nat /\ i <= pass[f].upto
    BY <1>1, SMTT(60) DEF Settles
  <2>2. log[i].listing \in Listings
    <3>1. i \in 1 .. Len(log)
      <4>1. pass[f].pc = "page" /\ i \in pass[f].at .. pass[f].upto
        BY Zenon DEF Settles, NextEvent
      <4> QED BY <1>1, <4>1 DEF WithinPage
    <3>2. log[i] \in Event
      BY <1>1, <3>1
    <3> QED BY <3>2, Zenon DEF Event
  <2>3. p \in Pass
    BY <1>1, <2>1, <2>2, Zenon DEF Pass
  <2>4. p.pc = "observe" /\ p.at = i /\ p.upto = pass[f].upto /\ p.listing = log[i].listing
    BY <1>1 DEF Pass
  <2>5. Move(f, p)
    BY <1>3
  <2> HIDE DEF p
  <2>6. WithinPage(p) /\ PassOK(p)
    BY <1>1, <2>1, <2>2, <2>4, SMTT(60) DEF WithinPage, PassOK
  <2> QED BY <1>2, <2>3, <2>5, <2>6, ReadersSound
<1>4. CASE Move(f, [pass[f] EXCEPT !.pc = "poll", !.at = pass[f].upto + 1])
  <2> DEFINE p == [pass[f] EXCEPT !.pc = "poll", !.at = pass[f].upto + 1]
  <2>1. p \in Pass
    BY <1>1, Zenon DEF Pass
  <2>2. p.pc = "poll" /\ p.at = pass[f].upto + 1 /\ p.upto = pass[f].upto
    BY <1>1 DEF Pass
  <2>3. Move(f, p)
    BY <1>4
  <2> HIDE DEF p
  <2>4. WithinPage(p) /\ PassOK(p)
    BY <1>1, <2>2 DEF WithinPage, PassOK
  <2> QED BY <1>2, <2>1, <2>3, <2>4, ReadersSound, Zenon
<1> QED BY <1>3, <1>4, Zenon DEF NextEvent

(* Where a pass goes after settle_deletion, whatever its outcome.          *)
LEMMA Outcomes ==
    ASSUME Len(log) \in Nat, NEW p \in Pass, WithinPage(p), p.listing \in Listings,
           p.pc \in {"observe", "confirm", "write", "attempt"},
           NEW q \in {Continue(p), NotDeleted(p), Unsettled(p)}
    PROVE  /\ q \in Pass /\ WithinPage(q)
           /\ q.pc \in {"revivals", "page", "attempt", "poll"} /\ q.listing \in Listings
<1> DEFINE r == Settled(p)
<1>1. /\ r \in Pass /\ r.pc = p.pc /\ r.mode = p.mode /\ r.listing = p.listing
      /\ r.at = p.at /\ r.upto = p.upto
  BY Zenon DEF Settled, Pass
<1>2. /\ p.at \in Nat /\ p.at + 1 \in Nat /\ p.upto \in Nat /\ p.mode \in {"revival", "event"}
  BY DEF Pass
<1> HIDE DEF r
<1>4. ASSUME NEW s \in Pass, NEW pc \in {"revivals", "page", "attempt", "poll"},
             NEW t, t = [s EXCEPT !.pc = pc]
      PROVE  /\ t \in Pass /\ t.pc = pc /\ t.at = s.at /\ t.mode = s.mode
             /\ t.listing = s.listing /\ t.upto = s.upto
  BY <1>4, Zenon DEF Pass
<1>5. CASE q = Continue(p)
  <2>1. CASE p.mode = "revival"
    <3>1. q = [r EXCEPT !.pc = "revivals"]
      BY <1>5, <2>1 DEF Continue, r
    <3>2. q \in Pass /\ q.pc = "revivals" /\ q.at = p.at /\ q.listing = p.listing
             /\ q.upto = p.upto
      BY <1>1, <1>4, <3>1
    <3> QED BY <1>2, <3>2, Zenon DEF WithinPage
  <2>2. CASE p.mode = "event"
    <3>1. q = [r EXCEPT !.pc = "page", !.at = p.at + 1]
      <4>1. q = [r EXCEPT !.pc = "page", !.at = r.at + 1]
        BY <1>1, <1>5, <2>2, "revival" # "event" DEF Continue, r, Pass
      <4> QED BY <1>1, <4>1
    <3>2. q \in Pass /\ q.pc = "page" /\ q.at = p.at + 1 /\ q.listing = p.listing
             /\ q.upto = p.upto
      <4>1. q \in Pass
        BY <1>1, <1>2, <3>1, Zenon DEF Pass
      <4> QED BY <1>1, <3>1, <4>1 DEF Pass
    <3> QED BY <1>2, <2>2, <3>2 DEF WithinPage
  <2> QED BY <1>2, <2>1, <2>2
<1>6. CASE q = NotDeleted(p) /\ q # Continue(p)
  <2>1. q = [p EXCEPT !.pc = "attempt"] /\ p.mode = "revival"
    BY <1>6 DEF NotDeleted
  <2>2. q \in Pass /\ q.pc = "attempt" /\ q.at = p.at /\ q.listing = p.listing
           /\ q.upto = p.upto /\ q.mode = p.mode
    BY <1>4, <2>1
  <2> QED BY <1>2, <2>1, <2>2 DEF WithinPage
<1>7. CASE q = Unsettled(p)
  <2>1. PICK pc \in {"revivals", "poll"} : q = [r EXCEPT !.pc = pc]
    BY <1>7 DEF Unsettled, r
  <2>2. q \in Pass /\ q.pc = pc /\ q.at = p.at /\ q.listing = p.listing /\ q.upto = p.upto
    BY <1>1, <1>4, <2>1
  <2> QED BY <1>2, <2>1, <2>2, Zenon DEF WithinPage
<1> QED BY <1>5, <1>6, <1>7

(* What such an outcome needs of the state after the step.                 *)
LEMMA OutcomeSound ==
    ASSUME Fenced, NEW f \in Followers, PassOK(pass[f]),
           pass[f].pc \in {"observe", "confirm", "write", "attempt"},
           NEW q \in {Continue(pass[f]), NotDeleted(pass[f]), Unsettled(pass[f])}
    PROVE  /\ q \in Pass /\ WithinPage(q) /\ PassOK(q)
           /\ log' = log => WithinPage(q)' /\ PassOK(q)'
<1>1. /\ q \in Pass /\ WithinPage(q)
      /\ q.pc \in {"revivals", "page", "attempt", "poll"} /\ q.listing \in Listings
  <2>1. pass[f].listing \in Listings
    BY Zenon DEF PassOK
  <2> QED BY <2>1, PassType, Outcomes, Zenon
<1>2. PassOK(q) /\ PassOK(q)'
  BY <1>1, Zenon DEF PassOK
<1>3. log' = log => WithinPage(q)'
  BY <1>1, Zenon DEF WithinPage
<1> QED BY <1>1, <1>2, <1>3, Zenon

(* The row is observed before the record: the fence of settle_deletion.    *)
LEMMA ObserveSound ==
    ASSUME Fenced, NEW f \in Followers, Observe(f)
    PROVE  Fenced'
<1> DEFINE p == pass[f]
           q == [p EXCEPT !.pc = "confirm", !.epoch = row[p.listing].epoch,
                          !.generation = row[p.listing].generation]
<1>1. /\ p \in Pass /\ WithinPage(p) /\ PassOK(p) /\ p.pc = "observe"
      /\ p.listing \in Listings /\ p.at \in Nat /\ p.upto \in Nat
  BY PassType, Zenon DEF Observe, PassOK, Pass
<1>2. UNCHANGED <<row, checked, cursor>> /\ faults' \in Nat
        /\ lease' \in [holder : Followers \union {NoOne}, live : BOOLEAN]
  BY PassType DEF Observe
<1>3. CASE row[p.listing].state = "live"
  <2>1. row[p.listing].epoch \in Nat /\ row[p.listing].generation \in Nat
    BY <1>1, Zenon DEF Fenced, TypeOK, Row
  <2>2. q \in Pass
    BY <1>1, <2>1, Zenon DEF Pass
  <2>3. /\ q.pc = "confirm" /\ q.epoch = row[p.listing].epoch /\ q.listing = p.listing
        /\ q.at = p.at /\ q.upto = p.upto /\ q.mode = p.mode
    BY <1>1 DEF Pass
  <2>4. Move(f, q)
    BY <1>3 DEF Observe
  <2> HIDE DEF q
  <2>5. WithinPage(q)
    BY <1>1, <2>3, Zenon DEF WithinPage
  <2>6. PassOK(q)
    BY <1>1, <1>3, <2>1, <2>3, SMTT(60) DEF PassOK, Observed
  <2> QED BY <1>2, <2>2, <2>4, <2>5, <2>6, ReadersSound
<1>4. CASE row[p.listing].state # "live"
  <2>1. Move(f, Continue(p))
    BY <1>4 DEF Observe
  <2>2. Continue(p) \in Pass /\ WithinPage(Continue(p)) /\ PassOK(Continue(p))
    BY <1>1, OutcomeSound, Zenon
  <2> QED BY <1>2, <2>1, <2>2, ReadersSound
<1> QED BY <1>3, <1>4, Zenon

(* The latest event of a path is one event.                                *)
LEMMA LatestIsOne ==
    ASSUME TypeOK, NEW l \in Listings, NEW c \in DOMAIN log, Latest(l, c)
    PROVE  c \in 1 .. Len(log) /\ Len(log) \in Nat /\ LatestEvent(l) = c
<1>1. DOMAIN log = 1 .. Len(log) /\ Len(log) \in Nat
  BY DEF TypeOK
<1>2. ASSUME NEW d \in DOMAIN log, Latest(l, d) PROVE d = c
  <2>1. ~(d > c) /\ ~(c > d)
    BY <1>1, <1>2 DEF Latest
  <2> QED BY <1>1, <2>1
<1>3. LatestEvent(l) \in DOMAIN log /\ Latest(l, LatestEvent(l))
  BY DEF LatestEvent
<1> QED BY <1>1, <1>2, <1>3

(* The proof of a deletion is newer than the record of the row.            *)
LEMMA DeleteProved ==
    ASSUME Fenced, NEW l \in Listings, NEW epoch, LatestEventIsDelete(l)
    PROVE  LatestEvent(l) \in Nat /\ Proved(l, epoch, LatestEvent(l))
<1>1. PICK c \in DOMAIN log : Latest(l, c) /\ log[c].kind = "DEL"
  BY DEF LatestEventIsDelete
<1>2. c \in 1 .. Len(log) /\ Len(log) \in Nat /\ LatestEvent(l) = c
  BY <1>1, LatestIsOne DEF Fenced
<1>3. log[c] = [listing |-> l, kind |-> "DEL"]
  <2>1. log[c] \in Event
    BY <1>2 DEF Fenced, TypeOK
  <2> QED BY <1>1, <2>1 DEF Latest, Event
<1>4. row[l].record < c
  <2>1. row[l].record \in Nat /\ RecordSeen(l, row[l].record)
    BY Zenon DEF Fenced, TypeOK, Row, RowOK
  <2>2. CASE row[l].record = 0
    BY <1>2, <2>2
  <2>3. CASE row[l].record \in DOMAIN log /\ log[row[l].record] = [listing |-> l, kind |-> "PUT"]
    <3>1. row[l].record \in 1 .. Len(log)
      BY <2>3 DEF Fenced, TypeOK
    <3>2. row[l].record # c
      BY <1>1, <2>3
    <3>3. ~(row[l].record > c)
      BY <1>1, <1>2, <2>3, <3>1, SMTT(60) DEF Latest
    <3> QED BY <1>2, <2>1, <3>2, <3>3
  <2> QED BY <2>1, <2>2, <2>3, Zenon DEF RecordSeen
<1> QED BY <1>2, <1>3, <1>4 DEF Proved

(* The record was read as absent after the row was observed.               *)
LEMMA ConfirmSound ==
    ASSUME Fenced, NEW f \in Followers, ConfirmDeleted(f)
    PROVE  Fenced'
<1> DEFINE p == pass[f]
           q == [p EXCEPT !.pc = "write", !.found = LatestEvent(p.listing)]
<1>1. /\ p \in Pass /\ WithinPage(p) /\ PassOK(p) /\ p.pc = "confirm"
      /\ p.listing \in Listings /\ Observed(p.listing, p.epoch)
  BY PassType, Zenon DEF ConfirmDeleted, PassOK
<1>2. UNCHANGED <<row, checked, cursor>> /\ faults' \in Nat
        /\ lease' \in [holder : Followers \union {NoOne}, live : BOOLEAN]
  BY PassType DEF ConfirmDeleted
<1>3. CASE LatestEventIsDelete(p.listing)
  <2>1. LatestEvent(p.listing) \in Nat /\ Proved(p.listing, p.epoch, LatestEvent(p.listing))
    BY <1>1, <1>3, DeleteProved, Zenon
  <2>2. q \in Pass
    BY <1>1, <2>1, Zenon DEF Pass
  <2>3. /\ q.pc = "write" /\ q.epoch = p.epoch /\ q.listing = p.listing
        /\ q.found = LatestEvent(p.listing)
        /\ q.at = p.at /\ q.upto = p.upto /\ q.mode = p.mode
    BY <1>1 DEF Pass
  <2>4. Move(f, q)
    BY <1>3 DEF ConfirmDeleted
  <2> HIDE DEF q
  <2>5. WithinPage(q)
    BY <1>1, <2>3, Zenon DEF WithinPage
  <2>6. PassOK(q)
    BY <1>1, <2>1, <2>3, Zenon DEF PassOK
  <2> QED BY <1>2, <2>2, <2>4, <2>5, <2>6, ReadersSound
<1>4. CASE ~LatestEventIsDelete(p.listing)
  <2>1. Move(f, NotDeleted(p))
    BY <1>4 DEF ConfirmDeleted
  <2>2. NotDeleted(p) \in Pass /\ WithinPage(NotDeleted(p)) /\ PassOK(NotDeleted(p))
    BY <1>1, OutcomeSound, Zenon
  <2> QED BY <1>2, <2>1, <2>2, ReadersSound
<1> QED BY <1>3, <1>4

(* A homeserver without an answer stops the page here.                     *)
LEMMA UnavailableSound ==
    ASSUME Fenced, NEW f \in Followers, Unavailable(f)
    PROVE  Fenced'
<1>1. PassOK(pass[f]) /\ pass[f].pc = "confirm"
  BY PassType, Zenon DEF Unavailable
<1>2. /\ Unsettled(pass[f]) \in Pass /\ WithinPage(Unsettled(pass[f]))
      /\ PassOK(Unsettled(pass[f]))
  BY <1>1, OutcomeSound, Zenon
<1>3. Move(f, Unsettled(pass[f])) /\ UNCHANGED <<row, checked, cursor>> /\ faults' \in Nat
        /\ lease' \in [holder : Followers \union {NoOne}, live : BOOLEAN]
  BY PassType DEF Unavailable
<1> QED BY <1>2, <1>3, ReadersSound

(* A pass that ends, or skips what is left of its revivals.                *)
LEMMA EndingSound ==
    ASSUME Fenced, NEW f \in Followers,
           RevivalsOutOfTime(f) \/ NoEvents(f) \/ CutPass(f) \/ ReleaseLease(f)
    PROVE  Fenced'
<1> DEFINE q == [pass[f] EXCEPT !.due = {}]
           r == [Idle EXCEPT !.pc = "release"]
<1>1. q \in Pass /\ WithinPage(q) /\ PassOK(q)
  <2>1. pass[f] \in Pass /\ WithinPage(pass[f]) /\ PassOK(pass[f])
    BY PassType
  <2>2. q \in Pass
    BY <2>1 DEF Pass
  <2>3. /\ q.pc = pass[f].pc /\ q.epoch = pass[f].epoch /\ q.listing = pass[f].listing
        /\ q.found = pass[f].found
        /\ q.at = pass[f].at /\ q.upto = pass[f].upto /\ q.mode = pass[f].mode
    BY <2>1 DEF Pass
  <2> HIDE DEF q
  <2> QED BY <2>1, <2>2, <2>3, Zenon DEF WithinPage, PassOK
<1>2. r \in Pass /\ WithinPage(r) /\ PassOK(r)
  <2>1. r \in Pass
    BY DEF Idle, Pass
  <2>2. r.pc = "release" /\ r.at = 0 /\ r.upto = 0
    BY DEF Idle
  <2> HIDE DEF r
  <2> QED BY <2>1, <2>2, PassType, SMTT(60) DEF WithinPage, PassOK
<1>3. Idle \in Pass /\ WithinPage(Idle) /\ PassOK(Idle)
  BY IdleSound DEF Fenced
<1>4. Move(f, q) \/ Move(f, r) \/ Move(f, Idle)
  BY DEF RevivalsOutOfTime, NoEvents, CutPass, ReleaseLease
<1>5. UNCHANGED <<row, checked, cursor>> /\ faults' \in Nat
  BY PassType DEF RevivalsOutOfTime, NoEvents, CutPass, ReleaseLease
<1>6. lease' \in [holder : Followers \union {NoOne}, live : BOOLEAN]
  BY PassType, Zenon DEF RevivalsOutOfTime, NoEvents, CutPass, ReleaseLease
<1> HIDE DEF q, r
<1> QED BY <1>1, <1>2, <1>3, <1>4, <1>5, <1>6, ReadersSound, Zenon

(* settle_deletion writes its tombstone only over the row it observed.     *)
LEMMA SettleSound ==
    ASSUME Fenced, NEW f \in Followers, SettleDeletion(f)
    PROVE  Fenced'
<1> DEFINE p == pass[f]
           l == p.listing
<1>1. /\ p \in Pass /\ PassOK(p) /\ p.pc = "write" /\ l \in Listings
      /\ Observed(l, p.epoch) /\ Proved(l, p.epoch, p.found)
      /\ p.epoch \in Nat /\ p.found \in Nat
  BY PassType, Zenon DEF SettleDeletion, PassOK, Pass
<1>2. log' = log /\ UNCHANGED <<checked, cursor, lease, faults>>
  BY Zenon DEF SettleDeletion, Move
<1>3. LogKept /\ RowsKept /\ \A k \in Listings : RowOK(k)'
  <2>1. CASE Retirable(l, p.found, p.epoch) /\ row' = Tombstoned(l, p.found)
    BY <1>1, <1>2, <2>1, TombstonedKept, Zenon
  <2>2. CASE row' = row
    BY <1>2, <2>2, NothingWritten
  <2> QED BY <2>1, <2>2, Zenon DEF SettleDeletion
<1>4. PICK q : q \in {Idle, Continue(p), NotDeleted(p), Unsettled(p)} /\ Move(f, q)
  BY Zenon DEF SettleDeletion
<1>5. q \in Pass /\ WithinPage(q)' /\ PassOK(q)'
  <2>1. CASE q = Idle
    BY <1>2, <2>1, IdleSound, PassType, Zenon DEF Fenced, WithinPage, PassOK, Idle, TypeOK
  <2>2. CASE q # Idle
    BY <1>1, <1>2, <1>4, <2>2, OutcomeSound, Zenon
  <2> QED BY <2>1, <2>2
<1>6. /\ checked' \in [Listings -> Nat] /\ cursor' \in 0 .. Len(log') /\ faults' \in Nat
      /\ Len(log) <= Len(log)'
      /\ lease' \in [holder : Followers \union {NoOne}, live : BOOLEAN]
  BY <1>2 DEF Fenced, TypeOK
<1> QED BY <1>3, <1>4, <1>5, <1>6, PassMoved, Zenon

(* The check of a revived row is recorded and nothing else.                *)
LEMMA AttemptSound ==
    ASSUME Fenced, NEW f \in Followers, RecordRevivalAttempt(f)
    PROVE  Fenced'
<1>1. /\ pass[f] \in Pass /\ PassOK(pass[f]) /\ pass[f].pc = "attempt"
      /\ pass[f].listing \in Listings /\ pass[f].generation \in Nat
  BY PassType, Zenon DEF RecordRevivalAttempt, PassOK, Pass
<1>2. UNCHANGED <<log, row, cursor, lease, faults>>
  BY Zenon DEF RecordRevivalAttempt, Move
<1>3. checked' \in [Listings -> Nat]
  <2>1. checked \in [Listings -> Nat]
    BY PassType
  <2>2. Max({checked[pass[f].listing], pass[f].generation}) \in Nat
    BY <1>1, <2>1, MaxOfTwo
  <2> QED BY <2>1, <2>2, Zenon DEF RecordRevivalAttempt
<1>4. PICK q : q \in {Idle, Continue(pass[f])} /\ Move(f, q)
  BY Zenon DEF RecordRevivalAttempt
<1>5. q \in Pass /\ WithinPage(q)' /\ PassOK(q)'
  <2>1. CASE q = Idle
    BY <1>2, <2>1, IdleSound, PassType, Zenon DEF Fenced, WithinPage, PassOK, Idle, TypeOK
  <2>2. CASE q # Idle
    BY <1>1, <1>2, <1>4, <2>2, OutcomeSound, Zenon
  <2> QED BY <2>1, <2>2
<1>6. LogKept /\ RowsKept /\ \A l \in Listings : RowOK(l)'
  BY <1>2, NothingWritten
<1>7. /\ cursor' \in 0 .. Len(log') /\ faults' \in Nat /\ Len(log) <= Len(log)'
      /\ lease' \in [holder : Followers \union {NoOne}, live : BOOLEAN]
  BY <1>2 DEF Fenced, TypeOK
<1> QED BY <1>3, <1>4, <1>5, <1>6, <1>7, PassMoved, Zenon

(* record_poll moves the cursor under the lease or not at all.             *)
LEMMA PollSound ==
    ASSUME Fenced, NEW f \in Followers, RecordPoll(f)
    PROVE  Fenced'
<1>1. /\ pass[f] \in Pass /\ WithinPage(pass[f]) /\ pass[f].at \in Nat /\ pass[f].upto \in Nat
      /\ cursor \in Nat /\ cursor <= Len(log) /\ Len(log) \in Nat
  BY PassType, Zenon DEF Pass
<1>2. UNCHANGED <<log, row, checked, lease, faults>>
  BY DEF RecordPoll, Move
<1>3. cursor' \in 0 .. Len(log')
  <2>1. pass[f].at - 1 <= Len(log)
    BY <1>1, SMTT(60) DEF WithinPage
  <2>2. Max({cursor, pass[f].at - 1}) \in 0 .. Len(log)
    <3>1. CASE pass[f].at = 0
      <4>1. Max({cursor, 0 - 1}) = cursor
        BY <1>1 DEF Max
      <4> QED BY <1>1, <3>1, <4>1
    <3>2. CASE pass[f].at # 0
      BY <1>1, <2>1, <3>2, MaxOfTwo, SMTT(60)
    <3> QED BY <3>1, <3>2, Zenon
  <2> QED BY <1>1, <1>2, <2>2 DEF RecordPoll
<1>4. PICK pc \in {"release", "idle"} : Move(f, [Idle EXCEPT !.pc = pc])
  BY DEF RecordPoll
<1> DEFINE q == [Idle EXCEPT !.pc = pc]
<1>5. q \in Pass /\ WithinPage(q)' /\ PassOK(q)'
  <2>1. q \in Pass /\ q.pc = pc /\ q.at = 0 /\ q.upto = 0
    BY DEF Idle, Pass
  <2> HIDE DEF q
  <2> QED BY <1>1, <1>2, <2>1, SMTT(60) DEF WithinPage, PassOK
<1>6. LogKept /\ RowsKept /\ \A l \in Listings : RowOK(l)'
  BY <1>2, NothingWritten
<1>7. /\ checked' \in [Listings -> Nat] /\ faults' \in Nat /\ Len(log) <= Len(log)'
      /\ lease' \in [holder : Followers \union {NoOne}, live : BOOLEAN]
  BY <1>2 DEF Fenced, TypeOK
<1> HIDE DEF q
<1>8. Move(f, q)
  BY <1>4 DEF q
<1> QED BY <1>3, <1>5, <1>6, <1>7, <1>8, PassMoved, Zenon

(* A lease that lapses changes no row.                                     *)
LEMMA LapseSound ==
    ASSUME Fenced, LapseRunning \/ LapseLeft
    PROVE  Fenced'
<1>1. UNCHANGED <<log, row, checked, cursor, pass, session>> /\ faults' \in Nat
  BY DEF LapseRunning, LapseLeft, Fenced, TypeOK
<1>2. lease' \in [holder : Followers \union {NoOne}, live : BOOLEAN]
  BY Zenon DEF LapseRunning, LapseLeft, Fenced, TypeOK
<1>3. LogKept /\ RowsKept /\ \A l \in Listings : RowOK(l)'
  BY <1>1, NothingWritten
<1>4. /\ \A f \in Followers : PassOK(pass[f])'
      /\ \A s \in Sessions : SessionOK(session[s])'
  BY <1>1, <1>3, OthersKept
<1>5. TypeOK'
  BY <1>1, <1>2, Zenon DEF Fenced, TypeOK, WithinPage
<1> QED BY <1>3, <1>4, <1>5, Zenon DEF Fenced

-----------------------------------------------------------------------------
(* The steps of the commands and of the seller.                            *)

(* What the invariant says of one sync or register.                        *)
LEMMA SessionType ==
    ASSUME Fenced, NEW s \in Sessions
    PROVE  session[s] \in Session /\ SessionOK(session[s])
BY Zenon DEF Fenced, TypeOK

(* A command that only reads the rows and the log.                         *)
LEMMA CommandReads ==
    ASSUME Fenced, NEW s \in Sessions, NEW q \in Session, SessionOK(q),
           session' = [session EXCEPT ![s] = q],
           UNCHANGED <<log, row, checked, cursor, lease, pass, faults>>
    PROVE  Fenced'
<1>1. LogKept /\ RowsKept /\ \A l \in Listings : RowOK(l)'
  BY NothingWritten
<1>2. SessionOK(q)'
  BY Zenon DEF SessionOK, RecordSeen, Observed, Proved
<1> QED BY <1>1, <1>2, SessionMoved, Zenon

(* A sync or register that is over has nothing to be held to.              *)
LEMMA DoneSound == Done \in Session /\ SessionOK(Done) /\ SessionOK(Done)'
BY DEF Done, NewSession, Session, SessionOK

(* A sync or register reads the record before its transaction.             *)
LEMMA StartSound ==
    ASSUME Fenced, NEW s \in Sessions, NEW l \in Listings,
           NEW pc \in {"found", "missing", "register"}, Start(s, l, pc)
    PROVE  Fenced'
<1>1. PICK c : c = IF Published(l) THEN LatestEvent(l) ELSE 0
  OBVIOUS
<1>2. c \in Nat /\ RecordSeen(l, c)
  <2>1. CASE Published(l)
    <3>1. PICK d \in DOMAIN log : Latest(l, d) /\ log[d].kind = "PUT"
      BY <2>1, Zenon DEF Published
    <3>2. d \in 1 .. Len(log) /\ Len(log) \in Nat /\ LatestEvent(l) = d
      BY <3>1, LatestIsOne, Zenon DEF Fenced
    <3>3. log[d] \in Event
      BY <3>2 DEF Fenced, TypeOK
    <3>4. log[d] = [listing |-> l, kind |-> "PUT"]
      BY <3>1, <3>3, Zenon DEF Latest, Event
    <3> QED BY <1>1, <2>1, <3>2, <3>4 DEF RecordSeen
  <2>2. CASE ~Published(l)
    BY <1>1, <2>2, Zenon DEF RecordSeen
  <2> QED BY <2>1, <2>2
<1> DEFINE q == [pc |-> pc, listing |-> l, epoch |-> 0, found |-> 0, seen |-> c]
<1>3. q \in Session /\ SessionOK(q)
  BY <1>2, Zenon DEF Session, SessionOK
<1>4. session' = [session EXCEPT ![s] = q]
        /\ UNCHANGED <<log, row, checked, cursor, lease, pass, faults>>
  BY <1>1, Zenon DEF Start
<1> HIDE DEF q
<1> QED BY <1>3, <1>4, CommandReads, Zenon

(* The transaction of a command that accepts a record, retires the row or  *)
(* leaves it.                                                              *)
LEMMA CommitSound ==
    ASSUME Fenced, NEW s \in Sessions, NEW l \in Listings, NEW rows, Commit(s, rows),
           \/ rows = row
           \/ \E c \in Nat : RecordSeen(l, c) /\ rows = Accepted(l, c)
           \/ \E found, epoch \in Nat :
                 /\ Observed(l, epoch) /\ Proved(l, epoch, found)
                 /\ Retirable(l, found, epoch) /\ rows = Tombstoned(l, found)
    PROVE  Fenced'
<1>1. row' = rows /\ log' = log /\ session' = [session EXCEPT ![s] = Done]
        /\ UNCHANGED <<checked, cursor, lease, pass, faults>>
  BY Zenon DEF Commit
<1>2. LogKept /\ RowsKept /\ \A k \in Listings : RowOK(k)'
  <2>1. CASE rows = row
    BY <1>1, <2>1, NothingWritten, Zenon
  <2>2. CASE \E c \in Nat : RecordSeen(l, c) /\ rows = Accepted(l, c)
    BY <1>1, <2>2, AcceptedKept, Zenon
  <2>3. CASE \E found, epoch \in Nat :
                 /\ Observed(l, epoch) /\ Proved(l, epoch, found)
                 /\ Retirable(l, found, epoch) /\ rows = Tombstoned(l, found)
    BY <1>1, <2>3, TombstonedKept, Zenon
  <2> QED BY <2>1, <2>2, <2>3, Zenon
<1> QED BY <1>1, <1>2, DoneSound, SessionMoved, Zenon

(* Its transaction writes only what the row's revision still allows.       *)
LEMMA CommandsSound ==
    ASSUME Fenced, NEW s \in Sessions, CommandStep(s)
    PROVE  Fenced'
<1> DEFINE q == session[s]
           l == q.listing
<1>1. q \in Session /\ SessionOK(q) /\ q.seen \in Nat /\ q.epoch \in Nat /\ q.found \in Nat
  BY SessionType, Zenon DEF Session
<1>2. ASSUME NEW k \in Listings, SyncFetch(s, k) \/ RegisterPrefetch(s, k) PROVE Fenced'
  BY <1>2, StartSound DEF SyncFetch, RegisterPrefetch
<1>3. CASE SyncFound(s)
  <2>1. l \in Listings /\ RecordSeen(l, q.seen)
    BY <1>1, <1>3, Zenon DEF SyncFound, SessionOK
  <2> QED BY <1>1, <1>3, <2>1, CommitSound, Zenon DEF SyncFound
<1>4. CASE Register(s)
  <2>1. l \in Listings /\ RecordSeen(l, q.seen)
    BY <1>1, <1>4, Zenon DEF Register, SessionOK
  <2>2. PICK rows : Commit(s, rows) /\ (rows = row \/ rows = Accepted(l, q.seen)
                                                  \/ rows = Accepted(l, 0))
    BY <1>4, Zenon DEF Register
  <2>3. RecordSeen(l, 0)
    BY Zenon DEF RecordSeen
  <2> QED BY <1>1, <2>1, <2>2, <2>3, CommitSound, Zenon
<1>5. CASE SyncObserve(s)
  <2>1. l \in Listings /\ row[l].epoch \in Nat
    BY <1>1, <1>5, Zenon DEF SyncObserve, SessionOK, Fenced, TypeOK, Row
  <2> DEFINE r == [q EXCEPT !.pc = "events", !.epoch = row[l].epoch]
  <2>2. row[l].state = "live" => r \in Session /\ SessionOK(r)
    <3>1. r \in Session
      BY <1>1, <2>1, Zenon DEF Session
    <3>2. r.pc = "events" /\ r.listing = l /\ r.epoch = row[l].epoch
      BY <1>1 DEF Session
    <3> HIDE DEF r
    <3> QED BY <2>1, <3>1, <3>2 DEF SessionOK, Observed
  <2>3. \/ session' = [session EXCEPT ![s] = r] /\ row[l].state = "live"
        \/ session' = [session EXCEPT ![s] = Done]
    BY <1>5, Zenon DEF SyncObserve, Fenced, TypeOK
  <2>4. UNCHANGED <<log, row, checked, cursor, lease, pass, faults>>
    BY <1>5 DEF SyncObserve
  <2> HIDE DEF r
  <2> QED BY <2>2, <2>3, <2>4, DoneSound, CommandReads, Zenon
<1>6. CASE SyncConfirm(s)
  <2>1. l \in Listings /\ Observed(l, q.epoch)
    BY <1>1, <1>6 DEF SyncConfirm, SessionOK
  <2> DEFINE r == [q EXCEPT !.pc = "write", !.found = LatestEvent(l)]
  <2>2. LatestEventIsDelete(l) => r \in Session /\ SessionOK(r)
    <3> SUFFICES ASSUME LatestEventIsDelete(l) PROVE r \in Session /\ SessionOK(r)
      OBVIOUS
    <3>1. LatestEvent(l) \in Nat /\ Proved(l, q.epoch, LatestEvent(l))
      BY <2>1, DeleteProved, Zenon
    <3>2. r \in Session
      BY <1>1, <3>1, Zenon DEF Session
    <3>3. r.pc = "write" /\ r.listing = l /\ r.epoch = q.epoch /\ r.found = LatestEvent(l)
      BY <1>1 DEF Session
    <3> HIDE DEF r
    <3> QED BY <2>1, <3>1, <3>2, <3>3, Zenon DEF SessionOK
  <2>3. \/ session' = [session EXCEPT ![s] = r] /\ LatestEventIsDelete(l)
        \/ session' = [session EXCEPT ![s] = Done]
    BY <1>6, Zenon DEF SyncConfirm, Fenced, TypeOK
  <2>4. UNCHANGED <<log, row, checked, cursor, lease, pass, faults>>
    BY <1>6 DEF SyncConfirm
  <2> HIDE DEF r
  <2> QED BY <2>2, <2>3, <2>4, DoneSound, CommandReads, Zenon
<1>7. CASE SyncTombstone(s)
  <2>1. l \in Listings /\ Observed(l, q.epoch) /\ Proved(l, q.epoch, q.found)
    BY <1>1, <1>7, Zenon DEF SyncTombstone, SessionOK
  <2>2. PICK rows : /\ Commit(s, rows)
                    /\ \/ rows = row
                       \/ rows = Tombstoned(l, q.found) /\ Retirable(l, q.found, q.epoch)
    BY <1>7, Zenon DEF SyncTombstone
  <2> QED BY <1>1, <2>1, <2>2, CommitSound, Zenon
<1> QED BY <1>2, <1>3, <1>4, <1>5, <1>6, <1>7, Zenon DEF CommandStep

(* The log only grows.                                                     *)
LEMMA SellerSound ==
    ASSUME Fenced, NEW l \in Listings, NEW kind \in {"PUT", "DEL"}, SellerWrites(l, kind)
    PROVE  Fenced'
<1>1. TypeOK /\ log \in Seq(Event) /\ Len(log) \in Nat
  BY DEF Fenced, TypeOK
<1>2. log' = Append(log, [listing |-> l, kind |-> kind])
        /\ UNCHANGED <<row, checked, cursor, lease, pass, session, faults>>
  BY Zenon DEF SellerWrites
<1>3. /\ log' \in Seq(Event) /\ Len(log') = Len(log) + 1
      /\ DOMAIN log = 1 .. Len(log) /\ DOMAIN log' = 1 .. Len(log')
      /\ \A c \in 1 .. Len(log) : log'[c] = log[c]
  <2>1. [listing |-> l, kind |-> kind] \in Event
    BY DEF Event
  <2> QED BY <1>1, <1>2, <2>1, AppendProperties
<1>4. LogKept
  BY <1>1, <1>3 DEF LogKept
<1>5. RowsKept
  <2>1. row \in [Listings -> Row]
    BY <1>1, Zenon DEF TypeOK
  <2>2. \A k \in Listings : row[k].epoch \in Nat
    BY <2>1 DEF Row
  <2> QED BY <1>2, <2>1, <2>2 DEF RowsKept
<1>6. \A k \in Listings : RowOK(k)'
  BY <1>2, <1>4, Zenon DEF Fenced, RowOK, RecordSeen, LogKept
<1>7. /\ \A f \in Followers : PassOK(pass[f])'
      /\ \A s \in Sessions : SessionOK(session[s])'
  BY <1>2, <1>4, <1>5, OthersKept, Zenon
<1>8. TypeOK'
  <2>1. ASSUME NEW f \in Followers PROVE WithinPage(pass[f])'
    <3>1. pass[f] \in Pass /\ WithinPage(pass[f]) /\ pass[f].upto \in Nat
      BY PassType, Zenon DEF Pass
    <3> QED BY <1>1, <1>2, <1>3, <3>1, SMTT(60) DEF WithinPage
  <2>2. cursor' \in 0 .. Len(log')
    BY <1>1, <1>2, <1>3, SMTT(60) DEF TypeOK
  <2> QED BY <1>1, <1>2, <1>3, <2>1, <2>2, Zenon DEF TypeOK
<1> QED BY <1>6, <1>7, <1>8, Zenon DEF Fenced

(* Nothing is deleted, read or observed at the start.                      *)
LEMMA InitFenced == Init => Fenced
<1> SUFFICES ASSUME Init PROVE Fenced
  OBVIOUS
<1>1. NoRow \in Row /\ Idle \in Pass /\ NewSession \in Session
  BY Zenon DEF NoRow, Row, Idle, Pass, NewSession, Session
<1>2. log = << >> /\ Len(log) = 0 /\ log \in Seq(Event)
  BY DEF Init
<1>3. \A f \in Followers : pass[f] = Idle
  BY Zenon DEF Init
<1>4. TypeOK
  <2>1. \A f \in Followers : WithinPage(pass[f])
    BY <1>2, <1>3 DEF WithinPage, Idle
  <2>2. lease \in [holder : Followers \union {NoOne}, live : BOOLEAN]
    BY Zenon DEF Init
  <2> QED BY <1>1, <1>2, <2>1, <2>2 DEF Init, TypeOK
<1>5. \A l \in Listings : RowOK(l)
  BY Zenon DEF Init, RowOK, RecordSeen, NoRow
<1>6. \A f \in Followers : PassOK(pass[f])
  BY <1>3, SMTT(60) DEF PassOK, Idle
<1>7. \A s \in Sessions : SessionOK(session[s])
  BY Zenon DEF Init, SessionOK, NewSession
<1> QED BY <1>4, <1>5, <1>6, <1>7 DEF Fenced

(* The invariant is inductive: one lemma for each kind of step.            *)
LEMMA NextFenced == Fenced /\ [Next]_vars => Fenced'
<1> SUFFICES ASSUME Fenced, [Next]_vars PROVE Fenced'
  OBVIOUS
<1>1. CASE \E l \in Listings, kind \in {"PUT", "DEL"} : SellerWrites(l, kind)
  BY <1>1, SellerSound
<1>2. CASE \E s \in Sessions : CommandStep(s)
  BY <1>2, CommandsSound
<1>3. ASSUME NEW f \in Followers, FollowerStep(f) PROVE Fenced'
  <2>1. CASE \E l \in Listings : CheckRevival(f, l)
    BY <2>1, CheckRevivalSound
  <2>2. CASE BeginPass(f) \/ ReadPage(f) \/ NextEvent(f) \/ Observe(f)
    BY <2>2, BeginPassSound, ReadPageSound, NextEventSound, ObserveSound, Zenon
  <2>3. CASE ConfirmDeleted(f) \/ SettleDeletion(f)
    BY <2>3, ConfirmSound, SettleSound, Zenon
  <2>4. CASE RecordRevivalAttempt(f) \/ RecordPoll(f) \/ ReleaseLease(f)
    BY <2>4, AttemptSound, PollSound, EndingSound, Zenon
  <2> QED BY <1>3, <2>1, <2>2, <2>3, <2>4, Zenon DEF FollowerStep
<1>4. ASSUME NEW f \in Followers,
             Unavailable(f) \/ CutPass(f) \/ RevivalsOutOfTime(f) \/ NoEvents(f)
      PROVE  Fenced'
  BY <1>4, UnavailableSound, EndingSound
<1>5. CASE LapseRunning \/ LapseLeft
  BY <1>5, LapseSound
<1>6. CASE UNCHANGED vars
  <2>1. UNCHANGED <<log, row, checked, cursor, lease, pass, session, faults>>
    BY <1>6 DEF vars
  <2>2. LogKept /\ RowsKept /\ \A l \in Listings : RowOK(l)'
    BY <2>1, NothingWritten
  <2>3. /\ \A f \in Followers : PassOK(pass[f])'
        /\ \A s \in Sessions : SessionOK(session[s])'
    BY <2>1, <2>2, OthersKept, Zenon
  <2>4. TypeOK'
    BY <2>1, Zenon DEF Fenced, TypeOK, WithinPage
  <2> QED BY <2>2, <2>3, <2>4, Zenon DEF Fenced
<1> QED BY <1>1, <1>2, <1>3, <1>4, <1>5, <1>6, Zenon DEF Next

(* The columns of the rows, of the passes and of the commands keep their   *)
(* domains, and the follower's cursor stays within the homeserver's log.   *)
THEOREM DeletionTypeCorrect == Spec => []TypeOK
<1>1. Fenced => TypeOK
  BY DEF Fenced
<1> QED BY <1>1, InitFenced, NextFenced, PTL DEF Spec

(* No tombstone is older than a record the service accepted: the epoch     *)
(* compared by tombstone's update is enough, whatever register, sync and   *)
(* other passes do between the proof of a delete and its write.            *)
THEOREM TombstonesAreNewer == Spec => []DeletedIsNewer
<1>1. Fenced => DeletedIsNewer
  BY Zenon DEF Fenced, RowOK, DeletedIsNewer
<1> QED BY <1>1, InitFenced, NextFenced, PTL DEF Spec

-----------------------------------------------------------------------------
(* The inductive invariant behind NothingSkipped.                          *)

(* The record's latest event is the delete at position c.                  *)
Gone(l, c) == c \in DOMAIN log /\ Latest(l, c) /\ log[c].kind = "DEL"

(* A live row the seller deleted at c, which no registration after c       *)
(* explains.                                                               *)
Orphan(l, c) ==
    /\ row[l].state = "live" /\ Gone(l, c)
    /\ row[l].revivedFrom # 0 \/ row[l].registered < c

(* Every such delete up to position n has its revival check due.           *)
Answered(n) ==
    \A l \in Listings, c \in Nat : Orphan(l, c) /\ c <= n => l \in DueRevivals

(* A revival check covers a generation the row has had, and a revival      *)
(* names the event it revived from.                                        *)
RowFollows(l) ==
    /\ checked[l] <= row[l].generation
    /\ row[l].state = "none" => row[l].generation = 0
    /\ \/ row[l].revivedFrom = 0
       \/ row[l].revivedFrom \in DOMAIN log /\ log[row[l].revivedFrom].listing = l

(* What a pass relies on.  Its own observation: the generation it saw, the *)
(* delete it found.  And, while it holds the lease, that it answered       *)
(* everything before its position, or that no delete up to the cursor      *)
(* waits for the check it is about to record.                              *)
Follows(holds, p) ==
    /\ p.pc \in {"page", "poll"} => p.mode = "event"
    /\ p.pc = "attempt" => p.mode = "revival"
    /\ p.pc \in {"confirm", "write", "attempt"} => p.generation <= row[p.listing].generation
    /\ p.pc = "write" /\ row[p.listing].epoch = p.epoch
          => row[p.listing].revivedFrom <= p.found
    /\ p.mode = "event" /\ p.pc \in {"observe", "confirm", "write"}
          => p.at \in DOMAIN log /\ log[p.at].listing = p.listing
    /\ holds /\ p.mode = "event" /\ p.pc \in {"page", "observe", "confirm", "write", "poll"}
          => Answered(p.at - 1)
    /\ holds /\ p.pc = "attempt" /\ row[p.listing].generation = p.generation
          => \A c \in Nat : Orphan(p.listing, c) => c > cursor

(* NothingSkipped with what makes it inductive.  That only the holder of   *)
(* the lease moves the cursor or records a check is what keeps two         *)
(* followers from covering for each other.                                 *)
FollowInv ==
    /\ Fenced
    /\ \A l \in Listings : RowFollows(l)
    /\ Answered(cursor)
    /\ \A f \in Followers : Follows(Holds(f), pass[f])

(* What a step that only moves rows and log forward leaves to the passes:  *)
(* a generation never falls, and a delete that becomes an orphan is due.   *)
RowsFollow ==
    \A l \in Listings :
        /\ row'[l].generation >= row[l].generation
        /\ row[l].state # "none" /\ row'[l].epoch = row[l].epoch
              => row'[l].revivedFrom = row[l].revivedFrom
        /\ RowFollows(l)'
        /\ \A c \in 1 .. Len(log) :
              /\ Orphan(l, c)' /\ l \notin DueRevivals' => Orphan(l, c) /\ l \notin DueRevivals
              /\ Orphan(l, c)' /\ row'[l].generation = row[l].generation => Orphan(l, c)

(* What is answered up to the cursor is what NothingSkipped asks.          *)
LEMMA AnsweredMeans ==
    ASSUME FollowInv
    PROVE  NothingSkipped
<1> SUFFICES ASSUME NEW l \in Listings, Orphaned(l), LatestEvent(l) <= cursor
             PROVE  l \in DueRevivals
  BY DEF NothingSkipped
<1>1. PICK c \in DOMAIN log : Latest(l, c) /\ log[c].kind = "DEL"
  BY Zenon DEF Orphaned, LatestEventIsDelete
<1>2. LatestEvent(l) = c /\ c \in Nat
  BY <1>1, LatestIsOne, SMTT(60) DEF FollowInv, Fenced
<1>3. Orphan(l, c)
  BY <1>1, <1>2, Zenon DEF Orphaned, Orphan, Gone
<1> QED
  BY <1>2, <1>3, Zenon DEF FollowInv, Answered

(* A delete that was answered stays answered when rows and log only move   *)
(* on.                                                                     *)
LEMMA StillAnswered ==
    ASSUME TypeOK, LogKept, RowsFollow, NEW n \in Int, n <= Len(log), Answered(n)
    PROVE  Answered(n)'
<1> SUFFICES ASSUME NEW l \in Listings, NEW c \in Nat, Orphan(l, c)', c <= n,
                    l \notin DueRevivals'
             PROVE  FALSE
  BY Zenon DEF Answered
<1>1. Len(log) \in Nat
  BY DEF TypeOK
<1>2. c # 0
  <2>1. c \in DOMAIN log' /\ log' \in Seq(Event)
    BY Zenon DEF Orphan, Gone, LogKept
  <2> QED
    BY <2>1
<1>3. c \in 1 .. Len(log)
  BY <1>1, <1>2
<1>4. Orphan(l, c) /\ l \notin DueRevivals
  BY <1>3, Zenon DEF RowsFollow
<1> QED
  BY <1>4 DEF Answered

(* So does what a pass relies on, as long as it did not gain the lease.    *)
LEMMA StillFollows ==
    ASSUME FollowInv, LogKept, RowsKept, RowsFollow, Len(log) <= Len(log)', cursor' = cursor,
           NEW p \in Pass, WithinPage(p), PassOK(p),
           NEW holds \in BOOLEAN, NEW still \in BOOLEAN, still => holds, Follows(holds, p)
    PROVE  Follows(still, p)'
<1>1. /\ TypeOK /\ Len(log) \in Nat /\ cursor \in Nat /\ cursor <= Len(log)
      /\ row \in [Listings -> Row] /\ row' \in [Listings -> Row]
  BY SMTT(60) DEF FollowInv, Fenced, TypeOK, RowsKept
<1>2. /\ p.at \in Nat /\ p.upto \in Nat /\ p.at - 1 <= Len(log) /\ p.at - 1 \in Int
      /\ p.generation \in Nat /\ p.epoch \in Nat /\ p.found \in Nat
  BY <1>1, SMTT(60) DEF Pass, WithinPage
<1>3. p.pc \in {"confirm", "write", "attempt"} =>
         /\ p.listing \in Listings
         /\ row[p.listing].generation \in Nat /\ row'[p.listing].generation \in Nat
         /\ row'[p.listing].generation >= row[p.listing].generation
  BY <1>1, Zenon DEF PassOK, Row, RowsFollow
<1>4. p.pc \in {"confirm", "write", "attempt"} => p.generation <= row'[p.listing].generation
  <2>1. p.pc \in {"confirm", "write", "attempt"} => p.generation <= row[p.listing].generation
    BY Zenon DEF Follows
  <2> QED
    BY <1>2, <1>3, <2>1, SMTT(60)
<1>5. p.pc = "write" /\ row'[p.listing].epoch = p.epoch => row'[p.listing].revivedFrom <= p.found
  <2> SUFFICES ASSUME p.pc = "write", row'[p.listing].epoch = p.epoch
               PROVE  row'[p.listing].revivedFrom <= p.found
    BY Zenon
  <2>1. /\ p.listing \in Listings /\ row[p.listing].state # "none"
        /\ p.epoch <= row[p.listing].epoch
    BY Zenon DEF PassOK, Observed
  <2>2. row'[p.listing].epoch >= row[p.listing].epoch /\ row[p.listing].epoch \in Nat
    BY <1>1, <2>1, Zenon DEF RowsKept, Row
  <2>3. row[p.listing].epoch = p.epoch
    BY <1>2, <2>1, <2>2, SMTT(60)
  <2>4. row'[p.listing].revivedFrom = row[p.listing].revivedFrom
    BY <2>1, <2>3, Zenon DEF RowsFollow
  <2> QED
    BY <2>3, <2>4, Zenon DEF Follows
<1>6. p.mode = "event" /\ p.pc \in {"observe", "confirm", "write"}
         => p.at \in DOMAIN log' /\ log'[p.at].listing = p.listing
  BY Zenon DEF Follows, LogKept
<1>7. still /\ p.mode = "event" /\ p.pc \in {"page", "observe", "confirm", "write", "poll"}
         => Answered(p.at - 1)'
  BY <1>1, <1>2, StillAnswered, Zenon DEF Follows
<1>8. ASSUME still, p.pc = "attempt", row'[p.listing].generation = p.generation,
             NEW c \in Nat, Orphan(p.listing, c)'
      PROVE  c > cursor'
  <2>1. p.listing \in Listings /\ p.generation <= row[p.listing].generation
    BY <1>3, <1>8, Zenon DEF Follows
  <2>2. row[p.listing].generation = p.generation
    BY <1>2, <1>3, <1>8, <2>1, SMTT(60)
  <2>3. c \in DOMAIN log' /\ log' \in Seq(Event)
    BY <1>8, Zenon DEF Orphan, Gone, LogKept
  <2>4. c >= 1
    BY <2>3
  <2>5. CASE c <= Len(log)
    <3>1. Orphan(p.listing, c)
      BY <1>1, <1>8, <2>1, <2>2, <2>4, <2>5 DEF RowsFollow
    <3> QED
      BY <1>8, <2>2, <3>1, Zenon DEF Follows
  <2>6. CASE c > Len(log)
    BY <1>1, <2>6
  <2> QED
    BY <1>1, <2>5, <2>6
<1>9. /\ p.pc \in {"page", "poll"} => p.mode = "event"
      /\ p.pc = "attempt" => p.mode = "revival"
  BY Zenon DEF Follows
<1> QED
  BY <1>4, <1>5, <1>6, <1>7, <1>8, <1>9, Zenon DEF Follows

(* A step that writes the pass of one follower: the others keep what they  *)
(* rely on.                                                                *)
LEMMA PassesFollow ==
    ASSUME FollowInv, Fenced', LogKept, RowsKept, RowsFollow, Len(log) <= Len(log)',
           cursor' = cursor,
           \A f \in Followers : \/ pass'[f] = pass[f] /\ (Holds(f)' => Holds(f))
                                \/ Follows(Holds(f), pass[f])'
    PROVE  FollowInv'
<1>1. Answered(cursor)'
  <2>1. TypeOK /\ cursor \in Int /\ cursor <= Len(log) /\ Answered(cursor)
    BY SMTT(60) DEF FollowInv, Fenced, TypeOK
  <2>2. PICK n \in Int : n = cursor
    BY <2>1, Zenon
  <2>3. Answered(n)'
    BY <2>1, <2>2, StillAnswered, Zenon
  <2> QED
    BY <2>2, <2>3, Zenon DEF Answered
<1>2. ASSUME NEW f \in Followers PROVE Follows(Holds(f), pass[f])'
  <2>1. pass[f] \in Pass /\ WithinPage(pass[f]) /\ PassOK(pass[f]) /\ Follows(Holds(f), pass[f])
    BY Zenon DEF FollowInv, Fenced, TypeOK
  <2>2. CASE pass'[f] = pass[f] /\ (Holds(f)' => Holds(f))
    <3>1. PICK p \in Pass : p = pass[f]
      BY <2>1, Zenon
    <3>2. PICK still \in BOOLEAN : still = Holds(f)'
      BY Zenon DEF Holds
    <3>3. PICK holds \in BOOLEAN : holds = Holds(f)
      BY Zenon DEF Holds
    <3>4. Follows(still, p)'
      <4>1. /\ WithinPage(p) /\ PassOK(p) /\ Follows(holds, p)
            /\ still => holds
        BY <2>1, <2>2, <3>1, <3>2, <3>3, Zenon
      <4> QED
        BY <4>1, StillFollows, Zenon
    <3> QED
      BY <2>2, <3>1, <3>2, <3>4, Zenon DEF Follows
  <2> QED
    BY <2>2, Zenon
<1>3. \A l \in Listings : RowFollows(l)'
  BY Zenon DEF RowsFollow
<1> QED
  BY <1>1, <1>2, <1>3, Zenon DEF FollowInv

(* The types the steps below need.                                         *)
LEMMA FollowTypes ==
    ASSUME FollowInv
    PROVE  /\ TypeOK /\ log \in Seq(Event) /\ Len(log) \in Nat /\ DOMAIN log = 1 .. Len(log)
           /\ row \in [Listings -> Row] /\ checked \in [Listings -> Nat]
           /\ cursor \in Nat /\ cursor <= Len(log)
           /\ \A l \in Listings :
                 /\ row[l] \in Row /\ checked[l] \in Nat /\ RowFollows(l) /\ RowOK(l)
                 /\ row[l].generation \in Nat /\ row[l].epoch \in Nat
                 /\ row[l].revivedFrom \in Nat /\ row[l].deletedAt \in Nat
                 /\ row[l].registered \in Nat /\ row[l].state \in {"none", "live", "deleted"}
BY SMTT(60) DEF FollowInv, Fenced, TypeOK, Row

(* A step that writes neither rows nor log nor checks.                     *)
LEMMA RowsUntouched ==
    ASSUME FollowInv, UNCHANGED <<log, row, checked>>
    PROVE  RowsFollow
<1>1. \A l \in Listings : row[l].generation \in Nat /\ RowFollows(l)
  BY FollowTypes, Zenon
<1>2. \A l \in Listings : RowFollows(l)'
  BY <1>1, Zenon DEF RowFollows
<1>3. \A l \in Listings, c \in Nat : Orphan(l, c)' <=> Orphan(l, c)
  BY ZenonT(60) DEF Orphan, Gone, Latest
<1>4. DueRevivals' = DueRevivals
  BY Zenon DEF DueRevivals
<1>5. Len(log) \in Nat
  BY FollowTypes, Zenon
<1> QED
  BY <1>1, <1>2, <1>3, <1>4, <1>5, SMTT(60) DEF RowsFollow

(* A new event of the log lies past every cursor.                          *)
LEMMA LogGrows ==
    ASSUME FollowInv, LogKept, Len(log') = Len(log) + 1, UNCHANGED <<row, checked>>
    PROVE  RowsFollow
<1>1. /\ Len(log) \in Nat /\ DOMAIN log = 1 .. Len(log) /\ DOMAIN log' = 1 .. Len(log')
      /\ \A l \in Listings : row[l].generation \in Nat /\ RowFollows(l)
  BY FollowTypes, SMTT(60) DEF LogKept
<1>2. \A l \in Listings : RowFollows(l)'
  BY <1>1, Zenon DEF RowFollows, LogKept
<1>3. ASSUME NEW l \in Listings, NEW c \in 1 .. Len(log), Orphan(l, c)' PROVE Orphan(l, c)
  <2>1. Latest(l, c)' /\ log'[c].kind = "DEL" /\ c \in DOMAIN log /\ log'[c] = log[c]
    BY <1>1, <1>3, Zenon DEF Orphan, Gone, LogKept
  <2>2. ASSUME NEW d \in c + 1 .. Len(log) PROVE log[d].listing # l
    <3>1. d \in c + 1 .. Len(log') /\ d \in DOMAIN log
      BY <1>1
    <3> QED
      BY <2>1, <3>1, Zenon DEF Latest, LogKept
  <2>3. Latest(l, c)
    BY <2>1, <2>2, Zenon DEF Latest
  <2> QED
    BY <1>3, <2>1, <2>3, Zenon DEF Orphan, Gone
<1>4. DueRevivals' = DueRevivals
  BY Zenon DEF DueRevivals
<1> QED
  BY <1>1, <1>2, <1>3, <1>4, SMTT(60) DEF RowsFollow

(* A step that writes one row.                                             *)
LEMMA OneRowFollows ==
    ASSUME FollowInv, UNCHANGED <<log, checked>>, NEW l \in Listings, RowFollows(l)',
           \A k \in Listings \ {l} : row'[k] = row[k],
           row'[l].generation >= row[l].generation,
           row[l].state # "none" /\ row'[l].epoch = row[l].epoch
              => row'[l].revivedFrom = row[l].revivedFrom,
           \A c \in 1 .. Len(log) : Orphan(l, c)' =>
              \/ l \in DueRevivals' /\ row'[l].generation # row[l].generation
              \/ Orphan(l, c) /\ (l \in DueRevivals' <=> l \in DueRevivals)
    PROVE  RowsFollow
<1>1. Len(log) \in Nat /\ \A k \in Listings : row[k].generation \in Nat /\ RowFollows(k)
  BY FollowTypes, Zenon
<1>2. ASSUME NEW k \in Listings \ {l}
      PROVE  /\ row'[k].generation >= row[k].generation
             /\ row[k].state # "none" /\ row'[k].epoch = row[k].epoch
                   => row'[k].revivedFrom = row[k].revivedFrom
             /\ RowFollows(k)'
             /\ k \in DueRevivals' <=> k \in DueRevivals
             /\ \A c \in 1 .. Len(log) : Orphan(k, c)' => Orphan(k, c)
  <2>1. RowFollows(k)'
    BY <1>1, Zenon DEF RowFollows
  <2>2. k \in DueRevivals' <=> k \in DueRevivals
    BY Zenon DEF DueRevivals
  <2>3. \A c \in 1 .. Len(log) : Orphan(k, c)' => Orphan(k, c)
    BY Zenon DEF Orphan, Gone, Latest
  <2> QED
    BY <1>1, <2>1, <2>2, <2>3, SMTT(60)
<1> QED
  BY <1>2, Zenon DEF RowsFollow

(* The first record of a row is registered after every event so far; one   *)
(* that revives the row raises its generation, so that its check is due;   *)
(* any other leaves both (apply_registration, confirm_record).             *)
LEMMA AcceptedFollows ==
    ASSUME FollowInv, UNCHANGED <<log, checked>>, NEW l \in Listings, NEW c \in Nat,
           row' = Accepted(l, c)
    PROVE  RowsFollow
<1> DEFINE old == row[l]
           new == row'[l]
<1>1. /\ row \in [Listings -> Row] /\ Len(log) \in Nat /\ old \in Row
      /\ old.generation \in Nat /\ old.revivedFrom \in Nat /\ old.deletedAt \in Nat
      /\ old.epoch \in Nat /\ checked[l] \in Nat /\ RowFollows(l) /\ RowOK(l)
      /\ old.state \in {"none", "live", "deleted"} /\ DOMAIN log = 1 .. Len(log)
  BY FollowTypes, Zenon
<1>2. \A k \in Listings \ {l} : row'[k] = row[k]
  BY <1>1, Zenon DEF Accepted
<1>3. CASE old.state = "none"
  <2>1. new = [NoRow EXCEPT !.state = "live", !.record = c, !.registered = Len(log)]
    BY <1>1, <1>3 DEF Accepted
  <2>2. new.generation = 0 /\ new.revivedFrom = 0 /\ new.registered = Len(log)
           /\ new.state = "live"
    BY <2>1 DEF NoRow
  <2>3. old.generation = 0 /\ checked[l] <= 0
    BY <1>1, <1>3, Zenon DEF RowFollows
  <2> HIDE DEF new
  <2>4. RowFollows(l)'
    BY <2>2, <2>3, Zenon DEF RowFollows, new
  <2>5. \A d \in 1 .. Len(log) : ~Orphan(l, d)'
    BY <1>1, <2>2, SMTT(60) DEF Orphan, new
  <2> QED
    BY <1>2, <1>3, <2>2, <2>3, <2>4, <2>5, OneRowFollows, SMTT(60) DEF new
<1>4. CASE old.state = "deleted"
  <2>1. PICK m : m = Max({old.revivedFrom, old.deletedAt})
    BY Zenon
  <2>2. m \in {old.revivedFrom, old.deletedAt} /\ m >= old.deletedAt /\ m \in Nat
    BY <1>1, <2>1, MaxOfTwo, SMTT(60)
  <2>3. new = [old EXCEPT !.state = "live", !.deletedAt = 0, !.revivedFrom = m,
                          !.epoch = @ + 1, !.generation = @ + 1, !.record = c]
    BY <1>1, <1>4, <2>1 DEF Accepted
  <2>4. /\ new.generation = old.generation + 1 /\ new.revivedFrom = m /\ new.state = "live"
        /\ new.epoch = old.epoch + 1
    BY <1>1, <2>3 DEF Row
  <2>5. old.deletedAt \in 1 .. Len(log) /\ log[old.deletedAt].listing = l
    BY <1>1, <1>4, SMTT(60) DEF RowOK
  <2>6. m # 0 /\ m \in DOMAIN log /\ log[m].listing = l
    BY <1>1, <2>2, <2>5, SMTT(60) DEF RowFollows
  <2>7. checked[l] <= old.generation
    BY <1>1, Zenon DEF RowFollows
  <2> HIDE DEF new, old
  <2>8. RowFollows(l)'
    BY <1>1, <2>4, <2>6, <2>7, SMTT(60) DEF RowFollows, new
  <2>9. l \in DueRevivals'
    BY <1>1, <2>4, <2>6, <2>7, SMTT(60) DEF DueRevivals, new
  <2>10. new.generation >= old.generation /\ new.generation # old.generation
            /\ new.epoch # old.epoch
    BY <1>1, <2>4, SMTT(60)
  <2> QED
    BY <1>2, <2>8, <2>9, <2>10, OneRowFollows, Zenon DEF new, old
<1>5. CASE old.state = "live"
  <2>1. PICK m : m = Max({old.record, c})
    BY Zenon
  <2>2. new = [old EXCEPT !.epoch = @ + 1, !.record = m]
    BY <1>1, <1>5, <2>1, Zenon DEF Accepted
  <2>3. /\ new.generation = old.generation /\ new.revivedFrom = old.revivedFrom
        /\ new.state = old.state /\ new.registered = old.registered
    BY <1>1, <2>2 DEF Row
  <2> HIDE DEF new, old
  <2>4. RowFollows(l)'
    BY <1>1, <2>3, Zenon DEF RowFollows, new, old
  <2>5. l \in DueRevivals' <=> l \in DueRevivals
    BY <2>3, Zenon DEF DueRevivals, new, old
  <2>6. \A d \in 1 .. Len(log) : Orphan(l, d)' => Orphan(l, d)
    BY <2>3, Zenon DEF Orphan, Gone, Latest, new, old
  <2>7. new.generation >= old.generation
    BY <1>1, <2>3, SMTT(60)
  <2> QED
    BY <1>2, <2>3, <2>4, <2>5, <2>6, <2>7, OneRowFollows, Zenon DEF new, old
<1> QED
  BY <1>1, <1>3, <1>4, <1>5, Zenon

(* A tombstone takes the row out of sight.                                 *)
LEMMA TombstonedFollows ==
    ASSUME FollowInv, UNCHANGED <<log, checked>>, NEW l \in Listings, NEW found \in Nat,
           row' = Tombstoned(l, found)
    PROVE  RowsFollow /\ row'[l].state = "deleted"
<1>1. row \in [Listings -> Row] /\ row[l] \in Row /\ row[l].generation \in Nat /\ RowFollows(l)
  BY FollowTypes, Zenon
<1>2. \A k \in Listings \ {l} : row'[k] = row[k]
  BY <1>1 DEF Tombstoned
<1>3. row'[l] = [row[l] EXCEPT !.state = "deleted", !.deletedAt = found]
  BY <1>1 DEF Tombstoned
<1>4. /\ row'[l].state = "deleted" /\ row'[l].generation = row[l].generation
      /\ row'[l].revivedFrom = row[l].revivedFrom
  BY <1>1, <1>3 DEF Row
<1>5. RowFollows(l)'
  BY <1>1, <1>4, Zenon DEF RowFollows
<1>6. \A c \in 1 .. Len(log) : ~Orphan(l, c)'
  BY <1>4, Zenon DEF Orphan
<1> QED
  BY <1>1, <1>2, <1>4, <1>5, <1>6, OneRowFollows, SMTT(60)

(* Where Continue and Idle put a pass.                                     *)
LEMMA Shapes ==
    ASSUME NEW p \in Pass
    PROVE  /\ p.mode = "revival" =>
                 /\ Continue(p).pc = "revivals" /\ Unsettled(p).pc = "revivals"
                 /\ LET q == NotDeleted(p)
                    IN  /\ q.pc = "attempt" /\ q.mode = "revival" /\ q.listing = p.listing
                        /\ q.generation = p.generation
           /\ p.mode = "event" =>
                 /\ NotDeleted(p) = Continue(p)
                 /\ Continue(p).pc = "page" /\ Continue(p).mode = "event"
                 /\ Continue(p).at = p.at + 1
                 /\ Unsettled(p).pc = "poll" /\ Unsettled(p).mode = "event"
                 /\ Unsettled(p).at = p.at
<1> DEFINE r == Settled(p)
<1>1. /\ r \in Pass /\ r.mode = p.mode /\ r.at = p.at
  BY Zenon DEF Settled, Pass
<1> HIDE DEF r
<1>2. CASE p.mode = "revival"
  <2>1. Continue(p) = [r EXCEPT !.pc = "revivals"] /\ Unsettled(p) = [r EXCEPT !.pc = "revivals"]
    BY <1>2 DEF Continue, Unsettled, r
  <2>2. Continue(p).pc = "revivals" /\ Unsettled(p).pc = "revivals"
    BY <1>1, <2>1 DEF Pass
  <2>3. NotDeleted(p) = [p EXCEPT !.pc = "attempt"]
    BY <1>2 DEF NotDeleted
  <2> QED
    BY <1>2, <2>2, <2>3 DEF Pass
<1>3. CASE p.mode = "event"
  <2>1. Continue(p) = [r EXCEPT !.pc = "page", !.at = r.at + 1]
    BY <1>1, <1>3 DEF Continue, r, Pass
  <2>2. Unsettled(p) = [r EXCEPT !.pc = "poll"] /\ NotDeleted(p) = Continue(p)
    BY <1>3 DEF Unsettled, NotDeleted, r
  <2>3. Continue(p).pc = "page" /\ Continue(p).mode = "event" /\ Continue(p).at = p.at + 1
    BY <1>1, <1>3, <2>1 DEF Pass
  <2>4. Unsettled(p).pc = "poll" /\ Unsettled(p).mode = "event" /\ Unsettled(p).at = p.at
    BY <1>1, <1>3, <2>2 DEF Pass
  <2> QED
    BY <1>3, <2>2, <2>3, <2>4
<1> QED
  BY <1>2, <1>3, Zenon DEF Pass

(* An event whose listing is answered lets the pass go one event further.  *)
LEMMA EventPassed ==
    ASSUME FollowInv, LogKept, RowsFollow, NEW p \in Pass, NEW holds \in BOOLEAN,
           Follows(holds, p), p.mode = "event", p.pc \in {"observe", "confirm", "write"},
           holds /\ Orphan(p.listing, p.at)' => p.listing \in DueRevivals'
    PROVE  Follows(holds, Continue(p))'
<1> DEFINE q == Continue(p)
<1>1. q.pc = "page" /\ q.mode = "event" /\ q.at = p.at + 1
  BY Shapes, Zenon
<1>2. p.at \in Nat /\ p.at \in DOMAIN log /\ log[p.at].listing = p.listing
  BY Zenon DEF Follows, Pass
<1>3. Len(log) \in Nat /\ DOMAIN log = 1 .. Len(log)
  BY FollowTypes, Zenon
<1>4. ASSUME holds, NEW l \in Listings, NEW c \in Nat, c <= p.at, Orphan(l, c)',
             l \notin DueRevivals', c \in 1 .. Len(log)
      PROVE  FALSE
  <2>1. Orphan(l, c) /\ l \notin DueRevivals
    BY <1>4, Zenon DEF RowsFollow
  <2>2. ~(c <= p.at - 1)
    BY <1>4, <2>1, Zenon DEF Follows, Answered
  <2>3. c = p.at
    BY <1>2, <1>4, <2>2, SMTT(60)
  <2>4. log[c].listing = l
    BY <2>1, Zenon DEF Orphan, Gone, Latest
  <2> QED
    BY <1>2, <1>4, <2>3, <2>4, Zenon
<1>5. ASSUME holds PROVE Answered(p.at)'
  <2> SUFFICES ASSUME NEW l \in Listings, NEW c \in Nat, Orphan(l, c)', c <= p.at,
                      l \notin DueRevivals', c \notin 1 .. Len(log)
               PROVE  FALSE
    BY <1>4, <1>5, Zenon DEF Answered
  <2>1. c = 0
    BY <1>2, <1>3, SMTT(60)
  <2>2. c \in DOMAIN log' /\ log' \in Seq(Event)
    BY Zenon DEF Orphan, Gone, LogKept
  <2> QED
    BY <2>1, <2>2
<1>6. q.at - 1 = p.at
  BY <1>1, <1>2, SMTT(60)
<1> HIDE DEF q
<1> QED
  BY <1>1, <1>5, <1>6, Zenon DEF Follows, q

(* The pass stays before an event it has not answered.                     *)
LEMMA EventKept ==
    ASSUME FollowInv, LogKept, RowsFollow, NEW p \in Pass, WithinPage(p),
           NEW holds \in BOOLEAN, Follows(holds, p),
           p.pc \in {"observe", "confirm", "write"}
    PROVE  Follows(holds, Unsettled(p))'
<1> DEFINE q == Unsettled(p)
<1>1. p.mode \in {"revival", "event"} /\ p.at \in Nat /\ p.upto \in Nat
  BY Zenon DEF Pass
<1>2. CASE p.mode = "revival"
  BY <1>2, Shapes, Zenon DEF Follows
<1>3. CASE p.mode = "event"
  <2>1. q.pc = "poll" /\ q.mode = "event" /\ q.at = p.at
    BY <1>3, Shapes, Zenon
  <2>2. TypeOK /\ Len(log) \in Nat
    BY FollowTypes, Zenon
  <2>3. p.at - 1 \in Int /\ p.at - 1 <= Len(log)
    BY <1>1, <2>2 DEF WithinPage
  <2>4. holds => Answered(p.at - 1)'
    BY <1>3, <2>2, <2>3, StillAnswered, Zenon DEF Follows
  <2> HIDE DEF q
  <2> QED
    BY <2>1, <2>4, Zenon DEF Follows, q
<1> QED
  BY <1>1, <1>2, <1>3, Zenon

(* A revival check that retired nothing records its attempt.               *)
LEMMA AttemptBegins ==
    ASSUME NEW p \in Pass, NEW holds \in BOOLEAN, p.mode = "revival",
           p.generation <= row'[p.listing].generation,
           holds /\ row'[p.listing].generation = p.generation =>
              \A c \in Nat : ~Orphan(p.listing, c)'
    PROVE  Follows(holds, NotDeleted(p))'
<1> DEFINE q == NotDeleted(p)
<1>1. q.pc = "attempt" /\ q.mode = "revival" /\ q.listing = p.listing
         /\ q.generation = p.generation
  BY Shapes, Zenon
<1> HIDE DEF q
<1> QED
  BY <1>1, Zenon DEF Follows, q

(* One follower moves, with what it relies on shown for its new position.  *)
LEMMA PassGoesOn ==
    ASSUME FollowInv, Fenced', LogKept, RowsKept, RowsFollow, NEW f \in Followers, NEW q,
           Move(f, q), cursor' = cursor, \A g \in Followers \ {f} : Holds(g)' => Holds(g),
           NEW holds \in BOOLEAN, holds = Holds(f)', Follows(holds, q)'
    PROVE  FollowInv'
<1>1. pass \in [Followers -> Pass] /\ Len(log) \in Nat
  BY SMTT(60) DEF FollowInv, Fenced, TypeOK
<1>2. pass'[f] = q /\ \A g \in Followers \ {f} : pass'[g] = pass[g]
  BY <1>1, Zenon DEF Move
<1>3. Follows(Holds(f), pass[f])'
  BY <1>2, Zenon DEF Follows
<1>4. Len(log) <= Len(log)'
  BY <1>1 DEF Move
<1> QED
  BY <1>2, <1>3, <1>4, PassesFollow, Zenon

(* The same when it only reads.                                            *)
LEMMA ReaderGoesOn ==
    ASSUME FollowInv, Fenced', NEW f \in Followers, NEW q, Move(f, q),
           UNCHANGED <<row, checked, cursor>>, \A g \in Followers \ {f} : Holds(g)' => Holds(g),
           NEW holds \in BOOLEAN, holds = Holds(f)', Follows(holds, q)'
    PROVE  FollowInv'
<1>1. UNCHANGED <<log, row, checked>>
  BY Zenon DEF Move
<1>2. LogKept /\ RowsKept
  BY <1>1, NothingWritten, Zenon DEF FollowInv
<1>3. RowsFollow
  BY <1>1, RowsUntouched, Zenon
<1> QED
  BY <1>2, <1>3, PassGoesOn, Zenon

(* A pass that ends, waits or looks for revivals relies on nothing.        *)
LEMMA Rests ==
    ASSUME FollowInv, Fenced', NEW f \in Followers, NEW q, Move(f, q),
           UNCHANGED <<row, checked, cursor>>,
           q.pc \in {"idle", "revivals", "release"} \/ (q.pc = "observe" /\ q.mode = "revival"),
           \/ lease' = lease \/ lease' = [lease EXCEPT !.live = FALSE]
           \/ lease' = [holder |-> f, live |-> TRUE]
    PROVE  FollowInv'
<1>1. PICK holds \in BOOLEAN : holds = Holds(f)'
  BY Zenon DEF Holds
<1>2. \A g \in Followers \ {f} : Holds(g)' => Holds(g)
  <2>1. lease \in [holder : Followers \union {NoOne}, live : BOOLEAN]
    BY PassType DEF FollowInv
  <2> QED
    BY <2>1 DEF Holds
<1>3. Follows(holds, q)'
  BY Zenon DEF Follows
<1> QED
  BY <1>1, <1>2, <1>3, ReaderGoesOn

(* The start and the end of a pass and its revival list.                   *)
LEMMA RestFollows ==
    ASSUME FollowInv, Fenced', NEW f \in Followers,
           \/ BeginPass(f) \/ (\E l \in Listings : CheckRevival(f, l))
           \/ RevivalsOutOfTime(f) \/ NoEvents(f) \/ CutPass(f) \/ ReleaseLease(f)
    PROVE  FollowInv'
<1>0. pass[f] \in Pass
  BY PassType, Zenon DEF FollowInv
<1>1. CASE BeginPass(f)
  <2> DEFINE q == [Idle EXCEPT !.pc = "revivals", !.due = DueRevivals]
  <2>1. q.pc = "revivals"
    BY Zenon DEF Idle
  <2>2. Move(f, q) /\ UNCHANGED <<row, checked, cursor>> /\ lease' = [holder |-> f, live |-> TRUE]
    BY <1>1 DEF BeginPass
  <2> HIDE DEF q
  <2> QED
    BY <2>1, <2>2, Rests
<1>2. ASSUME NEW l \in Listings, CheckRevival(f, l) PROVE FollowInv'
  <2> DEFINE q == [pass[f] EXCEPT !.pc = "observe", !.mode = "revival",
                                  !.listing = l, !.due = @ \ {l}]
  <2>1. q.pc = "observe" /\ q.mode = "revival"
    BY <1>0, Zenon DEF Pass
  <2>2. Move(f, q) /\ UNCHANGED <<row, checked, cursor, lease>>
    BY <1>2, Zenon DEF CheckRevival
  <2> HIDE DEF q
  <2> QED
    BY <2>1, <2>2, Rests
<1>3. CASE RevivalsOutOfTime(f)
  <2> DEFINE q == [pass[f] EXCEPT !.due = {}]
  <2>1. q.pc = "revivals"
    BY <1>0, <1>3, Zenon DEF Pass, RevivalsOutOfTime
  <2>2. Move(f, q) /\ UNCHANGED <<row, checked, cursor, lease>>
    BY <1>3 DEF RevivalsOutOfTime
  <2> HIDE DEF q
  <2> QED
    BY <2>1, <2>2, Rests
<1>4. CASE NoEvents(f)
  <2> DEFINE q == [Idle EXCEPT !.pc = "release"]
  <2>1. q.pc = "release"
    BY DEF Idle
  <2>2. Move(f, q) /\ UNCHANGED <<row, checked, cursor, lease>>
    BY <1>4 DEF NoEvents
  <2> HIDE DEF q
  <2> QED
    BY <2>1, <2>2, Rests
<1>5. CASE CutPass(f) \/ ReleaseLease(f)
  <2>1. Idle.pc = "idle"
    BY Zenon DEF Idle
  <2>2. Move(f, Idle) /\ UNCHANGED <<row, checked, cursor>>
          /\ (lease' = lease \/ lease' = [lease EXCEPT !.live = FALSE])
    BY <1>5 DEF CutPass, ReleaseLease
  <2> QED
    BY <2>1, <2>2, Rests
<1> QED
  BY <1>1, <1>2, <1>3, <1>4, <1>5, Zenon

(* A page is read from the cursor on, and everything before the cursor is  *)
(* answered.                                                               *)
LEMMA ReadPageFollows ==
    ASSUME FollowInv, Fenced', NEW f \in Followers, ReadPage(f)
    PROVE  FollowInv'
<1> DEFINE q == [Idle EXCEPT !.pc = "page", !.mode = "event", !.at = cursor + 1,
                             !.upto = Min({cursor + Page, Len(log)})]
           r == [Idle EXCEPT !.pc = "release"]
<1>1. UNCHANGED <<row, checked, cursor, lease>> /\ (Move(f, q) \/ Move(f, r))
  BY DEF ReadPage
<1>2. CASE Move(f, r)
  <2>1. r.pc = "release"
    BY DEF Idle
  <2> HIDE DEF r
  <2> QED
    BY <1>1, <1>2, <2>1, Rests
<1>3. CASE Move(f, q)
  <2>1. PICK p : p = q
    OBVIOUS
  <2>2. p.pc = "page" /\ p.mode = "event" /\ p.at = cursor + 1
    BY <2>1 DEF Idle
  <2> HIDE DEF q
  <2>3. PICK holds \in BOOLEAN : holds = Holds(f)'
    BY Zenon DEF Holds
  <2>4. Answered(p.at - 1)'
    <3>1. p.at - 1 = cursor /\ p.at - 1 \in Int /\ cursor <= Len(log) /\ TypeOK
      BY <2>2, FollowTypes
    <3>2. Answered(p.at - 1)
      BY <3>1, Zenon DEF FollowInv
    <3>3. LogKept /\ RowsFollow
      BY <1>1, <1>3, NothingWritten, RowsUntouched, Zenon DEF Move, FollowInv
    <3> QED
      BY <3>1, <3>2, <3>3, StillAnswered, Zenon
  <2>5. Follows(holds, p)'
    BY <2>2, <2>4, Zenon DEF Follows
  <2>6. Move(f, p) /\ \A g \in Followers \ {f} : Holds(g)' => Holds(g)
    BY <1>1, <1>3, <2>1 DEF Holds
  <2> QED
    BY <1>1, <2>3, <2>5, <2>6, ReaderGoesOn
<1> QED
  BY <1>1, <1>2, <1>3

(* The events that NextEvent passes over are not the latest delete of a    *)
(* live row.                                                               *)
LEMMA PageSkips ==
    ASSUME FollowInv, NEW p \in Pass, WithinPage(p), p.pc = "page", Answered(p.at - 1),
           NEW n \in Nat, n <= p.upto, \A j \in Settles(p) : j > n
    PROVE  Answered(n)
<1> SUFFICES ASSUME NEW l \in Listings, NEW c \in Nat, Orphan(l, c), c <= n, l \notin DueRevivals
             PROVE  FALSE
  BY Zenon DEF Answered
<1>1. /\ Len(log) \in Nat /\ p.at \in Nat /\ p.upto \in Nat /\ p.upto <= Len(log)
  BY FollowTypes, Zenon DEF Pass, WithinPage
<1>2. ~(c <= p.at - 1)
  BY Zenon DEF Answered
<1>3. c \in p.at .. p.upto
  BY <1>1, <1>2, SMTT(60)
<1>4. Latest(l, c) /\ log[c].kind = "DEL"
  BY Zenon DEF Orphan, Gone
<1>5. ASSUME NEW j \in c + 1 .. p.upto PROVE log[j].listing # log[c].listing
  <2>1. j \in c + 1 .. Len(log)
    BY <1>1
  <2> QED
    BY <1>4, <2>1, Zenon DEF Latest
<1>6. c \in Settles(p)
  BY <1>3, <1>4, <1>5, Zenon DEF Settles
<1> QED
  BY <1>6

(* The pass of a follower.                                                 *)
LEMMA OnePass ==
    ASSUME FollowInv, NEW f \in Followers
    PROVE  /\ pass[f] \in Pass /\ WithinPage(pass[f]) /\ PassOK(pass[f])
           /\ Follows(Holds(f), pass[f]) /\ Holds(f) \in BOOLEAN
BY PassType, Zenon DEF FollowInv, Holds

(* NextEvent passes over what needs no answer and stops at the next        *)
(* delete.                                                                 *)
LEMMA NextEventFollows ==
    ASSUME FollowInv, Fenced', NEW f \in Followers, NextEvent(f)
    PROVE  FollowInv'
<1>1. PICK p \in Pass : p = pass[f]
  BY OnePass, Zenon
<1>2. PICK holds \in BOOLEAN : holds = Holds(f)
  BY OnePass, Zenon
<1>3. WithinPage(p) /\ Follows(holds, p) /\ p.pc = "page" /\ p.mode = "event"
  <2>1. WithinPage(p) /\ Follows(holds, p) /\ p.pc = "page"
    BY <1>1, <1>2, OnePass, Zenon DEF NextEvent
  <2> QED
    BY <2>1, Zenon DEF Follows
<1>4. UNCHANGED <<row, checked, cursor, lease, log>>
  BY Zenon DEF NextEvent, Move
<1>5. LogKept /\ RowsFollow
  BY <1>4, NothingWritten, RowsUntouched, Zenon DEF FollowInv
<1>6. holds = Holds(f)' /\ \A g \in Followers \ {f} : Holds(g)' => Holds(g)
  BY <1>2, <1>4, Zenon DEF Holds
<1>7. /\ Len(log) \in Nat /\ p.at \in Nat /\ p.upto \in Nat /\ p.upto <= Len(log) /\ p.at >= 1
      /\ TypeOK /\ DOMAIN log = 1 .. Len(log)
  BY <1>3, FollowTypes, Zenon DEF Pass, WithinPage
<1>8. ASSUME NEW i \in Settles(p), \A j \in Settles(p) : i <= j,
             Move(f, [p EXCEPT !.pc = "observe", !.at = i, !.listing = log[i].listing])
      PROVE  FollowInv'
  <2>1. PICK q : q = [p EXCEPT !.pc = "observe", !.at = i, !.listing = log[i].listing]
    OBVIOUS
  <2>2. q.pc = "observe" /\ q.mode = "event" /\ q.at = i /\ q.listing = log[i].listing
    BY <1>3, <2>1 DEF Pass
  <2>3. i \in Nat /\ i >= 1 /\ i <= p.upto
    BY <1>7 DEF Settles
  <2>4. holds => Answered(i - 1)
    <3>1. i - 1 \in Nat /\ i - 1 <= p.upto /\ \A j \in Settles(p) : j > i - 1
      <4>1. \A j \in Settles(p) : j \in Nat
        BY <1>7, SMTT(60) DEF Settles
      <4> QED
        BY <1>7, <1>8, <2>3, <4>1
    <3>2. holds => Answered(p.at - 1)
      BY <1>3, Zenon DEF Follows
    <3> QED
      BY <1>3, <3>1, <3>2, PageSkips, Zenon
  <2>5. holds => Answered(i - 1)'
    BY <1>5, <1>7, <2>3, <2>4, StillAnswered
  <2>6. i \in DOMAIN log' /\ log'[i].listing = q.listing
    BY <1>4, <1>7, <2>2, <2>3, SMTT(60)
  <2>7. Follows(holds, q)'
    BY <2>2, <2>5, <2>6, Zenon DEF Follows
  <2>8. Move(f, q)
    BY <1>8, <2>1
  <2> QED
    BY <1>4, <1>6, <2>7, <2>8, ReaderGoesOn, Zenon
<1>9. CASE Settles(p) = {} /\ Move(f, [p EXCEPT !.pc = "poll", !.at = p.upto + 1])
  <2>1. PICK q : q = [p EXCEPT !.pc = "poll", !.at = p.upto + 1]
    OBVIOUS
  <2>2. q.pc = "poll" /\ q.mode = "event" /\ q.at = p.upto + 1
    BY <1>3, <2>1, Zenon DEF Pass
  <2>3. holds => Answered(p.upto)
    <3>1. holds => Answered(p.at - 1)
      BY <1>3, Zenon DEF Follows
    <3> QED
      BY <1>3, <1>7, <1>9, <3>1, PageSkips
  <2>4. holds => Answered(p.upto)'
    BY <1>5, <1>7, <2>3, StillAnswered
  <2>5. q.at - 1 = p.upto
    BY <1>7, <2>2
  <2>6. Follows(holds, q)'
    BY <2>2, <2>4, <2>5, Zenon DEF Follows
  <2>7. Move(f, q)
    BY <1>9, <2>1, Zenon
  <2> QED
    BY <1>4, <1>6, <2>6, <2>7, ReaderGoesOn, Zenon
<1> QED
  BY <1>1, <1>8, <1>9, Zenon DEF NextEvent

(* The observation finds a row that is not live, or takes its epoch and    *)
(* generation (settle_deletion, observe_live).                             *)
LEMMA ObserveFollows ==
    ASSUME FollowInv, Fenced', NEW f \in Followers, Observe(f)
    PROVE  FollowInv'
<1>1. PICK p \in Pass : p = pass[f]
  BY OnePass, Zenon
<1>2. PICK holds \in BOOLEAN : holds = Holds(f)
  BY OnePass, Zenon
<1>3. WithinPage(p) /\ Follows(holds, p) /\ p.pc = "observe" /\ p.listing \in Listings
  BY <1>1, <1>2, OnePass, Zenon DEF Observe, PassOK
<1>4. UNCHANGED <<row, checked, cursor, lease, log>>
  BY DEF Observe, Move
<1>5. LogKept /\ RowsFollow
  BY <1>4, NothingWritten, RowsUntouched, Zenon DEF FollowInv
<1>6. holds = Holds(f)' /\ \A g \in Followers \ {f} : Holds(g)' => Holds(g)
  BY <1>2, <1>4, Zenon DEF Holds
<1>7. CASE row[p.listing].state = "live"
  <2>1. PICK q : q = [p EXCEPT !.pc = "confirm", !.epoch = row[p.listing].epoch,
                               !.generation = row[p.listing].generation]
    OBVIOUS
  <2>2. /\ q.pc = "confirm" /\ q.mode = p.mode /\ q.at = p.at /\ q.listing = p.listing
        /\ q.generation = row[p.listing].generation
    BY <2>1, Zenon DEF Pass
  <2>3. q.generation <= row'[q.listing].generation
    BY <1>3, <1>4, <2>2, FollowTypes, SMTT(60)
  <2>4. q.mode = "event" => q.at \in DOMAIN log' /\ log'[q.at].listing = q.listing
    BY <1>3, <1>4, <2>2, Zenon DEF Follows
  <2>5. holds /\ q.mode = "event" => Answered(q.at - 1)'
    <3>1. holds /\ p.mode = "event" => Answered(p.at - 1)
      BY <1>3, Zenon DEF Follows
    <3>2. p.at - 1 \in Int /\ p.at - 1 <= Len(log) /\ TypeOK
      BY <1>3, FollowTypes, SMTT(60) DEF Pass, WithinPage
    <3> QED
      BY <1>5, <2>2, <3>1, <3>2, StillAnswered, Zenon
  <2>6. Follows(holds, q)'
    BY <2>2, <2>3, <2>4, <2>5, Zenon DEF Follows
  <2>7. Move(f, q)
    BY <1>1, <1>7, <2>1, Zenon DEF Observe
  <2> QED
    BY <1>4, <1>6, <2>6, <2>7, ReaderGoesOn, Zenon
<1>8. CASE row[p.listing].state # "live"
  <2>1. Move(f, Continue(p))
    BY <1>1, <1>8 DEF Observe
  <2>2. Follows(holds, Continue(p))'
    <3>1. CASE p.mode = "revival"
      BY <3>1, Shapes, Zenon DEF Follows
    <3>2. CASE p.mode = "event"
      <4>1. ~Orphan(p.listing, p.at)'
        BY <1>4, <1>8, Zenon DEF Orphan
      <4> QED
        BY <1>3, <1>5, <3>2, <4>1, EventPassed, Zenon
    <3> QED
      BY <3>1, <3>2, Zenon DEF Pass
  <2> QED
    BY <1>4, <1>6, <2>1, <2>2, ReaderGoesOn, Zenon
<1> QED
  BY <1>7, <1>8, Zenon

(* The latest event of the listing is no delete: there is nothing to       *)
(* answer.                                                                 *)
LEMMA NotGone ==
    ASSUME FollowInv, LogKept, RowsFollow, NEW p \in Pass, NEW holds \in BOOLEAN,
           Follows(holds, p), p.pc \in {"confirm", "write"}, p.listing \in Listings,
           UNCHANGED row, \A c \in Nat : ~Orphan(p.listing, c)'
    PROVE  Follows(holds, NotDeleted(p))'
<1>1. CASE p.mode = "revival"
  <2>1. p.generation <= row'[p.listing].generation
    BY Zenon DEF Follows
  <2> QED
    BY <1>1, <2>1, AttemptBegins, Zenon
<1>2. CASE p.mode = "event"
  <2>1. NotDeleted(p) = Continue(p) /\ p.at \in Nat
    BY <1>2, Shapes, Zenon DEF Pass
  <2>2. Follows(holds, Continue(p))'
    BY <1>2, <2>1, EventPassed, Zenon
  <2> QED
    BY <2>1, <2>2, Zenon
<1> QED
  BY <1>1, <1>2, Zenon DEF Pass

(* The latest event of the listing is the delete that is written next, or  *)
(* there is nothing to answer (confirm_deleted).                           *)
LEMMA ConfirmFollows ==
    ASSUME FollowInv, Fenced', NEW f \in Followers, ConfirmDeleted(f)
    PROVE  FollowInv'
<1>1. PICK p \in Pass : p = pass[f]
  BY OnePass, Zenon
<1>2. PICK holds \in BOOLEAN : holds = Holds(f)
  BY OnePass, Zenon
<1>3. WithinPage(p) /\ Follows(holds, p) /\ p.pc = "confirm" /\ p.listing \in Listings
  BY <1>1, <1>2, OnePass DEF ConfirmDeleted, PassOK
<1>4. UNCHANGED <<row, checked, cursor, lease, log>>
  BY DEF ConfirmDeleted, Move
<1>5. LogKept /\ RowsFollow
  BY <1>4, NothingWritten, RowsUntouched, Zenon DEF FollowInv
<1>6. holds = Holds(f)' /\ \A g \in Followers \ {f} : Holds(g)' => Holds(g)
  BY <1>2, <1>4, Zenon DEF Holds
<1>7. CASE LatestEventIsDelete(p.listing)
  <2>1. PICK c \in DOMAIN log : Latest(p.listing, c) /\ log[c].kind = "DEL"
    BY <1>7, Zenon DEF LatestEventIsDelete
  <2>2. LatestEvent(p.listing) = c /\ c \in 1 .. Len(log) /\ Len(log) \in Nat
    BY <1>3, <2>1, FollowTypes, LatestIsOne, Zenon
  <2>3. PICK q : q = [p EXCEPT !.pc = "write", !.found = LatestEvent(p.listing)]
    OBVIOUS
  <2>4. /\ q.pc = "write" /\ q.mode = p.mode /\ q.at = p.at /\ q.listing = p.listing
        /\ q.generation = p.generation /\ q.found = c
    BY <2>2, <2>3 DEF Pass
  <2>5. row[p.listing].revivedFrom <= c
    <3>1. /\ row[p.listing].revivedFrom \in Nat /\ RowFollows(p.listing)
          /\ DOMAIN log = 1 .. Len(log)
      BY <1>3, FollowTypes, Zenon
    <3>2. CASE row[p.listing].revivedFrom = 0
      BY <2>2, <3>2, SMTT(60)
    <3>3. CASE row[p.listing].revivedFrom # 0
      <4>1. /\ row[p.listing].revivedFrom \in 1 .. Len(log)
            /\ log[row[p.listing].revivedFrom].listing = p.listing
        BY <3>1, <3>3, Zenon DEF RowFollows
      <4>2. row[p.listing].revivedFrom \notin c + 1 .. Len(log)
        BY <2>1, <4>1, Zenon DEF Latest
      <4> QED
        BY <2>2, <3>1, <4>1, <4>2, SMTT(60)
    <3> QED
      BY <3>2, <3>3, Zenon
  <2>6. /\ q.generation <= row'[q.listing].generation
        /\ q.mode = "event" => q.at \in DOMAIN log' /\ log'[q.at].listing = q.listing
    BY <1>3, <1>4, <2>4, Zenon DEF Follows
  <2>7. holds /\ q.mode = "event" => Answered(q.at - 1)'
    <3>1. holds /\ p.mode = "event" => Answered(p.at - 1)
      BY <1>3, Zenon DEF Follows
    <3>2. p.at - 1 \in Int /\ p.at - 1 <= Len(log) /\ TypeOK
      BY <1>3, FollowTypes, SMTT(60) DEF Pass, WithinPage
    <3> QED
      BY <1>5, <2>4, <3>1, <3>2, StillAnswered, Zenon
  <2>8. Follows(holds, q)'
    BY <1>4, <2>4, <2>5, <2>6, <2>7, Zenon DEF Follows
  <2>9. Move(f, q)
    BY <1>1, <1>7, <2>3 DEF ConfirmDeleted
  <2> QED
    BY <1>4, <1>6, <2>8, <2>9, ReaderGoesOn, Zenon
<1>8. CASE ~LatestEventIsDelete(p.listing)
  <2>1. Move(f, NotDeleted(p))
    BY <1>1, <1>8 DEF ConfirmDeleted
  <2>2. \A c \in Nat : ~Orphan(p.listing, c)'
    BY <1>4, <1>8, Zenon DEF Orphan, Gone, Latest, LatestEventIsDelete
  <2>3. Follows(holds, NotDeleted(p))'
    BY <1>3, <1>4, <1>5, <2>2, NotGone, Zenon
  <2> QED
    BY <1>4, <1>6, <2>1, <2>3, ReaderGoesOn, Zenon
<1> QED
  BY <1>7, <1>8

(* A failed call: the page ends before its event, and the revival stays    *)
(* due (settle_deletion).                                                  *)
LEMMA UnavailableFollows ==
    ASSUME FollowInv, Fenced', NEW f \in Followers, Unavailable(f)
    PROVE  FollowInv'
<1>1. PICK p \in Pass : p = pass[f]
  BY OnePass, Zenon
<1>2. PICK holds \in BOOLEAN : holds = Holds(f)
  BY OnePass, Zenon
<1>3. WithinPage(p) /\ Follows(holds, p) /\ p.pc = "confirm"
  BY <1>1, <1>2, OnePass, Zenon DEF Unavailable
<1>4. UNCHANGED <<row, checked, cursor, lease, log>> /\ Move(f, Unsettled(p))
  BY <1>1, Zenon DEF Unavailable, Move
<1>5. LogKept /\ RowsFollow
  BY <1>4, NothingWritten, RowsUntouched, Zenon DEF FollowInv
<1>6. holds = Holds(f)' /\ \A g \in Followers \ {f} : Holds(g)' => Holds(g)
  BY <1>2, <1>4, Zenon DEF Holds
<1>7. Follows(holds, Unsettled(p))'
  BY <1>3, <1>5, EventKept, Zenon
<1> QED
  BY <1>4, <1>6, <1>7, ReaderGoesOn, Zenon

(* The tombstone is written; or a record was accepted since the            *)
(* observation and the event stays unsettled; or the row is live no more   *)
(* (settle_deletion).                                                      *)
LEMMA SettleFollows ==
    ASSUME FollowInv, Fenced', NEW f \in Followers, SettleDeletion(f)
    PROVE  FollowInv'
<1>1. PICK p \in Pass : p = pass[f]
  BY OnePass, Zenon
<1>2. PICK holds \in BOOLEAN : holds = Holds(f)
  BY OnePass, Zenon
<1> DEFINE l == p.listing
<1>3. /\ WithinPage(p) /\ Follows(holds, p) /\ p.pc = "write" /\ l \in Listings
      /\ Observed(l, p.epoch) /\ Proved(l, p.epoch, p.found) /\ p.found \in Nat
      /\ p.epoch \in Nat
  BY <1>1, <1>2, OnePass, Zenon DEF SettleDeletion, PassOK, Pass
<1>4. UNCHANGED <<checked, cursor, lease, log>> /\ Fenced
  BY Zenon DEF SettleDeletion, Move, FollowInv
<1>5. holds = Holds(f)' /\ \A g \in Followers \ {f} : Holds(g)' => Holds(g)
  BY <1>2, <1>4, Zenon DEF Holds
<1>6. CASE ~holds
  <2>1. Move(f, Idle) /\ row' = row /\ Idle.pc = "idle"
    BY <1>2, <1>6, Zenon DEF SettleDeletion, Idle
  <2> QED
    BY <1>4, <2>1, Rests
<1>7. CASE holds /\ Retirable(l, p.found, p.epoch)
  <2>1. Move(f, Continue(p)) /\ row' = Tombstoned(l, p.found)
    BY <1>1, <1>2, <1>7, Zenon DEF SettleDeletion
  <2>2. RowsFollow /\ row'[l].state = "deleted"
    BY <1>3, <1>4, <2>1, TombstonedFollows, Zenon
  <2>3. LogKept /\ RowsKept
    BY <1>3, <1>4, <1>7, <2>1, TombstonedKept, Zenon
  <2>4. Follows(holds, Continue(p))'
    <3>1. CASE p.mode = "revival"
      BY <3>1, Shapes, Zenon DEF Follows
    <3>2. CASE p.mode = "event"
      <4>1. ~Orphan(p.listing, p.at)'
        BY <2>2, Zenon DEF Orphan
      <4> QED
        BY <1>3, <2>2, <2>3, <3>2, <4>1, EventPassed, Zenon
    <3> QED
      BY <3>1, <3>2, Zenon DEF Pass
  <2> QED
    BY <1>4, <1>5, <2>1, <2>2, <2>3, <2>4, PassGoesOn, Zenon
<1>8. CASE holds /\ ~Retirable(l, p.found, p.epoch)
  <2>1. row' = row
    BY <1>1, <1>2, <1>8, Zenon DEF SettleDeletion
  <2>2. LogKept /\ RowsFollow
    BY <1>4, <2>1, NothingWritten, RowsUntouched, Zenon
  <2>3. CASE row[l].state = "live" /\ row[l].epoch # p.epoch
    <3>1. Move(f, Unsettled(p))
      BY <1>1, <1>2, <1>8, <2>3, Zenon DEF SettleDeletion
    <3>2. Follows(holds, Unsettled(p))'
      BY <1>3, <2>2, EventKept, Zenon
    <3> QED
      BY <1>4, <1>5, <2>1, <3>1, <3>2, ReaderGoesOn, Zenon
  <2>4. CASE ~(row[l].state = "live" /\ row[l].epoch # p.epoch)
    <3>1. Move(f, NotDeleted(p))
      BY <1>1, <1>2, <1>8, <2>4, Zenon DEF SettleDeletion
    <3>2. row[l].state # "live"
      <4>1. row[l].revivedFrom \in Nat
        BY <1>3, FollowTypes, Zenon
      <4>2. row[l].epoch = p.epoch => row[l].revivedFrom <= p.found
        BY <1>3, Zenon DEF Follows
      <4> QED
        BY <1>3, <1>8, <2>4, <4>1, <4>2, Zenon DEF Retirable
    <3>3. \A c \in Nat : ~Orphan(l, c)'
      BY <2>1, <3>2, Zenon DEF Orphan
    <3>4. Follows(holds, NotDeleted(p))'
      BY <1>3, <2>1, <2>2, <3>3, NotGone, Zenon
    <3> QED
      BY <1>4, <1>5, <2>1, <3>1, <3>4, ReaderGoesOn, Zenon
  <2> QED
    BY <2>3, <2>4, Zenon
<1> QED
  BY <1>6, <1>7, <1>8, Zenon

(* While one follower holds the lease, no other relies on it.              *)
LEMMA HolderWrites ==
    ASSUME FollowInv, NEW f \in Followers, Holds(f), UNCHANGED <<row, log, lease>>,
           NEW q, Move(f, q), q.pc \in {"revivals", "release"}
    PROVE  \A g \in Followers : Follows(Holds(g), pass[g])'
<1>1. pass \in [Followers -> Pass]
  BY Zenon DEF FollowInv, Fenced, TypeOK
<1>2. pass'[f] = q /\ \A g \in Followers \ {f} : pass'[g] = pass[g] /\ ~Holds(g)'
  BY <1>1, Zenon DEF Move, Holds
<1>3. Follows(Holds(f), pass[f])'
  BY <1>2, Zenon DEF Follows
<1>4. ASSUME NEW g \in Followers \ {f} PROVE Follows(Holds(g), pass[g])'
  BY <1>2, OnePass, Zenon DEF Follows
<1> QED
  BY <1>3, <1>4, Zenon

(* A recorded attempt covers the generation that was observed, and no      *)
(* later one: a revival since then stays due (record_revival_attempt).     *)
LEMMA AttemptFollows ==
    ASSUME FollowInv, Fenced', NEW f \in Followers, RecordRevivalAttempt(f)
    PROVE  FollowInv'
<1>1. PICK p \in Pass : p = pass[f]
  BY OnePass, Zenon
<1> DEFINE l == p.listing
           n == row[l].generation
<1>2. /\ p.pc = "attempt" /\ p.mode = "revival" /\ l \in Listings /\ p.generation \in Nat
      /\ p.generation <= n /\ Follows(Holds(f), p)
  <2>1. p.pc = "attempt" /\ l \in Listings /\ p.generation \in Nat /\ Follows(Holds(f), p)
    BY <1>1, OnePass, Zenon DEF RecordRevivalAttempt, PassOK, Pass
  <2> QED
    BY <2>1, Zenon DEF Follows
<1>3. UNCHANGED <<row, cursor, lease, log>>
  BY Zenon DEF RecordRevivalAttempt, Move
<1>4. CASE ~Holds(f)
  <2>1. Move(f, Idle) /\ checked' = checked /\ Idle.pc = "idle"
    BY <1>4, Zenon DEF RecordRevivalAttempt, Idle
  <2> QED
    BY <1>3, <2>1, Rests
<1>5. CASE Holds(f)
  <2> DEFINE m == Max({checked[l], p.generation})
  <2>1. Move(f, Continue(p)) /\ checked' = [checked EXCEPT ![l] = m]
    BY <1>1, <1>5, Zenon DEF RecordRevivalAttempt
  <2>2. /\ checked \in [Listings -> Nat] /\ checked[l] \in Nat /\ n \in Nat
        /\ checked[l] <= n /\ \A k \in Listings : RowFollows(k)
    <3>1. /\ checked \in [Listings -> Nat] /\ checked[l] \in Nat /\ n \in Nat
          /\ \A k \in Listings : RowFollows(k)
      BY <1>2, FollowTypes, Zenon
    <3> QED
      BY <1>2, <3>1, Zenon DEF RowFollows
  <2>3. m = IF checked[l] >= p.generation THEN checked[l] ELSE p.generation
    BY <1>2, <2>2, MaxOfTwo, ZenonT(60)
  <2> HIDE DEF m
  <2>4. m <= n /\ m \in Nat /\ (checked[l] < n /\ p.generation # n => m < n)
    <3> HIDE DEF n
    <3> QED
      BY <1>2, <2>2, <2>3
  <2>5. checked'[l] = m /\ \A k \in Listings \ {l} : checked'[k] = checked[k]
    BY <1>2, <2>1, <2>2, Zenon
  <2>6. \A k \in Listings : RowFollows(k)'
    <3>1. RowFollows(l)'
      BY <1>2, <1>3, <2>2, <2>4, <2>5, Zenon DEF RowFollows
    <3>2. ASSUME NEW k \in Listings \ {l} PROVE RowFollows(k)'
      BY <1>3, <2>2, <2>5, Zenon DEF RowFollows
    <3> QED
      BY <3>1, <3>2, Zenon
  <2>7. ASSUME NEW k \in Listings, NEW c \in Nat, Orphan(k, c)', c <= cursor'
        PROVE  k \in DueRevivals'
    <3>1. Orphan(k, c) /\ c <= cursor /\ k \in DueRevivals
      BY <1>3, <2>7, Zenon DEF Orphan, Gone, Latest, FollowInv, Answered
    <3>2. CASE k # l
      BY <1>3, <2>5, <3>1, <3>2, Zenon DEF DueRevivals
    <3>3. CASE k = l
      <4>1. n # p.generation
        <5>1. cursor \in Nat
          BY FollowTypes, Zenon
        <5> QED
          BY <1>2, <1>5, <3>1, <3>3, <5>1, SMTT(60) DEF Follows
      <4>2. checked[l] < n
        BY <3>1, <3>3, Zenon DEF DueRevivals
      <4>3. checked'[l] < row'[l].generation
        BY <1>3, <2>4, <2>5, <4>1, <4>2, Zenon
      <4> QED
        BY <1>3, <3>1, <3>3, <4>3, Zenon DEF DueRevivals
    <3> QED
      BY <3>2, <3>3, Zenon
  <2>8. Continue(p).pc = "revivals"
    BY <1>2, Shapes, Zenon
  <2>9. \A g \in Followers : Follows(Holds(g), pass[g])'
    BY <1>3, <1>5, <2>1, <2>8, HolderWrites, Zenon
  <2> QED
    BY <2>6, <2>7, <2>9, Zenon DEF FollowInv, Answered
<1> QED
  BY <1>4, <1>5, Zenon

(* The cursor moves to what the holder of the lease has answered, never    *)
(* back (record_poll).                                                     *)
LEMMA PollFollows ==
    ASSUME FollowInv, Fenced', NEW f \in Followers, RecordPoll(f)
    PROVE  FollowInv'
<1>1. PICK p \in Pass : p = pass[f]
  BY OnePass, Zenon
<1>2. p.pc = "poll" /\ p.at \in Nat /\ (Holds(f) => Answered(p.at - 1))
  <2>1. p.pc = "poll" /\ p.at \in Nat /\ Follows(Holds(f), p)
    BY <1>1, OnePass DEF RecordPoll, Pass
  <2> QED
    BY <2>1, Zenon DEF Follows
<1>3. UNCHANGED <<row, checked, lease, log>>
  BY DEF RecordPoll, Move
<1>4. CASE ~Holds(f)
  <2> DEFINE q == [Idle EXCEPT !.pc = "idle"]
  <2>1. Move(f, q) /\ cursor' = cursor /\ q.pc = "idle"
    BY <1>4 DEF RecordPoll, Idle
  <2> HIDE DEF q
  <2> QED
    BY <1>3, <2>1, Rests
<1>5. CASE Holds(f)
  <2> DEFINE q == [Idle EXCEPT !.pc = "release"]
  <2>1. Move(f, q) /\ cursor' = Max({cursor, p.at - 1}) /\ q.pc = "release"
    BY <1>1, <1>5 DEF RecordPoll, Idle
  <2> HIDE DEF q
  <2>2. cursor \in Nat /\ Answered(cursor)
    BY FollowTypes, Zenon DEF FollowInv
  <2>3. cursor' = cursor \/ cursor' = p.at - 1
    <3>1. CASE p.at = 0
      <4>1. Max({cursor, 0 - 1}) = cursor
        BY <2>2 DEF Max
      <4> QED
        BY <2>1, <3>1, <4>1, Zenon
    <3>2. CASE p.at # 0
      <4>1. p.at - 1 \in Nat
        BY <1>2, <3>2
      <4> QED
        BY <2>1, <2>2, <4>1, MaxOfTwo, Zenon
    <3> QED
      BY <3>1, <3>2, Zenon
  <2>4. Answered(cursor)'
    <3>1. \A l \in Listings, c \in Nat : Orphan(l, c)' => Orphan(l, c)
      BY <1>3, Zenon DEF Orphan, Gone, Latest
    <3>2. DueRevivals' = DueRevivals
      BY <1>3, Zenon DEF DueRevivals
    <3> QED
      BY <1>2, <1>5, <2>2, <2>3, <3>1, <3>2, Zenon DEF Answered
  <2>5. \A g \in Followers : Follows(Holds(g), pass[g])'
    BY <1>3, <1>5, <2>1, HolderWrites, Zenon
  <2>6. \A l \in Listings : RowFollows(l)'
    BY <1>3, Zenon DEF RowFollows, FollowInv
  <2> QED
    BY <2>4, <2>5, <2>6, Zenon DEF FollowInv
<1> QED
  BY <1>4, <1>5, Zenon

(* A step of somebody else.                                                *)
LEMMA PassesWait ==
    ASSUME FollowInv, Fenced', LogKept, RowsKept, RowsFollow, Len(log) <= Len(log)',
           UNCHANGED <<cursor, pass>>, \A f \in Followers : Holds(f)' => Holds(f)
    PROVE  FollowInv'
BY PassesFollow, Zenon

(* The commands accept a record, write a tombstone, or write no row.       *)
LEMMA CommandsFollow ==
    ASSUME FollowInv, Fenced', NEW s \in Sessions, CommandStep(s)
    PROVE  FollowInv'
<1> DEFINE q == session[s]
           l == q.listing
<1>1. /\ q \in Session /\ SessionOK(q) /\ q.seen \in Nat /\ q.epoch \in Nat
      /\ q.found \in Nat /\ Fenced
  BY SessionType, Zenon DEF Session, FollowInv
<1>2. UNCHANGED <<log, checked, cursor, lease, pass>>
  BY Zenon
  DEF CommandStep, SyncFetch, RegisterPrefetch, Start, SyncFound, Register, SyncObserve,
         SyncConfirm, SyncTombstone, Commit
<1>3. \/ row' = row
      \/ \E c \in Nat : l \in Listings /\ RecordSeen(l, c) /\ row' = Accepted(l, c)
      \/ \E found, epoch \in Nat :
            /\ l \in Listings /\ Observed(l, epoch) /\ Proved(l, epoch, found)
            /\ Retirable(l, found, epoch) /\ row' = Tombstoned(l, found)
  <2>1. CASE SyncFound(s)
    BY <1>1, <2>1, Zenon DEF SyncFound, Commit, SessionOK
  <2>2. CASE Register(s)
    <3>1. l \in Listings /\ RecordSeen(l, q.seen) /\ RecordSeen(l, 0)
      BY <1>1, <2>2, Zenon DEF Register, SessionOK, RecordSeen
    <3>2. row' = row \/ row' = Accepted(l, q.seen) \/ row' = Accepted(l, 0)
      BY <2>2, Zenon DEF Register, Commit
    <3> QED
      BY <1>1, <3>1, <3>2, Zenon
  <2>3. CASE SyncTombstone(s)
    <3>1. l \in Listings /\ Observed(l, q.epoch) /\ Proved(l, q.epoch, q.found)
      BY <1>1, <2>3, Zenon DEF SyncTombstone, SessionOK
    <3>2. \/ row' = row
          \/ row' = Tombstoned(l, q.found) /\ Retirable(l, q.found, q.epoch)
      BY <2>3, Zenon DEF SyncTombstone, Commit
    <3> QED
      BY <1>1, <3>1, <3>2, Zenon
  <2>4. CASE ~SyncFound(s) /\ ~Register(s) /\ ~SyncTombstone(s)
    BY <2>4, Zenon DEF CommandStep, SyncFetch, RegisterPrefetch, Start, SyncObserve, SyncConfirm
  <2> QED
    BY <2>1, <2>2, <2>3, <2>4, Zenon
<1> HIDE DEF l
<1>4. LogKept /\ RowsKept /\ RowsFollow
  <2>1. CASE row' = row
    BY <1>1, <1>2, <2>1, NothingWritten, RowsUntouched, Zenon
  <2>2. CASE \E c \in Nat : l \in Listings /\ RecordSeen(l, c) /\ row' = Accepted(l, c)
    BY <1>1, <1>2, <2>2, AcceptedKept, AcceptedFollows, Zenon
  <2>3. CASE \E found, epoch \in Nat :
                /\ l \in Listings /\ Observed(l, epoch) /\ Proved(l, epoch, found)
                /\ Retirable(l, found, epoch) /\ row' = Tombstoned(l, found)
    BY <1>1, <1>2, <2>3, TombstonedKept, TombstonedFollows, Zenon
  <2> QED
    BY <1>3, <2>1, <2>2, <2>3, Zenon
<1>5. Len(log) <= Len(log)' /\ \A f \in Followers : Holds(f)' => Holds(f)
  BY <1>2, FollowTypes DEF Holds
<1> QED
  BY <1>2, <1>4, <1>5, PassesWait, Zenon

(* The seller's writes extend the log.                                     *)
LEMMA SellerFollows ==
    ASSUME FollowInv, Fenced', NEW l \in Listings, NEW kind \in {"PUT", "DEL"},
           SellerWrites(l, kind)
    PROVE  FollowInv'
<1>1. log \in Seq(Event) /\ Len(log) \in Nat /\ Fenced
  BY FollowTypes, Zenon DEF FollowInv
<1>2. log' = Append(log, [listing |-> l, kind |-> kind])
        /\ UNCHANGED <<row, checked, cursor, lease, pass>>
  BY Zenon DEF SellerWrites
<1>3. /\ log' \in Seq(Event) /\ Len(log') = Len(log) + 1
      /\ DOMAIN log = 1 .. Len(log) /\ DOMAIN log' = 1 .. Len(log')
      /\ \A c \in 1 .. Len(log) : log'[c] = log[c]
  <2>1. [listing |-> l, kind |-> kind] \in Event
    BY Zenon DEF Event
  <2> QED
    BY <1>1, <1>2, <2>1, AppendProperties, SMTT(60)
<1>4. LogKept /\ Len(log) <= Len(log)'
  BY <1>1, <1>3 DEF LogKept
<1>5. RowsKept
  BY <1>2, FollowTypes, SMTT(60) DEF RowsKept
<1>6. RowsFollow
  BY <1>2, <1>3, <1>4, LogGrows, Zenon
<1>7. \A f \in Followers : Holds(f)' => Holds(f)
  BY <1>2, Zenon DEF Holds
<1> QED
  BY <1>2, <1>4, <1>5, <1>6, <1>7, PassesWait, Zenon

(* A lease that lapses takes away a right and gives none.                  *)
LEMMA LapseFollows ==
    ASSUME FollowInv, Fenced', LapseRunning \/ LapseLeft \/ UNCHANGED vars
    PROVE  FollowInv'
<1>1. UNCHANGED <<log, row, checked, cursor, pass>>
  BY DEF LapseRunning, LapseLeft, vars
<1>2. \A f \in Followers : Holds(f)' => Holds(f)
  <2>1. lease' = lease \/ lease' = [lease EXCEPT !.live = FALSE]
    BY DEF LapseRunning, LapseLeft, vars
  <2>2. lease \in [holder : Followers \union {NoOne}, live : BOOLEAN]
    BY Zenon DEF FollowInv, Fenced, TypeOK
  <2> QED
    BY <2>1, <2>2 DEF Holds
<1>3. LogKept /\ RowsKept /\ RowsFollow
  BY <1>1, NothingWritten, RowsUntouched, Zenon DEF FollowInv
<1>4. Len(log) <= Len(log)'
  BY <1>1, FollowTypes
<1> QED
  BY <1>1, <1>2, <1>3, <1>4, PassesWait, Zenon

(* At the start there is no row to answer for.                             *)
LEMMA InitFollows == Init => FollowInv
<1> SUFFICES ASSUME Init PROVE FollowInv
  OBVIOUS
<1>1. \A l \in Listings : RowFollows(l)
  BY SMTT(60) DEF Init, RowFollows, NoRow
<1>2. Answered(cursor)
  BY Zenon DEF Init, Answered, Orphan, NoRow
<1>3. \A f \in Followers : Follows(Holds(f), pass[f])
  BY Zenon DEF Init, Follows, Idle
<1> QED
  BY <1>1, <1>2, <1>3, InitFenced DEF FollowInv

(* One case per action of Next.                                            *)
LEMMA NextFollows == FollowInv /\ [Next]_vars => FollowInv'
<1> SUFFICES ASSUME FollowInv, [Next]_vars PROVE FollowInv'
  OBVIOUS
<1>0. Fenced'
  BY NextFenced DEF FollowInv
<1>1. CASE \E l \in Listings, kind \in {"PUT", "DEL"} : SellerWrites(l, kind)
  BY <1>0, <1>1, SellerFollows
<1>2. CASE \E s \in Sessions : CommandStep(s)
  BY <1>0, <1>2, CommandsFollow
<1>3. ASSUME NEW f \in Followers, FollowerStep(f) PROVE FollowInv'
  <2>1. CASE (\E l \in Listings : CheckRevival(f, l)) \/ BeginPass(f) \/ ReleaseLease(f)
    BY <1>0, <2>1, RestFollows, Zenon
  <2>2. CASE ReadPage(f) \/ NextEvent(f) \/ Observe(f)
    BY <1>0, <2>2, ReadPageFollows, NextEventFollows, ObserveFollows, Zenon
  <2>3. CASE ConfirmDeleted(f) \/ SettleDeletion(f)
    BY <1>0, <2>3, ConfirmFollows, SettleFollows, Zenon
  <2>4. CASE RecordRevivalAttempt(f) \/ RecordPoll(f)
    BY <1>0, <2>4, AttemptFollows, PollFollows, Zenon
  <2> QED
    BY <1>3, <2>1, <2>2, <2>3, <2>4, Zenon DEF FollowerStep
<1>4. ASSUME NEW f \in Followers,
             Unavailable(f) \/ CutPass(f) \/ RevivalsOutOfTime(f) \/ NoEvents(f)
      PROVE  FollowInv'
  BY <1>0, <1>4, UnavailableFollows, RestFollows, Zenon
<1>5. CASE LapseRunning \/ LapseLeft \/ UNCHANGED vars
  BY <1>0, <1>5, LapseFollows
<1> QED
  BY <1>1, <1>2, <1>3, <1>4, <1>5, Zenon DEF Next

(* For any number of listings, followers, commands and events: no live row *)
(* whose latest event is a delete lies behind the cursor, unless its       *)
(* revival check is due.  Deletes are not lost when a follower is cut off, *)
(* when its lease lapses in the middle of a pass, or when a record is      *)
(* accepted while the delete is on its way (follow_homeserver_deletions,   *)
(* check_revivals, settle_deletion, record_poll).                          *)
THEOREM NoDeleteIsSkipped == Spec => []NothingSkipped
<1>1. FollowInv => NothingSkipped
  BY AnsweredMeans
<1> QED
  BY <1>1, InitFollows, NextFollows, PTL DEF Spec
=============================================================================
