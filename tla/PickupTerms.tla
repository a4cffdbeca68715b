---------------------------- MODULE PickupTerms ----------------------------
(* Pickup places: the sealed details a seller keeps per listing, the copy  *)
(* pinned to a paid order, and the buyer's reveal (handlers/pickup.rs).    *)
(*                                                                         *)
(* Every line has its own listing.  terms[l] is that listing's counter and *)
(* rows; a row's place numbers the seller's edits, so two rows agree on    *)
(* place only when they are the same text.                                 *)
EXTENDS OrderLife, FiniteSetsExt

CONSTANT
    MaxEdits    \* bound: how often a seller writes a listing's details

VARIABLES
    terms,      \* [Lines -> [last, cleared, edits, rows]]
    pinned,     \* [Lines -> a row or NoRow]: the order's pickup snapshots
    reveal      \* "hidden", "reading" (checks passed) or "shown" (stamped)

pickupVars == <<terms, pinned, reveal>>

NoRow == [version |-> 0, place |-> 0]

NoTerms == [last |-> 0, cleared |-> FALSE, edits |-> 0, rows |-> {}]

FirstTerms == [last |-> 1, cleared |-> FALSE, edits |-> 1,
               rows |-> {[version |-> 1, place |-> 1]}]

\* The details in force: the newest version, none after a clear.
CurrentDetails(l) ==
    IF terms[l].cleared \/ terms[l].rows = {}
      THEN NoRow
      ELSE CHOOSE r \in terms[l].rows : \A q \in terms[l].rows : q.version <= r.version

\* set: the counter survives clears, so a version number is never used twice.
SetDetails(l) ==
    /\ terms[l].edits < MaxEdits
    /\ LET version == terms[l].last + 1
           place == terms[l].edits + 1
       IN terms' = [terms EXCEPT ![l] =
            [last |-> version, cleared |-> FALSE, edits |-> place,
             rows |-> @.rows \union {[version |-> version, place |-> place]}]]
    /\ UNCHANGED <<pinned, reveal>>

\* Faulty: a clear forgets the counter and the pinned rows.
ForgettingClear(l) ==
    /\ terms' = [terms EXCEPT ![l].cleared = TRUE, ![l].last = 0, ![l].rows = {}]
    /\ UNCHANGED <<pinned, reveal>>

\* clear: deletes the rows no paid, unfinished order pins.
ClearDetails(l) ==
    /\ terms' = [terms EXCEPT ![l].cleared = TRUE,
                              ![l].rows = {r \in @ : /\ r.version = pinned[l].version
                                                     /\ order.receipt
                                                     /\ order.state \notin Terminal}]
    /\ UNCHANGED <<pinned, reveal>>

\* The receipt transaction copies the details in force onto each line.
PinPickupLines ==
    pinned' = IF order.kind = "pickup" 
                THEN [l \in Lines |-> IF l \in OrderLines THEN CurrentDetails(l) ELSE NoRow]
                ELSE pinned

\* The seller replaced or withdrew what a line was paid under.
TermsChanged ==
    /\ order.kind = "pickup"
    /\ \E l \in OrderLines : /\ pinned[l] # NoRow
                        /\ \/ CurrentDetails(l) = NoRow
                           \/ CurrentDetails(l).version > pinned[l].version

\* The buyer's read: checks, then a later statement that stamps the reveal.
StartReveal ==
    /\ reveal = "hidden"
    /\ order.kind = "pickup" /\ order.receipt
    /\ order.state \notin Terminal
    /\ \E l \in OrderLines : pinned[l] # NoRow
    /\ reveal' = "reading"
    /\ UNCHANGED <<terms, pinned>>

StampReveal ==
    /\ reveal = "reading"
    /\ reveal' = "shown"
    /\ UNCHANGED <<terms, pinned>>

=============================================================================
