------------------------------ MODULE EventLog ------------------------------
(***************************************************************************)
(* What the indexer promises (docs/indexer-ledger-cursor.md): every event  *)
(* is written once, and the cursor is the last ledger whose events, and    *)
(* those of all ledgers before it, have been written.  The code keeps the  *)
(* second half for all events but the expendable ones, which it may give   *)
(* up without a trace.                                                     *)
(***************************************************************************)
EXTENDS Integers

VARIABLES
    ledgerOf,    \* the events to index and the ledger that carries each
    expendable,  \* the events that may be given up
    written,     \* events whose rows are in the database
    lost,        \* events given up
    checkpoint   \* the persisted cursor, -1 when there is none

Covered(c) == {e \in DOMAIN ledgerOf : ledgerOf[e] <= c}

Init == written = {} /\ lost = {} /\ checkpoint = -1

\* A batch of new events is written.
WriteBatch ==
    /\ \E S \in SUBSET (DOMAIN ledgerOf \ written) : written' = written \cup S
    /\ UNCHANGED <<ledgerOf, expendable, lost, checkpoint>>

\* A batch of expendable events is given up.
DropBatch ==
    /\ \E S \in SUBSET (expendable \ written) : lost' = lost \cup S
    /\ UNCHANGED <<ledgerOf, expendable, written, checkpoint>>

\* The cursor moves forward over events that are written or lost.
Checkpoint ==
    /\ checkpoint' >= checkpoint
    /\ Covered(checkpoint') \subseteq written \cup lost
    /\ UNCHANGED <<ledgerOf, expendable, written, lost>>

Next == WriteBatch \/ DropBatch \/ Checkpoint

Spec == Init /\ [][Next]_<<ledgerOf, expendable, written, lost, checkpoint>>
=============================================================================
