------------------------------- MODULE Indexer -------------------------------
(***************************************************************************)
(* The chain indexer (apps/indexer/src): PollingIngestionLoop fetches a    *)
(* window of ledgers page by page, PrismaBatchWriter writes its events in  *)
(* one Postgres transaction, and the cursor is checkpointed every few      *)
(* batches.  Events are numbered in chain order.                           *)
(*                                                                         *)
(* Postgres aborts a transaction at its first failing statement: every     *)
(* later statement fails, and COMMIT rolls back without an error.  A       *)
(* statement fails for good (a market without a row, shares that do not    *)
(* fit their integer column) or this time only (a deadlock, a timeout).    *)
(***************************************************************************)
EXTENDS Integers, FiniteSets

CONSTANTS
    NumEvents,   \* events of the contract, over the whole run
    Kinds,       \* the kinds of events that occur
    MaxLedger,   \* bound on the ledgers the network closes
    Markets,     \* market ids that occur in events
    Unlisted,    \* those without a row in markets at first
    Window,      \* INDEXER_LEDGER_WINDOW_SIZE
    FlushEvery,  \* INDEXER_CHECKPOINT_FLUSH_EVERY_BATCHES
    PageLimit,   \* events per RPC page
    MaxFaults    \* bound on crashes, shutdowns, failed calls and statements

ASSUME ConstantsAssumption ==
    /\ NumEvents \in Nat /\ MaxLedger \in Nat \ {0} /\ MaxFaults \in Nat
    /\ Window \in Nat \ {0} /\ FlushEvery \in Nat \ {0} /\ PageLimit \in Nat \ {0}
    /\ Unlisted \subseteq Markets
    /\ Kinds \subseteq {"trade", "empty_trade", "large_trade", "resolution", "deposit",
                       "market_created", "other"}

Events == 1..NumEvents

\* An "empty_trade" has no positive quantity, a "large_trade" one that takes a
\* position out of the range of Int.  "other" are events of other topics and
\* events whose payload does not parse.
Trades == {"trade", "empty_trade", "large_trade"} \cap Kinds

NoCursor == -1

VARIABLES
    chain,      \* the events the contract emits
    head,       \* latest closed ledger
    listed,     \* markets that have a row in Postgres
    pc,         \* "down", "idle", "fetch", "write", "save"
    stopping,   \* stop() was called
    cursor,     \* in-memory cursor
    since,      \* successfulBatchesSinceLastCheckpoint
    token,      \* paging token: last event of the previous page, 0 for none
    fetched,    \* events of the window fetched so far
    latest,     \* latestLedger of the last page
    saved,      \* indexer_cursors.cursor_value
    processed,  \* indexer_processed_events
    applied,    \* how often each event's rows were written
    dropped,    \* records of batches that rolled back without an error
    faults      \* faults so far

envVars == <<chain, head, listed, faults>>
loopVars == <<pc, stopping, cursor, since>>
fetchVars == <<token, fetched, latest>>
dbVars == <<saved, processed, applied, dropped>>
vars == <<envVars, loopVars, fetchVars, dbVars>>

Ledger(e) == chain[e].ledger
Kind(e) == chain[e].kind

InChainOrder(c) == \A e, f \in Events : e < f => c[e].ledger <= c[f].ledger

Init ==
    /\ chain \in {c \in [Events -> [ledger: 1..MaxLedger, kind: Kinds, market: Markets]] :
                     InChainOrder(c)}
    /\ head = 1
    /\ listed = Markets \ Unlisted
    /\ pc = "down"
    /\ stopping = FALSE
    /\ cursor = NoCursor
    /\ since = 0
    /\ token = 0
    /\ fetched = {}
    /\ latest = 0
    /\ saved = NoCursor
    /\ processed = {}
    /\ applied = [e \in Events |-> 0]
    /\ dropped = {}
    /\ faults = 0

-----------------------------------------------------------------------------
(* The environment *)

\* The network closes a ledger.
CloseLedger ==
    /\ head < MaxLedger
    /\ head' = head + 1
    /\ UNCHANGED <<chain, listed, faults, loopVars, fetchVars, dbVars>>

\* Somebody inserts the row of a market.
ListMarket ==
    /\ \E m \in Markets \ listed : listed' = listed \cup {m}
    /\ UNCHANGED <<chain, head, faults, loopVars, fetchVars, dbVars>>

Fault == faults < MaxFaults /\ faults' = faults + 1

-----------------------------------------------------------------------------
(* The ingestion loop *)

Sequence(c) == IF c = NoCursor THEN 0 ELSE c
StartLedger == Sequence(cursor) + 1
EndLedger == StartLedger + Window - 1
LastOf(x, y) == IF x <= y THEN x ELSE y

\* Mutant: the first tick starts before the cursor is loaded.
BootFromScratch ==
    /\ pc = "down"
    /\ pc' = "idle"
    /\ stopping' = FALSE
    /\ cursor' = NoCursor
    /\ since' = 0
    /\ UNCHANGED <<envVars, fetchVars, dbVars>>

\* bootstrap: the loop starts from the persisted cursor.
Boot ==
    /\ pc = "down"
    /\ pc' = "idle"
    /\ stopping' = FALSE
    /\ cursor' = saved
    /\ since' = 0
    /\ UNCHANGED <<envVars, fetchVars, dbVars>>

\* tick: a timer tick starts unless one is in progress.
Tick ==
    /\ pc = "idle" /\ ~ stopping
    /\ pc' = "fetch"
    /\ token' = 0 /\ fetched' = {} /\ latest' = 0
    /\ UNCHANGED <<stopping, cursor, since, envVars, dbVars>>

\* The end of a tick that returned nextCursor c: flushCheckpoint(false) saves
\* it when enough batches have gone by.
Advance(c) ==
    IF c # cursor
    THEN /\ cursor' = c
         /\ since' = since + 1
         /\ pc' = IF since + 1 < FlushEvery THEN "idle" ELSE "save"
         /\ UNCHANGED stopping
    ELSE /\ pc' = "idle"
         /\ UNCHANGED <<cursor, since, stopping>>

\* getEvents: the next PageLimit events from startLedger, up to the head.
Available == {e \in Events : token < e /\ StartLedger <= Ledger(e) /\ Ledger(e) <= head}

IsPage(P) ==
    /\ Cardinality(P) <= PageLimit
    /\ Cardinality(P) < PageLimit => P = Available
    /\ \A e \in P, f \in Available \ P : e < f


\* Mutant: only the first page is read.
FirstPageOnly(P) == FALSE

\* A full page whose last event is not past the window is followed by another.
MorePages(P) ==
    Cardinality(P) = PageLimit /\ \A e \in P : Ledger(e) <= EndLedger

\* One turn of the loop of fetchByLedgerWindow.
FetchPage ==
    /\ pc = "fetch"
    /\ \E P \in SUBSET Available :
          /\ IsPage(P)
          /\ fetched' = fetched \cup {e \in P : Ledger(e) <= EndLedger}
          /\ latest' = head
          /\ IF MorePages(P)
             THEN /\ \E last \in P : token' = last /\ \A e \in P : e <= last
                  /\ UNCHANGED loopVars
             ELSE /\ token' = 0
                  /\ IF StartLedger > head
                     THEN Advance(Sequence(cursor))
                     ELSE pc' = "write" /\ UNCHANGED <<stopping, cursor, since>>
    /\ UNCHANGED <<envVars, dbVars>>

\* The RPC fails for good, or the retries are exhausted: the tick is over.
FetchFail ==
    /\ pc = "fetch" /\ Fault
    /\ pc' = "idle"
    /\ UNCHANGED <<chain, head, listed, stopping, cursor, since, fetchVars, dbVars>>

-----------------------------------------------------------------------------
(* PrismaBatchWriter.write *)

\* The events each parser turns into a record.
parseTradeEvent(e) == Kind(e) \in Trades
parseResolutionEvent(e) == Kind(e) = "resolution"
parseCollateralDepositedEvent(e) == Kind(e) = "deposit"

\* The parser of "market_created" events calls normalizeEndTime or
\* parseMarketCreatedEvent, which are defined nowhere: it always throws.
parseMarketCreatedChainEvent(e) == FALSE

IsRecord(e) ==
    \/ parseMarketCreatedChainEvent(e)
    \/ parseTradeEvent(e) \/ parseResolutionEvent(e) \/ parseCollateralDepositedEvent(e)

\* Records are written in the order market, trade, resolution, deposit.
Rank(e) == IF parseTradeEvent(e) THEN 1 ELSE IF parseResolutionEvent(e) THEN 2 ELSE 3

WrittenBefore(e, f) == Rank(e) < Rank(f) \/ (Rank(e) = Rank(f) /\ e < f)


\* Mutant: no lookup in indexer_processed_events.
NoLookup == {e \in fetched : IsRecord(e)}

\* The records without a row in indexer_processed_events.
Fresh == {e \in fetched : IsRecord(e)} \ processed

\* The position upserts of trade e fail whenever they are tried; a trade
\* without a positive quantity has none.
Unreconcilable(e) ==
    \/ Kind(e) = "large_trade"
    \/ Kind(e) = "trade" /\ chain[e].market \notin listed

\* user_positions and resolution_candidates reference markets.
Violates(e) ==
    Unreconcilable(e) \/ (parseResolutionEvent(e) /\ chain[e].market \notin listed)

Failing == {e \in Fresh : Violates(e)}

\* Mutant: a failing resolution is caught like a failing trade.
OnlyLaterErrors(F, S) == \E u \in F, f \in Fresh : WrittenBefore(u, f)

\* write() returns errors, when a statement fails for each record of F.  The
\* errors of S come from the position upserts of a trade, which
\* reconcileTradeIntoPositions catches and reports to nobody; what they abort
\* is only noticed by a later record.
WriteErrors(F, S) ==
    \E u \in F : u \notin S \/ \E f \in Fresh : WrittenBefore(u, f)

Commit(S) ==
    /\ processed' = processed \cup S
    /\ applied' = [e \in Events |-> IF e \in S THEN applied[e] + 1 ELSE applied[e]]
    /\ UNCHANGED saved


\* Mutant: the cursor moves to the end of the window, closed or not.
NextCursorAhead(F, S) == IF WriteErrors(F, S) THEN Sequence(cursor) ELSE EndLedger

\* nextCursor of the batch.
NextCursor(F, S) ==
    IF WriteErrors(F, S) THEN Sequence(cursor) ELSE LastOf(EndLedger, latest)

\* The transaction ends, having failed for F with S swallowed, and
\* ingestFromCursor returns.
EndBatch(F, S) ==
    /\ pc = "write"
    /\ Commit(IF F = {} THEN Fresh ELSE {})
    /\ dropped' = IF F # {} /\ ~ WriteErrors(F, S) THEN dropped \cup Fresh ELSE dropped
    /\ Advance(NextCursor(F, S))
    /\ UNCHANGED <<chain, head, listed, fetchVars>>

\* Only what must fail fails, ...
Write ==
    EndBatch(Failing, {e \in Failing : parseTradeEvent(e)}) /\ UNCHANGED faults

\* ... or one record more, at a position upsert or at another statement.
WriteAborts ==
    \E e \in Fresh, swallowed \in BOOLEAN :
        /\ swallowed => parseTradeEvent(e) /\ Kind(e) # "empty_trade"
        /\ EndBatch(Failing \cup {e},
                    {f \in Failing \cup {e} : parseTradeEvent(f) /\ (f = e => swallowed)})
        /\ Fault

\* The transaction throws: it was rolled back, or it was committed and the
\* acknowledgement was lost.  The tick is over, the cursor stays.
WriteFail ==
    /\ pc = "write" /\ Fault
    /\ \E S \in {{}, IF Failing # {} THEN {} ELSE Fresh} : Commit(S)
    /\ pc' = "idle"
    /\ UNCHANGED <<chain, head, listed, stopping, cursor, since, fetchVars, dropped>>

\* flushCheckpoint(false) saves the cursor, or saveCursor rejects.
Save ==
    /\ pc = "save"
    /\ saved' = cursor /\ since' = 0
    /\ pc' = "idle"
    /\ UNCHANGED <<envVars, stopping, cursor, fetchVars, processed, applied, dropped>>

SaveFail ==
    /\ pc = "save" /\ Fault
    /\ pc' = "idle"
    /\ UNCHANGED <<chain, head, listed, stopping, cursor, since, fetchVars, dbVars>>

-----------------------------------------------------------------------------
(* Shutdown and crash *)

\* SIGTERM: stop() clears the timers and waits for the tick in progress.
Stop ==
    /\ pc # "down" /\ ~ stopping /\ Fault
    /\ stopping' = TRUE
    /\ UNCHANGED <<chain, head, listed, pc, cursor, since, fetchVars, dbVars>>

\* The rest of stop(): flushCheckpoint(true), then the process exits.
StopFlush ==
    /\ pc = "idle" /\ stopping
    /\ pc' = "down"
    /\ saved' = IF cursor = NoCursor THEN saved ELSE cursor
    /\ UNCHANGED <<envVars, stopping, cursor, since, fetchVars, processed, applied, dropped>>

\* The process dies: a crash, the shutdown timeout, or a failed last flush.
\* A transaction in flight may still commit.
Crash ==
    /\ pc # "down" /\ Fault
    /\ pc' = "down"
    /\ \E S \in {{}, IF pc = "write" /\ Failing = {} THEN Fresh ELSE {}} : Commit(S)
    /\ UNCHANGED <<chain, head, listed, stopping, cursor, since, fetchVars, dropped>>

LoopStep == Tick \/ FetchPage \/ Write \/ Save \/ StopFlush

Next ==
    \/ CloseLedger \/ ListMarket
    \/ Boot \/ LoopStep
    \/ FetchFail \/ WriteAborts \/ WriteFail \/ SaveFail \/ Stop \/ Crash

Spec == Init /\ [][Next]_vars

\* The timer fires, the RPC and Postgres answer, a dead process is restarted,
\* and the network keeps closing ledgers.
FairSpec == Spec /\ WF_vars(LoopStep) /\ WF_vars(Boot) /\ WF_vars(CloseLedger)

-----------------------------------------------------------------------------
(* Properties *)

TypeOK ==
    /\ chain \in [Events -> [ledger: 1..MaxLedger, kind: Kinds, market: Markets]]
    /\ head \in 1..MaxLedger
    /\ listed \subseteq Markets
    /\ pc \in {"down", "idle", "fetch", "write", "save"}
    /\ stopping \in BOOLEAN
    /\ cursor \in (0..MaxLedger) \cup {NoCursor}
    /\ since \in Nat
    /\ token \in 0..NumEvents
    /\ fetched \subseteq Events
    /\ latest \in 0..MaxLedger
    /\ saved \in (0..MaxLedger) \cup {NoCursor}
    /\ processed \subseteq Events
    /\ applied \in [Events -> Nat]
    /\ dropped \subseteq Events
    /\ faults \in 0..MaxFaults

\* Every event is written at most once, through crashes between write and
\* checkpoint, lost acknowledgements and replays of a window.
WrittenOnce == \A e \in Events : applied[e] = (IF e \in processed THEN 1 ELSE 0)

Records == [e \in {f \in Events : IsRecord(f)} |-> Ledger(e)]

Log == INSTANCE EventLog WITH
           ledgerOf <- Records,
           expendable <- {e \in Events : parseTradeEvent(e)},
           written <- processed,
           lost <- dropped,
           checkpoint <- saved

\* The indexer implements EventLog, whatever rows are missing and whatever
\* fails: no event is written twice, the persisted cursor never moves back,
\* and it passes no event but those that are written and trades of a batch
\* that was dropped.
ImplementsEventLog == Log!Spec

\* The persisted cursor never moves back, over crashes, restarts and lost
\* checkpoints (ingestion.ts, stop and flushCheckpoint).
CursorNeverMovesBack == [][saved <= saved']_vars

\* The records up to ledger c are written, or were dropped.
Done(c) ==
    \A e \in Events : IsRecord(e) /\ Ledger(e) <= c => e \in processed \cup dropped

\* A trade whose batch was dropped has the trade that failed with it: no
\* earlier, less than a window away, and failing for good, unless a fault
\* has occurred.
Excused(e) ==
    /\ parseTradeEvent(e)
    /\ \E u \in dropped :
          /\ e <= u /\ Ledger(u) < Ledger(e) + Window
          /\ \/ Kind(u) = "large_trade"
             \/ Kind(u) = "trade" /\ chain[u].market \in Unlisted
             \/ parseTradeEvent(u) /\ faults > 0

\* The persisted cursor passes an event that was not written only if it is a
\* trade, dropped with a trade of its window whose positions could not be
\* updated: resolutions and deposits, and trades out of its reach, are never
\* lost (batchWriter.ts, the catch in reconcileTradeIntoPositions;
\* ingestion.ts, nextCursor).
OnlyTradesAreLost == Done(saved) /\ \A e \in dropped : Excused(e)

\* Every event of a closed ledger is written in the end, whatever failed on
\* the way, or was dropped; a record that can never be written blocks those
\* after it, so there must be none.
EveryEventWritten ==
    \A e \in Events :
        /\ IsRecord(e) /\ Ledger(e) <= head
        /\ \A f \in Events : ~ Violates(f)
        ~> e \in processed \cup dropped

-----------------------------------------------------------------------------
(* The inductive invariant behind the theorems of IndexerProofs *)

\* The cursors are closed ledgers, in order.
CursorInv ==
    /\ pc # "down" => saved <= cursor
    /\ cursor <= head /\ saved <= head

\* Nothing up to the cursors is missing, and what was dropped has an excuse.
DoneInv ==
    /\ Markets \ Unlisted \subseteq listed
    /\ \A e \in dropped : Excused(e)
    /\ pc # "down" => Done(cursor)
    /\ Done(saved)

\* While pages are read, everything up to the paging token is there; when
\* they are read, everything of the window that was closed at the last page.
FetchInv ==
    /\ latest <= head
    /\ pc \in {"fetch", "write"} =>
          \A e \in fetched : StartLedger <= Ledger(e) /\ Ledger(e) <= EndLedger
    /\ pc = "fetch" => \A e \in Events :
          e <= token /\ StartLedger <= Ledger(e) /\ Ledger(e) <= EndLedger
              => e \in fetched
    /\ pc = "write" => /\ StartLedger <= latest
                       /\ \A e \in Events :
                             StartLedger <= Ledger(e) /\ Ledger(e) <= EndLedger
                                 /\ Ledger(e) <= latest => e \in fetched

IInv ==
    /\ TypeOK /\ InChainOrder(chain)
    /\ WrittenOnce /\ \A e \in processed : IsRecord(e)
    /\ CursorInv /\ DoneInv /\ FetchInv
=============================================================================
