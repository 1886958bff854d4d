--------------------------- MODULE IndexerProofs ---------------------------
(***************************************************************************)
(* Proofs about Indexer: IInv is inductive, every event is written once,   *)
(* only trades are lost, and the indexer implements EventLog.              *)
(***************************************************************************)
EXTENDS Indexer, FiniteSetTheorems, TLAPS

\* The numbers the other proofs compute with.
LEMMA Numbers ==
    ASSUME TypeOK
    PROVE  /\ head \in Int /\ latest \in Int /\ token \in Int /\ since \in Nat
           /\ cursor \in Int /\ cursor >= -1 /\ saved \in Int /\ saved >= -1
           /\ Sequence(cursor) \in Nat /\ cursor <= Sequence(cursor)
           /\ StartLedger \in Int /\ EndLedger \in Int
           /\ StartLedger = Sequence(cursor) + 1 /\ StartLedger <= EndLedger
           /\ \A e \in Events : e \in Int /\ Ledger(e) \in Int /\ Ledger(e) >= 1
                                /\ Ledger(e) <= MaxLedger
<1>1. /\ head \in Int /\ latest \in Int /\ token \in Int /\ since \in Nat
      /\ cursor \in Int /\ cursor >= -1 /\ saved \in Int /\ saved >= -1
  BY ConstantsAssumption DEF TypeOK, NoCursor
<1>2. /\ Sequence(cursor) \in Nat /\ cursor <= Sequence(cursor)
  BY <1>1 DEF Sequence, NoCursor
<1>3. /\ StartLedger \in Int /\ EndLedger \in Int
      /\ StartLedger = Sequence(cursor) + 1 /\ StartLedger <= EndLedger
  BY <1>2, ConstantsAssumption DEF StartLedger, EndLedger
<1>4. ASSUME NEW e \in Events
      PROVE  e \in Int /\ Ledger(e) \in Int /\ Ledger(e) >= 1 /\ Ledger(e) <= MaxLedger
  <2>1. chain[e] \in [ledger: 1..MaxLedger, kind: Kinds, market: Markets]
    BY DEF TypeOK
  <2> QED  BY <2>1, ConstantsAssumption DEF Ledger, Events
<1> QED  BY <1>1, <1>2, <1>3, <1>4

\* The chain decides what a record is, and its ledger.
LEMMA SameChain ==
    ASSUME UNCHANGED chain
    PROVE  /\ UNCHANGED Events
           /\ \A e \in Events : /\ IsRecord(e)' <=> IsRecord(e)
                                /\ Ledger(e)' = Ledger(e)
BY DEF Events, Ledger, IsRecord, parseTradeEvent, parseResolutionEvent,
   parseCollateralDepositedEvent, parseMarketCreatedChainEvent, Kind

\* An excuse stays one.
LEMMA ExcuseStays ==
    ASSUME TypeOK, TypeOK', UNCHANGED chain, dropped \subseteq dropped', faults <= faults'
    PROVE  \A e \in Events : Excused(e) => Excused(e)'
<1> SUFFICES ASSUME NEW e \in Events, Excused(e) PROVE Excused(e)'
  OBVIOUS
<1>1. PICK u \in dropped :
        /\ e <= u /\ Ledger(u) < Ledger(e) + Window
        /\ \/ Kind(u) = "large_trade"
           \/ Kind(u) = "trade" /\ chain[u].market \in Unlisted
           \/ parseTradeEvent(u) /\ faults > 0
  BY DEF Excused
<1>2. parseTradeEvent(e)
  BY DEF Excused
<1>3. /\ Kind(u)' = Kind(u) /\ Ledger(u)' = Ledger(u) /\ Ledger(e)' = Ledger(e)
      /\ (parseTradeEvent(u)' <=> parseTradeEvent(u)) /\ (parseTradeEvent(e)' <=> parseTradeEvent(e))
  BY DEF Kind, Ledger, parseTradeEvent
<1>4. faults > 0 => faults' > 0
  <2>1. faults \in Int /\ faults' \in Int
    BY ConstantsAssumption DEF TypeOK
  <2> QED  BY <2>1
<1>5. u \in dropped'
  OBVIOUS
<1> QED  BY <1>1, <1>2, <1>3, <1>4, <1>5 DEF Excused

\* The initial states satisfy the invariant.
LEMMA InitInv == Init => IInv
<1> SUFFICES ASSUME Init PROVE IInv
  OBVIOUS
<1>1. TypeOK
  <2>1. chain \in [Events -> [ledger: 1..MaxLedger, kind: Kinds, market: Markets]]
    BY DEF Init
  <2>2. /\ applied \in [Events -> Nat] /\ processed \subseteq Events /\ fetched \subseteq Events
        /\ dropped \subseteq Events
    BY DEF Init
  <2>3. /\ head \in 1..MaxLedger /\ token \in 0..NumEvents /\ latest \in 0..MaxLedger
        /\ faults \in 0..MaxFaults /\ since \in Nat
    BY ConstantsAssumption DEF Init
  <2> QED  BY <2>1, <2>2, <2>3 DEF Init, TypeOK
<1>2. InChainOrder(chain)
  BY DEF Init
<1>3. WrittenOnce /\ \A e \in processed : IsRecord(e)
  BY DEF Init, WrittenOnce
<1>4. CursorInv
  BY DEF Init, CursorInv, NoCursor
<1>5. DoneInv
  BY <1>1, Numbers DEF Init, DoneInv, Done, NoCursor
<1>6. FetchInv
  BY DEF Init, FetchInv
<1> QED  BY <1>1, <1>2, <1>3, <1>4, <1>5, <1>6 DEF IInv

\* What a committed batch of fresh records does to the tables.
LEMMA CommitStep ==
    ASSUME IInv, NEW S \in SUBSET Fresh, Commit(S), UNCHANGED chain
    PROVE  /\ processed \subseteq processed' /\ S \subseteq processed'
           /\ processed' \subseteq Events /\ applied' \in [Events -> Nat]
           /\ WrittenOnce' /\ (\A e \in processed : IsRecord(e))'
<1>1. S \subseteq Events /\ S \cap processed = {} /\ \A e \in S : IsRecord(e)
  BY DEF Fresh, IInv, TypeOK
<1>2. processed' = processed \cup S
  BY DEF Commit
<1>3. \A e \in Events : IsRecord(e)' <=> IsRecord(e)
  BY DEF IsRecord, parseTradeEvent, parseResolutionEvent,
     parseCollateralDepositedEvent, parseMarketCreatedChainEvent, Kind
<1>4. processed' \subseteq Events /\ applied' \in [Events -> Nat]
  <2>1. applied \in [Events -> Nat] /\ processed \subseteq Events
    BY DEF IInv, TypeOK
  <2>2. applied' = [e \in Events |-> IF e \in S THEN applied[e] + 1 ELSE applied[e]]
    BY DEF Commit
  <2>3. \A e \in Events : applied[e] \in Nat /\ applied[e] + 1 \in Nat
    BY <2>1
  <2> QED  BY <1>1, <1>2, <2>1, <2>2, <2>3
<1>5. WrittenOnce'
  <2> SUFFICES ASSUME NEW e \in Events
               PROVE  applied'[e] = (IF e \in processed' THEN 1 ELSE 0)
    BY DEF WrittenOnce, Events
  <2>1. applied[e] = (IF e \in processed THEN 1 ELSE 0)
    BY DEF IInv, WrittenOnce
  <2>2. applied'[e] = IF e \in S THEN applied[e] + 1 ELSE applied[e]
    BY DEF Commit
  <2> QED  BY <1>1, <1>2, <2>1, <2>2
<1>6. (\A e \in processed : IsRecord(e))'
  BY <1>1, <1>2, <1>3, <1>4 DEF IInv
<1> QED  BY <1>1, <1>2, <1>4, <1>5, <1>6

\* Where a tick that returns nextCursor c leaves the loop.
LEMMA AdvanceStep ==
    ASSUME TypeOK, NEW c \in 0..MaxLedger, Advance(c)
    PROVE  /\ cursor' = c /\ since' \in Nat /\ pc' \in {"idle", "save"}
           /\ stopping' = stopping
BY DEF Advance, TypeOK

\* The next cursor of a batch is a closed ledger, not before the cursor.
LEMMA NextCursorBounds ==
    ASSUME IInv, pc = "write", NEW F, NEW S
    PROVE  /\ NextCursor(F, S) \in 0..MaxLedger
           /\ NextCursor(F, S) >= cursor /\ NextCursor(F, S) <= head
<1>1. TypeOK /\ cursor <= head /\ latest <= head /\ StartLedger <= latest
  BY DEF IInv, CursorInv, FetchInv
<1>2. /\ head \in Int /\ latest \in Int /\ cursor \in Int
      /\ Sequence(cursor) \in Nat /\ cursor <= Sequence(cursor)
      /\ StartLedger \in Int /\ EndLedger \in Int
      /\ StartLedger = Sequence(cursor) + 1 /\ StartLedger <= EndLedger
  BY <1>1, Numbers
<1>3. head <= MaxLedger /\ MaxLedger \in Nat
  BY <1>1, ConstantsAssumption DEF TypeOK
<1>4. LastOf(EndLedger, latest) \in Int /\ StartLedger <= LastOf(EndLedger, latest)
      /\ LastOf(EndLedger, latest) <= latest
  BY <1>1, <1>2 DEF LastOf
<1>5. NextCursor(F, S) \in {Sequence(cursor), LastOf(EndLedger, latest)}
  BY DEF NextCursor
<1> QED  BY <1>1, <1>2, <1>3, <1>4, <1>5

\* NextCursor leaves nothing behind: what the window holds up to it was in a
\* batch that ended without an error.
LEMMA WriteCovers ==
    ASSUME IInv, pc = "write", NEW F, NEW S,
           NEW e \in Events, IsRecord(e), Ledger(e) <= NextCursor(F, S)
    PROVE  e \in processed \cup dropped \/ (~ WriteErrors(F, S) /\ e \in Fresh)
<1>1. TypeOK /\ Done(cursor)
  BY DEF IInv, DoneInv
<1>2. /\ cursor \in Int /\ Ledger(e) \in Int /\ Ledger(e) >= 1 /\ latest \in Int
      /\ StartLedger \in Int /\ EndLedger \in Int /\ Sequence(cursor) \in Nat
      /\ StartLedger = Sequence(cursor) + 1
  BY <1>1, Numbers
<1>3. Sequence(cursor) = cursor \/ Sequence(cursor) = 0
  BY DEF Sequence
<1>4. CASE Ledger(e) <= Sequence(cursor)
  BY <1>1, <1>2, <1>3, <1>4 DEF Done
<1>5. CASE ~ (Ledger(e) <= Sequence(cursor)) /\ e \notin processed
  <2>1. ~ WriteErrors(F, S) /\ NextCursor(F, S) = LastOf(EndLedger, latest)
    BY <1>5 DEF NextCursor
  <2>2. StartLedger <= Ledger(e) /\ Ledger(e) <= EndLedger /\ Ledger(e) <= latest
    BY <1>2, <1>5, <2>1 DEF LastOf
  <2>3. e \in Fresh
    BY <1>5, <2>2 DEF IInv, FetchInv, Fresh
  <2> QED  BY <2>1, <2>3
<1> QED  BY <1>4, <1>5

\* A batch that rolls back without an error consists of trades, and the one
\* whose positions failed is its last.
LEMMA OnlyTradesAreDropped ==
    ASSUME IInv, pc = "write", NEW F \in SUBSET Fresh, F # {}, NEW S,
           \A u \in F \cap S : parseTradeEvent(u), ~ WriteErrors(F, S)
    PROVE  \E u \in F \cap S : \A e \in Fresh :
              parseTradeEvent(e) /\ e <= u /\ Ledger(u) < Ledger(e) + Window
<1>1. TypeOK /\ Fresh \subseteq Events
  BY DEF IInv, Fresh, TypeOK
<1>2. PICK u \in F : TRUE
  OBVIOUS
<1>3. u \in S /\ \A f \in Fresh : ~ WrittenBefore(u, f)
  BY <1>2 DEF WriteErrors
<1>4. parseTradeEvent(u)
  BY <1>2, <1>3
<1>5. ASSUME NEW e \in Fresh
      PROVE  parseTradeEvent(e) /\ e <= u /\ Ledger(u) < Ledger(e) + Window
  <2>1. ~ WrittenBefore(u, e)
    BY <1>3
  <2>2. parseTradeEvent(e)
    BY <1>4, <2>1 DEF WrittenBefore, Rank
  <2>3. e \in Int /\ u \in Int
    BY <1>1, <1>2, Numbers
  <2>4. e <= u
    BY <1>4, <2>1, <2>2, <2>3 DEF WrittenBefore, Rank
  <2>5. StartLedger <= Ledger(e) /\ Ledger(u) <= EndLedger
    BY <1>2 DEF IInv, FetchInv, Fresh
  <2>6. /\ Ledger(e) \in Int /\ Ledger(u) \in Int
        /\ StartLedger \in Int /\ EndLedger \in Int
    BY <1>1, <1>2, Numbers
  <2>7. Ledger(u) < Ledger(e) + Window
    BY <2>5, <2>6, ConstantsAssumption DEF EndLedger
  <2> QED  BY <2>2, <2>4, <2>7
<1> QED  BY <1>2, <1>3, <1>5

\* A page leaves no gap behind the paging token, nor in the window when it is
\* the last one.
LEMMA PageCovers ==
    ASSUME IInv, pc = "fetch", NEW P \in SUBSET Available, IsPage(P),
           NEW F, F = fetched \cup {e \in P : Ledger(e) <= EndLedger}
    PROVE  /\ P \subseteq Events
           /\ MorePages(P) => \A last \in P : (\A e \in P : e <= last) =>
                 \A e \in Events : e <= last /\ StartLedger <= Ledger(e)
                                     /\ Ledger(e) <= EndLedger => e \in F
           /\ ~ MorePages(P) =>
                 \A e \in Events : StartLedger <= Ledger(e) /\ Ledger(e) <= EndLedger
                                     /\ Ledger(e) <= head => e \in F
<1>1. TypeOK /\ P \subseteq Events
  BY DEF IInv, Available
<1>2. /\ token \in Int /\ head \in Int /\ StartLedger \in Int /\ EndLedger \in Int
      /\ \A e \in Events : e \in Int /\ Ledger(e) \in Int
  BY <1>1, Numbers
<1>3. \A e, f \in Events : e < f => Ledger(e) <= Ledger(f)
  BY DEF IInv, InChainOrder, Ledger
<1>4. \A e \in Events : e <= token /\ StartLedger <= Ledger(e) /\ Ledger(e) <= EndLedger
                            => e \in fetched
  BY DEF IInv, FetchInv
<1>5. Cardinality(P) \in Nat
  <2>1. IsFiniteSet(Events)
    BY ConstantsAssumption, FS_Interval DEF Events
  <2> QED  BY <1>1, <2>1, FS_Subset, FS_CardinalityType
<1>6. ASSUME NEW last \in P, NEW e \in Events, e <= last,
             StartLedger <= Ledger(e), Ledger(e) <= EndLedger
      PROVE  e \in F
  <2>1. CASE e <= token
    BY <1>4, <1>6, <2>1
  <2>2. CASE token < e
    <3>1. last \in Events /\ Ledger(last) <= head
      BY DEF Available
    <3>2. Ledger(e) <= Ledger(last)
      BY <1>2, <1>3, <1>6, <3>1
    <3>3. Ledger(e) <= head
      BY <1>2, <3>1, <3>2
    <3>4. e \in Available
      BY <1>6, <2>2, <3>3 DEF Available
    <3>5. e \in P
      BY <1>2, <1>6, <3>1, <3>4 DEF IsPage
    <3> QED  BY <1>6, <3>5
  <2> QED  BY <1>2, <2>1, <2>2
<1>7. ASSUME ~ MorePages(P), NEW e \in Events, StartLedger <= Ledger(e),
             Ledger(e) <= EndLedger, Ledger(e) <= head
      PROVE  e \in F
  <2>1. CASE e <= token
    BY <1>4, <1>7, <2>1
  <2>2. CASE token < e
    <3>1. e \in Available
      BY <1>7, <2>2 DEF Available
    <3>2. CASE Cardinality(P) # PageLimit
      <4>1. P = Available
        BY <1>5, <3>2, ConstantsAssumption DEF IsPage
      <4> QED  BY <1>7, <3>1, <4>1
    <3>3. CASE Cardinality(P) = PageLimit
      <4>1. PICK f \in P : ~ (Ledger(f) <= EndLedger)
        BY <1>7, <3>3 DEF MorePages
      <4>2. f \in Events
        BY <1>1
      <4>3. ~ (f < e)
        BY <1>2, <1>3, <1>7, <4>1, <4>2
      <4>4. e \in P
        BY <3>1, <4>3 DEF IsPage
      <4> QED  BY <1>7, <4>4
    <3> QED  BY <3>2, <3>3
  <2> QED  BY <1>2, <2>1, <2>2
<1> QED  BY <1>1, <1>6, <1>7

\* Steps that leave the data alone: the environment's, and failed calls.
LEMMA FrameStep ==
    ASSUME IInv, TypeOK', UNCHANGED <<chain, cursor, fetchVars, dbVars>>,
           head <= head', listed \subseteq listed', faults <= faults',
           pc' = pc \/ (pc # "down" /\ pc' = "idle")
    PROVE  IInv'
<1>1. TypeOK /\ head \in Int /\ head' \in Int
  BY Numbers DEF IInv, TypeOK
<1>2. \A e \in Events : /\ IsRecord(e)' <=> IsRecord(e)
                        /\ Ledger(e)' = Ledger(e)
                        /\ Excused(e) => Excused(e)'
  BY <1>1, SameChain, ExcuseStays DEF dbVars
<1>3. UNCHANGED <<StartLedger, EndLedger, Events>>
  BY DEF StartLedger, EndLedger, Sequence, Events
<1>4. InChainOrder(chain)'
  BY <1>3 DEF IInv, InChainOrder
<1>5. WrittenOnce' /\ (\A e \in processed : IsRecord(e))'
  BY <1>2, <1>3 DEF IInv, WrittenOnce, dbVars, TypeOK
<1>6. CursorInv'
  BY <1>1, Numbers DEF IInv, CursorInv, dbVars
<1>7. DoneInv'
  BY <1>2, <1>3 DEF IInv, DoneInv, Done, dbVars, TypeOK
<1>8. FetchInv'
  BY <1>1, <1>2, <1>3, Numbers DEF IInv, TypeOK, FetchInv, fetchVars
<1> QED  BY <1>4, <1>5, <1>6, <1>7, <1>8 DEF IInv

\* Steps that end outside "fetch" and "write": the cursors may move to closed
\* ledgers whose records are written.
LEMMA CursorStep ==
    ASSUME IInv, TypeOK', UNCHANGED <<chain, head, listed>>, latest' <= head,
           WrittenOnce', (\A e \in processed : IsRecord(e))',
           (\A e \in dropped : Excused(e))',
           pc' \notin {"fetch", "write"},
           pc' # "down" => saved' <= cursor',
           cursor' <= head, saved' <= head,
           pc' # "down" => Done(cursor)', Done(saved)'
    PROVE  IInv'
<1>1. UNCHANGED Events
  BY DEF Events
<1>2. InChainOrder(chain)'
  BY <1>1 DEF IInv, InChainOrder
<1>3. CursorInv' /\ DoneInv' /\ FetchInv'
  BY DEF IInv, CursorInv, DoneInv, FetchInv
<1> QED  BY <1>2, <1>3 DEF IInv

\* What is done stays done.
LEMMA DoneGrows ==
    ASSUME UNCHANGED chain, processed \subseteq processed', dropped \subseteq dropped',
           NEW c, Done(c)
    PROVE  \A e \in Events : IsRecord(e)' /\ Ledger(e)' <= c
                                 => e \in processed' \cup dropped'
BY SameChain DEF Done

\* A failed or interrupted transaction keeps the invariant.
LEMMA AbandonStep ==
    ASSUME IInv, WriteFail \/ Crash
    PROVE  IInv'
<1>1. TypeOK /\ Fault /\ pc' \in {"idle", "down"} /\ (pc' = "idle" => pc = "write")
  BY DEF IInv, WriteFail, Crash
<1>2. UNCHANGED <<chain, head, listed, stopping, cursor, since, fetchVars, dropped>>
  BY DEF WriteFail, Crash
<1>3. PICK S \in SUBSET Fresh : Commit(S)
  BY DEF WriteFail, Crash
<1>4. /\ processed \subseteq processed' /\ S \subseteq processed'
      /\ processed' \subseteq Events /\ applied' \in [Events -> Nat]
      /\ WrittenOnce' /\ (\A e \in processed : IsRecord(e))'
  BY <1>2, <1>3, CommitStep
<1>5. UNCHANGED saved
  BY <1>3 DEF Commit
<1>6. TypeOK'
  <2>1. faults' \in 0..MaxFaults
    BY <1>1, ConstantsAssumption DEF TypeOK, Fault
  <2>2. UNCHANGED Events
    BY DEF Events
  <2> QED  BY <1>1, <1>2, <1>4, <1>5, <2>1, <2>2 DEF TypeOK, fetchVars
<1>7. /\ latest' <= head /\ cursor' <= head /\ saved' <= head
      /\ pc' # "down" => saved' <= cursor'
  BY <1>1, <1>2, <1>5 DEF IInv, CursorInv, FetchInv, fetchVars
<1>8. (pc' # "down" => Done(cursor)') /\ Done(saved)'
  <2>1. Done(saved) /\ (pc' # "down" => Done(cursor))
    BY <1>1 DEF IInv, DoneInv
  <2>2. UNCHANGED Events
    BY DEF Events
  <2> QED  BY <1>2, <1>4, <1>5, <2>1, <2>2, DoneGrows DEF Done
<1>9. (\A e \in dropped : Excused(e))'
  <2>1. faults <= faults'
    BY <1>1, ConstantsAssumption DEF TypeOK, Fault
  <2>2. dropped \subseteq Events /\ \A e \in dropped : Excused(e)
    BY DEF IInv, DoneInv, TypeOK
  <2> QED  BY <1>1, <1>2, <1>6, <2>1, <2>2, ExcuseStays
<1> QED  BY <1>1, <1>2, <1>4, <1>6, <1>7, <1>8, <1>9, CursorStep

\* A batch that ends the tick keeps the invariant, when the swallowed errors
\* have an excuse.
LEMMA EndBatchStep ==
    ASSUME IInv, NEW F \in SUBSET Fresh, NEW S, EndBatch(F, S),
           faults' \in 0..MaxFaults, faults <= faults',
           \A u \in F \cap S :
              /\ parseTradeEvent(u)
              /\ \/ Kind(u) = "large_trade"
                 \/ Kind(u) = "trade" /\ chain[u].market \in Unlisted
                 \/ faults' > 0
    PROVE  IInv'
<1>1. TypeOK /\ pc = "write" /\ Advance(NextCursor(F, S))
  BY DEF IInv, EndBatch
<1>2. UNCHANGED <<chain, head, listed, fetchVars>>
  BY DEF EndBatch
<1>3. DEFINE B == IF F = {} THEN Fresh ELSE {}
<1>4. B \subseteq Fresh /\ Commit(B)
  BY DEF EndBatch
<1>5. /\ processed \subseteq processed' /\ B \subseteq processed'
      /\ processed' \subseteq Events /\ applied' \in [Events -> Nat]
      /\ WrittenOnce' /\ (\A e \in processed : IsRecord(e))'
  BY <1>2, <1>4, CommitStep
<1>6. UNCHANGED saved
  BY <1>4 DEF Commit
<1>7. /\ NextCursor(F, S) \in 0..MaxLedger /\ NextCursor(F, S) >= cursor
      /\ NextCursor(F, S) <= head
  BY <1>1, NextCursorBounds
<1>8. /\ cursor' = NextCursor(F, S) /\ since' \in Nat /\ pc' \in {"idle", "save"}
      /\ stopping' = stopping
  BY <1>1, <1>7, AdvanceStep
<1>d. /\ dropped' = IF F # {} /\ ~ WriteErrors(F, S) THEN dropped \cup Fresh ELSE dropped
      /\ dropped \subseteq dropped' /\ dropped' \subseteq Events
  <2>1. dropped \subseteq Events /\ Fresh \subseteq Events
    BY <1>1 DEF TypeOK, Fresh
  <2>2. dropped' = IF F # {} /\ ~ WriteErrors(F, S) THEN dropped \cup Fresh ELSE dropped
    BY DEF EndBatch
  <2> QED  BY <2>1, <2>2
<1>9. TypeOK'
  <2>1. UNCHANGED Events
    BY DEF Events
  <2>2. cursor' \in (0..MaxLedger) \cup {NoCursor}
    BY <1>7, <1>8
  <2> QED  BY <1>1, <1>2, <1>5, <1>6, <1>8, <1>d, <2>1, <2>2 DEF TypeOK, fetchVars
<1>10. /\ latest' <= head /\ cursor' <= head /\ saved' <= head
       /\ saved' <= cursor'
  <2>1. saved <= cursor /\ saved <= head /\ latest <= head
    BY <1>1 DEF IInv, CursorInv, FetchInv
  <2>2. saved \in Int /\ cursor \in Int /\ NextCursor(F, S) \in Int
    BY <1>1, <1>7, Numbers
  <2> QED  BY <1>2, <1>6, <1>7, <1>8, <2>1, <2>2 DEF fetchVars
<1>11. Done(cursor)' /\ Done(saved)'
  <2>1. Done(saved)
    BY DEF IInv, DoneInv
  <2>2. UNCHANGED Events
    BY DEF Events
  <2>3. Done(saved)'
    BY <1>2, <1>5, <1>6, <1>d, <2>1, <2>2, DoneGrows DEF Done
  <2>4. ASSUME NEW e \in Events, IsRecord(e), Ledger(e) <= NextCursor(F, S)
        PROVE  e \in processed' \cup dropped'
    <3>1. e \in processed \cup dropped \/ (~ WriteErrors(F, S) /\ e \in Fresh)
      BY <1>1, <2>4, WriteCovers
    <3> QED  BY <1>5, <1>d, <3>1
  <2>5. Done(cursor)'
    BY <1>2, <1>8, <2>4, SameChain DEF Done
  <2> QED  BY <2>3, <2>5
<1>12. (\A e \in dropped : Excused(e))'
  <2>1. ASSUME NEW e \in dropped PROVE Excused(e)'
    <3>1. e \in Events /\ Excused(e)
      BY DEF IInv, DoneInv, TypeOK
    <3> QED  BY <1>1, <1>2, <1>9, <1>d, <3>1, ExcuseStays
  <2>2. ASSUME F # {}, ~ WriteErrors(F, S), NEW e \in Fresh PROVE Excused(e)'
    <3>1. PICK u \in F \cap S : \A f \in Fresh :
             parseTradeEvent(f) /\ f <= u /\ Ledger(u) < Ledger(f) + Window
      BY <1>1, <2>2, OnlyTradesAreDropped
    <3>2. u \in dropped' /\ parseTradeEvent(u) /\ parseTradeEvent(e)
      BY <1>d, <2>2, <3>1
    <3>3. /\ Kind(u)' = Kind(u) /\ Ledger(u)' = Ledger(u) /\ Ledger(e)' = Ledger(e)
          /\ parseTradeEvent(u)' /\ parseTradeEvent(e)' /\ chain'[u] = chain[u]
      BY <1>2, <3>2 DEF Kind, Ledger, parseTradeEvent
    <3>4. \/ Kind(u) = "large_trade"
          \/ Kind(u) = "trade" /\ chain[u].market \in Unlisted
          \/ faults' > 0
      BY <3>1
    <3> QED  BY <3>1, <3>2, <3>3, <3>4 DEF Excused
  <2> QED  BY <1>d, <2>1, <2>2
<1> QED  BY <1>1, <1>2, <1>5, <1>8, <1>9, <1>10, <1>11, <1>12, CursorStep

\* What both forms of a batch share: the failing records are fresh ones, and
\* every swallowed error is a trade's and has an excuse.
LEMMA BatchForms ==
    ASSUME IInv, Write \/ WriteAborts
    PROVE  \E F, S \in SUBSET Fresh :
              /\ EndBatch(F, S)
              /\ faults' \in 0..MaxFaults /\ faults <= faults'
              /\ \A u \in S :
                    /\ parseTradeEvent(u)
                    /\ \/ Kind(u) = "large_trade"
                       \/ Kind(u) = "trade" /\ chain[u].market \in Unlisted
                       \/ faults' > 0
<1>1. TypeOK /\ Markets \ Unlisted \subseteq listed /\ Fresh \subseteq Events
  BY DEF IInv, DoneInv, Fresh, TypeOK
<1>2. ASSUME NEW u \in Failing, parseTradeEvent(u)
      PROVE  Kind(u) = "large_trade" \/ (Kind(u) = "trade" /\ chain[u].market \in Unlisted)
  <2>1. u \in Events /\ Violates(u)
    BY <1>1 DEF Failing
  <2>2. chain[u] \in [ledger: 1..MaxLedger, kind: Kinds, market: Markets]
    BY <1>1, <2>1 DEF TypeOK
  <2>3. ~ parseResolutionEvent(u)
    BY <1>2 DEF parseTradeEvent, parseResolutionEvent, Trades
  <2> QED  BY <1>1, <2>1, <2>2, <2>3 DEF Violates, Unreconcilable
<1>3. Failing \subseteq Fresh
  BY DEF Failing
<1>4. CASE Write
  <2>1. /\ EndBatch(Failing, {e \in Failing : parseTradeEvent(e)})
        /\ faults' = faults
    BY <1>4 DEF Write
  <2>2. faults' \in 0..MaxFaults /\ faults <= faults'
    BY <1>1, <2>1, ConstantsAssumption DEF TypeOK
  <2> DEFINE T == {e \in Failing : parseTradeEvent(e)}
  <2>3. T \in SUBSET Fresh /\ T \subseteq Failing
    BY <1>3
  <2>4. Failing \in SUBSET Fresh
    BY <1>3
  <2> QED  BY <1>2, <2>1, <2>2, <2>3, <2>4
<1>5. CASE WriteAborts
  <2>1. PICK e \in Fresh, swallowed \in BOOLEAN :
          /\ swallowed => parseTradeEvent(e) /\ Kind(e) # "empty_trade"
          /\ EndBatch(Failing \cup {e},
                      {f \in Failing \cup {e} : parseTradeEvent(f) /\ (f = e => swallowed)})
          /\ Fault
    BY <1>5 DEF WriteAborts
  <2>2. faults' \in 0..MaxFaults /\ faults <= faults' /\ faults' > 0
    BY <1>1, <2>1, ConstantsAssumption DEF TypeOK, Fault
  <2> DEFINE F == Failing \cup {e}
             T == {f \in F : parseTradeEvent(f) /\ (f = e => swallowed)}
  <2>3. F \in SUBSET Fresh /\ T \in SUBSET Fresh /\ \A u \in T : parseTradeEvent(u)
    BY <1>3
  <2>4. EndBatch(F, T)
    BY <2>1
  <2> QED  BY <2>2, <2>3, <2>4
<1> QED  BY <1>4, <1>5

\* A batch, in either form, keeps the invariant.
LEMMA WriteStep ==
    ASSUME IInv, Write \/ WriteAborts
    PROVE  IInv'
<1>1. PICK F, S \in SUBSET Fresh :
        /\ EndBatch(F, S)
        /\ faults' \in 0..MaxFaults /\ faults <= faults'
        /\ \A u \in S :
              /\ parseTradeEvent(u)
              /\ \/ Kind(u) = "large_trade"
                 \/ Kind(u) = "trade" /\ chain[u].market \in Unlisted
                 \/ faults' > 0
  BY BatchForms
<1> QED  BY <1>1, EndBatchStep

\* A page keeps the invariant: another one follows, the window lies past the
\* head, or the batch is written next.
LEMMA FetchPageStep ==
    ASSUME IInv, FetchPage
    PROVE  IInv'
<1>1. TypeOK /\ pc = "fetch"
  BY DEF IInv, FetchPage
<1>2. UNCHANGED <<chain, head, listed, faults, saved, processed, applied, dropped>>
  BY DEF FetchPage, envVars, dbVars
<1>3. PICK P \in SUBSET Available :
        /\ IsPage(P)
        /\ fetched' = fetched \cup {e \in P : Ledger(e) <= EndLedger}
        /\ latest' = head
        /\ IF MorePages(P)
           THEN /\ \E last \in P : token' = last /\ \A e \in P : e <= last
                /\ UNCHANGED loopVars
           ELSE /\ token' = 0
                /\ IF StartLedger > head
                   THEN Advance(Sequence(cursor))
                   ELSE pc' = "write" /\ UNCHANGED <<stopping, cursor, since>>
  BY DEF FetchPage
<1>4. /\ P \subseteq Events
      /\ MorePages(P) => \A last \in P : (\A e \in P : e <= last) =>
            \A e \in Events : e <= last /\ StartLedger <= Ledger(e)
                                /\ Ledger(e) <= EndLedger => e \in fetched'
      /\ ~ MorePages(P) =>
            \A e \in Events : StartLedger <= Ledger(e) /\ Ledger(e) <= EndLedger
                                /\ Ledger(e) <= head => e \in fetched'
  BY <1>1, <1>3, PageCovers
<1>5. /\ head \in Int /\ cursor \in Int /\ cursor >= -1 /\ saved \in Int
      /\ StartLedger \in Int /\ Sequence(cursor) \in Nat /\ cursor <= Sequence(cursor)
      /\ StartLedger = Sequence(cursor) + 1
  BY <1>1, Numbers
<1>6. /\ UNCHANGED Events
      /\ \A e \in Events : /\ Ledger(e)' = Ledger(e)
                           /\ IsRecord(e)' <=> IsRecord(e)
  BY <1>2, SameChain
<1>7. /\ fetched' \subseteq Events' /\ latest' \in 0..MaxLedger /\ latest' = head'
      /\ token' \in 0..NumEvents
  <2>1. head \in 1..MaxLedger /\ fetched \subseteq Events
    BY <1>1 DEF TypeOK
  <2>2. fetched' \subseteq Events
    BY <1>3, <1>4, <2>1
  <2>3. token' \in 0..NumEvents
    BY <1>3, <1>4, ConstantsAssumption DEF Events
  <2>4. latest' \in 0..MaxLedger /\ latest' = head'
    BY <1>2, <1>3, <2>1, ConstantsAssumption
  <2> QED  BY <1>6, <2>2, <2>3, <2>4
<1>8. WrittenOnce' /\ (\A e \in processed : IsRecord(e))' /\ InChainOrder(chain)'
  BY <1>1, <1>2, <1>6 DEF IInv, WrittenOnce, InChainOrder, TypeOK
<1>window. \A e \in fetched' : StartLedger <= Ledger(e) /\ Ledger(e) <= EndLedger
  BY <1>1, <1>3 DEF IInv, FetchInv, Available
<1>excused. (\A e \in dropped : Excused(e))'
  <2>1. \A e \in dropped : Excused(e)
    BY DEF IInv, DoneInv
  <2> QED  BY <1>2, <2>1 DEF Excused, parseTradeEvent, Kind, Ledger
<1>9. CASE MorePages(P)
  <2>1. UNCHANGED <<pc, stopping, cursor, since>>
    BY <1>3, <1>9 DEF loopVars
  <2>2. UNCHANGED <<StartLedger, EndLedger>>
    BY <2>1 DEF StartLedger, EndLedger, Sequence
  <2>3. TypeOK'
    BY <1>1, <1>2, <1>6, <1>7, <2>1 DEF TypeOK
  <2>4. CursorInv'
    BY <1>2, <2>1 DEF IInv, CursorInv
  <2>5. DoneInv'
    BY <1>2, <1>6, <1>excused, <2>1 DEF IInv, DoneInv, Done
  <2>6. FetchInv'
    <3>1. \A e \in Events : e <= token' /\ StartLedger <= Ledger(e)
                                /\ Ledger(e) <= EndLedger => e \in fetched'
      BY <1>3, <1>4, <1>9
    <3>2. latest' <= head'
      BY <1>2, <1>3, <1>5
    <3> QED  BY <1>1, <1>6, <1>7, <1>window, <2>1, <2>2, <3>1, <3>2 DEF FetchInv
  <2> QED  BY <1>8, <2>3, <2>4, <2>5, <2>6 DEF IInv
<1>10. CASE ~ MorePages(P) /\ StartLedger > head
  <2>1. Advance(Sequence(cursor))
    BY <1>3, <1>10
  <2>2. cursor <= head /\ saved <= cursor /\ saved <= head /\ 1 <= head /\ head <= MaxLedger
    BY <1>1, ConstantsAssumption DEF IInv, CursorInv, TypeOK
  <2>3. Sequence(cursor) = cursor \/ Sequence(cursor) = 0
    BY DEF Sequence
  <2>4. Sequence(cursor) \in 0..MaxLedger /\ Sequence(cursor) <= head
    BY <1>5, <2>2, <2>3, ConstantsAssumption
  <2>5. /\ cursor' = Sequence(cursor) /\ since' \in Nat /\ pc' \in {"idle", "save"}
        /\ stopping' = stopping
    BY <1>1, <2>1, <2>4, AdvanceStep
  <2>6. TypeOK'
    <3>1. cursor' \in (0..MaxLedger) \cup {NoCursor}
      BY <2>4, <2>5
    <3> QED  BY <1>1, <1>2, <1>6, <1>7, <2>5, <3>1 DEF TypeOK
  <2>7. latest' <= head /\ cursor' <= head /\ saved' <= head /\ saved' <= cursor'
    BY <1>2, <1>3, <1>5, <2>2, <2>4, <2>5
  <2>8. Done(cursor)' /\ Done(saved)'
    <3>1. Done(cursor) /\ Done(saved)
      BY <1>1 DEF IInv, DoneInv
    <3>2. \A e \in Events : Ledger(e) \in Int /\ Ledger(e) >= 1
      BY <1>1, Numbers
    <3>3. Done(Sequence(cursor))
      BY <2>3, <3>1, <3>2 DEF Done
    <3> QED  BY <1>2, <1>6, <2>5, <3>1, <3>3 DEF Done
  <2> QED  BY <1>2, <1>8, <1>excused, <2>5, <2>6, <2>7, <2>8, CursorStep
<1>11. CASE ~ MorePages(P) /\ ~ (StartLedger > head)
  <2>1. pc' = "write" /\ UNCHANGED <<stopping, cursor, since>>
    BY <1>3, <1>11
  <2>2. UNCHANGED <<StartLedger, EndLedger>>
    BY <2>1 DEF StartLedger, EndLedger, Sequence
  <2>3. TypeOK'
    BY <1>1, <1>2, <1>6, <1>7, <2>1 DEF TypeOK
  <2>4. CursorInv'
    BY <1>1, <1>2, <2>1 DEF IInv, CursorInv
  <2>5. DoneInv'
    BY <1>1, <1>2, <1>6, <1>excused, <2>1 DEF IInv, DoneInv, Done
  <2>6. FetchInv'
    <3>1. StartLedger <= head /\ latest' <= head'
      BY <1>2, <1>3, <1>5, <1>11
    <3>2. \A e \in Events : StartLedger <= Ledger(e) /\ Ledger(e) <= EndLedger
                                /\ Ledger(e) <= latest' => e \in fetched'
      BY <1>3, <1>4, <1>11
    <3> QED  BY <1>3, <1>6, <1>7, <1>window, <2>1, <2>2, <3>1, <3>2 DEF FetchInv
  <2> QED  BY <1>8, <2>3, <2>4, <2>5, <2>6 DEF IInv
<1> QED  BY <1>9, <1>10, <1>11

\* Starting, ticking, checkpointing and stopping keep the invariant.
LEMMA LoopStepInv ==
    ASSUME IInv, Boot \/ Tick \/ Save \/ StopFlush
    PROVE  IInv'
<1>1. TypeOK /\ cursor \in Int /\ saved \in Int /\ head \in Int
  BY Numbers DEF IInv
<1>2. UNCHANGED <<chain, head, listed, faults, processed, applied, dropped>>
  BY DEF Boot, Tick, Save, StopFlush, envVars, dbVars
<1>3. /\ UNCHANGED Events
      /\ \A e \in Events : /\ Ledger(e)' = Ledger(e)
                           /\ IsRecord(e)' <=> IsRecord(e)
  BY <1>2, SameChain
<1>excused. (\A e \in dropped : Excused(e))'
  <2>1. \A e \in dropped : Excused(e)
    BY DEF IInv, DoneInv
  <2> QED  BY <1>2, <2>1 DEF Excused, parseTradeEvent, Kind, Ledger
<1>4. WrittenOnce' /\ (\A e \in processed : IsRecord(e))'
  BY <1>1, <1>2, <1>3 DEF IInv, WrittenOnce, TypeOK
<1>5. TypeOK'
  <2>1. stopping' \in BOOLEAN /\ pc' \in {"down", "idle", "fetch", "write", "save"}
    BY <1>1 DEF TypeOK, Boot, Tick, Save, StopFlush
  <2>2. /\ cursor' \in (0..MaxLedger) \cup {NoCursor} /\ saved' \in (0..MaxLedger) \cup {NoCursor}
        /\ since' \in Nat
    BY <1>1 DEF TypeOK, Boot, Tick, Save, StopFlush, dbVars
  <2>3. token' \in 0..NumEvents /\ fetched' \subseteq Events' /\ latest' \in 0..MaxLedger
    BY <1>1, <1>3, ConstantsAssumption DEF TypeOK, Boot, Tick, Save, StopFlush, fetchVars
  <2> QED  BY <1>1, <1>2, <1>3, <2>1, <2>2, <2>3 DEF TypeOK
<1>6. CASE Boot \/ Save \/ StopFlush
  <2>1. latest' <= head /\ pc' \notin {"fetch", "write"}
    BY <1>6 DEF IInv, FetchInv, Boot, Save, StopFlush, fetchVars
  <2>2. cursor' <= head /\ saved' <= head /\ (pc' # "down" => saved' <= cursor')
    BY <1>1, <1>6 DEF IInv, CursorInv, Boot, Save, StopFlush, dbVars
  <2>3. (pc' # "down" => Done(cursor)') /\ Done(saved)'
    <3>1. Done(saved) /\ (pc # "down" => Done(cursor))
      BY DEF IInv, DoneInv
    <3>2. saved' \in {saved, cursor} /\ (saved' = cursor => saved' = saved \/ Done(cursor))
      BY <1>6, <3>1 DEF Boot, Save, StopFlush, dbVars
    <3>3. Done(saved')
      BY <3>1, <3>2
    <3>4. pc' # "down" => Done(cursor')
      BY <1>6, <3>1 DEF Boot, Save, StopFlush
    <3> QED  BY <1>2, <1>3, <3>3, <3>4 DEF Done
  <2> QED  BY <1>2, <1>4, <1>5, <1>excused, <2>1, <2>2, <2>3, CursorStep
<1>7. CASE Tick
  <2>1. UNCHANGED <<cursor, saved>> /\ pc = "idle" /\ pc' = "fetch" /\ token' = 0 /\ latest' = 0
    BY <1>7 DEF Tick, dbVars
  <2>2. InChainOrder(chain)' /\ CursorInv'
    BY <1>2, <1>3, <2>1 DEF IInv, InChainOrder, CursorInv
  <2>3. DoneInv'
    BY <1>2, <1>3, <1>excused, <2>1 DEF IInv, DoneInv, Done
  <2>4. FetchInv'
    <3>1. \A e \in Events' : ~ (e <= 0)
      BY <1>3 DEF Events
    <3>2. latest' <= head'
      BY <1>1, <1>2, <2>1 DEF TypeOK
    <3>3. fetched' = {}
      BY <1>7 DEF Tick
    <3> QED  BY <2>1, <3>1, <3>2, <3>3 DEF FetchInv
  <2> QED  BY <1>4, <1>5, <2>2, <2>3, <2>4 DEF IInv
<1> QED  BY <1>6, <1>7

\* Every step keeps the invariant.
LEMMA NextInv == IInv /\ [Next]_vars => IInv'
<1> SUFFICES ASSUME IInv, [Next]_vars PROVE IInv'
  OBVIOUS
<1>1. CASE CloseLedger \/ ListMarket \/ FetchFail \/ SaveFail \/ Stop \/ UNCHANGED vars
  <2>1. UNCHANGED <<chain, cursor, fetchVars, dbVars>>
    BY <1>1 DEF CloseLedger, ListMarket, FetchFail, SaveFail, Stop, vars, envVars, loopVars
  <2>2. head <= head' /\ head' \in 1..MaxLedger /\ listed \subseteq listed' /\ listed' \subseteq Markets
    BY <1>1, ConstantsAssumption DEF IInv, TypeOK, CloseLedger, ListMarket, FetchFail, SaveFail, Stop, vars, envVars
  <2>3. pc' = pc \/ (pc # "down" /\ pc' = "idle")
    BY <1>1 DEF CloseLedger, ListMarket, FetchFail, SaveFail, Stop, vars, envVars, loopVars
  <2>4. faults' \in 0..MaxFaults /\ faults <= faults'
    BY <1>1, ConstantsAssumption DEF IInv, TypeOK, Fault, CloseLedger, ListMarket, FetchFail, SaveFail, Stop, vars, envVars
  <2>5. stopping' \in BOOLEAN /\ since' = since
    BY <1>1 DEF IInv, TypeOK, CloseLedger, ListMarket, FetchFail, SaveFail, Stop, vars, loopVars
  <2>6. TypeOK'
    <3>1. UNCHANGED Events
      BY DEF Events
    <3> QED  BY <2>1, <2>2, <2>3, <2>4, <2>5, <3>1 DEF IInv, TypeOK, fetchVars, dbVars
  <2> QED  BY <2>1, <2>2, <2>3, <2>4, <2>6, FrameStep
<1>2. CASE Boot \/ Tick \/ Save \/ StopFlush
  BY <1>2, LoopStepInv
<1>3. CASE FetchPage
  BY <1>3, FetchPageStep
<1>4. CASE Write \/ WriteAborts
  BY <1>4, WriteStep
<1>5. CASE WriteFail \/ Crash
  BY <1>5, AbandonStep
<1> QED  BY <1>1, <1>2, <1>3, <1>4, <1>5 DEF Next, LoopStep

\* The invariant holds in every reachable state.
THEOREM InductiveInvariant == Spec => []IInv
BY InitInv, NextInv, PTL DEF Spec

\* Every variable has its type: in particular the cursors never leave the
\* ledgers of the chain (ingestion.ts, ingestFromCursor).
THEOREM TypeCorrect == Spec => []TypeOK
<1>1. IInv => TypeOK
  BY DEF IInv
<1> QED  BY <1>1, InductiveInvariant, PTL

\* No event is written twice, whatever crashes, lost acknowledgements and
\* replayed windows come between a write and its checkpoint (batchWriter.ts,
\* write).  It holds with and without rows for the markets.
THEOREM EventsWrittenOnce == Spec => []WrittenOnce
<1>1. IInv => WrittenOnce
  BY DEF IInv
<1> QED  BY <1>1, InductiveInvariant, PTL

\* Whatever rows are missing and whatever statement fails, the persisted
\* cursor passes no event that is neither written nor a trade, dropped with a
\* trade of its window whose positions could not be updated (batchWriter.ts,
\* reconcileTradeIntoPositions; ingestion.ts, nextCursor).
THEOREM LossesAreTrades == Spec => []OnlyTradesAreLost
<1>1. IInv => OnlyTradesAreLost
  BY DEF IInv, DoneInv, OnlyTradesAreLost
<1> QED  BY <1>1, InductiveInvariant, PTL

\* A step maps to a step of EventLog or changes nothing of it.
LEMMA StepImplements ==
    ASSUME IInv, IInv', [Next]_vars
    PROVE  [Log!Next]_<<Records, {e \in Events : parseTradeEvent(e)}, processed, dropped, saved>>
<1> DEFINE expendable == {e \in Events : parseTradeEvent(e)}
<1>1. TypeOK /\ TypeOK' /\ saved \in Int /\ cursor \in Int
  BY Numbers DEF IInv
<1>2. UNCHANGED chain
  BY DEF Next, LoopStep, CloseLedger, ListMarket, Boot, Tick, FetchPage, FetchFail, Write,
         WriteAborts, EndBatch, WriteFail, Save, SaveFail, Stop, StopFlush, Crash, vars, envVars
<1>3. UNCHANGED Records /\ UNCHANGED expendable
  BY <1>2 DEF Records, IsRecord, parseTradeEvent, parseResolutionEvent,
     parseCollateralDepositedEvent, parseMarketCreatedChainEvent, Kind, Ledger, Events
<1>4. DOMAIN Records = {f \in Events : IsRecord(f)} /\ \A e \in DOMAIN Records : Records[e] = Ledger(e)
  BY DEF Records
<1>5. ASSUME NEW S \in SUBSET Fresh, Commit(S), UNCHANGED dropped
      PROVE  Log!Next
  <2>1. S \subseteq DOMAIN Records \ processed
    BY <1>1, <1>4 DEF Fresh, TypeOK
  <2>2. processed' = processed \cup S /\ UNCHANGED saved
    BY <1>5 DEF Commit
  <2>3. Log!WriteBatch
    BY <1>3, <1>5, <2>1, <2>2 DEF Log!WriteBatch
  <2> QED  BY <2>3 DEF Log!Next
<1>6. ASSUME saved <= saved', Done(saved'), UNCHANGED <<processed, dropped>>
      PROVE  Log!Next
  <2>1. saved' \in Int
    BY <1>1 DEF TypeOK, NoCursor
  <2>2. Log!Covered(saved') \subseteq processed \cup dropped
    BY <1>4, <1>6 DEF Log!Covered, Done
  <2>3. saved' >= saved
    BY <1>1, <1>6, <2>1
  <2>4. Log!Checkpoint
    BY <1>3, <1>6, <2>2, <2>3 DEF Log!Checkpoint
  <2> QED  BY <2>4 DEF Log!Next
<1>7. CASE Write \/ WriteAborts
  <2>1. PICK F, S \in SUBSET Fresh :
          /\ EndBatch(F, S)
          /\ \A u \in S : parseTradeEvent(u)
    BY <1>7, BatchForms
  <2>2. pc = "write" /\ Commit(IF F = {} THEN Fresh ELSE {})
    BY <2>1 DEF EndBatch
  <2>3. dropped' = IF F # {} /\ ~ WriteErrors(F, S) THEN dropped \cup Fresh ELSE dropped
    BY <2>1 DEF EndBatch
  <2>4. CASE F = {} \/ WriteErrors(F, S)
    <3>1. UNCHANGED dropped
      BY <2>3, <2>4
    <3> QED  BY <1>5, <2>2, <3>1
  <2>5. CASE F # {} /\ ~ WriteErrors(F, S)
    <3>1. \A e \in Fresh : parseTradeEvent(e)
      BY <2>1, <2>2, <2>5, OnlyTradesAreDropped
    <3>2. Fresh \subseteq expendable \ processed
      BY <1>1, <3>1 DEF Fresh, TypeOK
    <3>3. UNCHANGED <<processed, saved>>
      BY <2>2, <2>5 DEF Commit
    <3>4. Log!DropBatch
      BY <1>3, <2>3, <2>5, <3>2, <3>3 DEF Log!DropBatch
    <3> QED  BY <3>4 DEF Log!Next
  <2> QED  BY <2>4, <2>5
<1>8. CASE WriteFail \/ Crash
  <2>1. PICK S \in SUBSET Fresh : Commit(S)
    BY <1>8 DEF WriteFail, Crash
  <2>2. UNCHANGED dropped
    BY <1>8 DEF WriteFail, Crash
  <2> QED  BY <1>5, <2>1, <2>2
<1>9. CASE Save \/ StopFlush
  <2>1. saved <= cursor /\ Done(cursor) /\ Done(saved)
    BY <1>9 DEF IInv, CursorInv, DoneInv, Save, StopFlush
  <2>2. saved' \in {saved, cursor} /\ UNCHANGED <<processed, dropped>>
    BY <1>9 DEF Save, StopFlush
  <2>3. saved <= saved' /\ Done(saved')
    BY <1>1, <2>1, <2>2
  <2> QED  BY <1>6, <2>2, <2>3
<1>10. CASE ~ (Write \/ WriteAborts \/ WriteFail \/ Crash \/ Save \/ StopFlush)
  <2>1. UNCHANGED <<processed, dropped, saved>>
    BY <1>10 DEF Next, LoopStep, CloseLedger, ListMarket, Boot, Tick, FetchPage, FetchFail,
                SaveFail, Stop, vars, dbVars
  <2> QED  BY <1>3, <2>1
<1> QED  BY <1>7, <1>8, <1>9, <1>10

\* The indexer implements EventLog, whatever rows are missing and whatever
\* fails: the persisted cursor only moves forward, and never over an event
\* that is neither written nor a trade of a batch that rolled back without
\* an error (ingestion.ts, tick, stop and flushCheckpoint; batchWriter.ts,
\* write).
THEOREM Refinement == Spec => ImplementsEventLog
<1>1. Init => Log!Init
  BY DEF Init, Log!Init, NoCursor
<1>2. IInv /\ IInv' /\ [Next]_vars =>
          [Log!Next]_<<Records, {e \in Events : parseTradeEvent(e)}, processed, dropped, saved>>
  BY StepImplements
<1> QED  BY <1>1, <1>2, InductiveInvariant, PTL DEF Spec, ImplementsEventLog, Log!Spec

\* The persisted cursor is monotone, whatever fails (ingestion.ts, stop and
\* flushCheckpoint).
THEOREM CursorIsMonotone == Spec => CursorNeverMovesBack
<1>1. ASSUME IInv, [Next]_vars
      PROVE  [saved <= saved']_vars
  <2> USE <1>1 DEF IInv, TypeOK, NoCursor
  <2>1. CASE Save \/ StopFlush
    BY <2>1 DEF Save, StopFlush, CursorInv
  <2>2. CASE saved' = saved
    BY <2>2
  <2>3. saved' = saved \/ Save \/ StopFlush
    BY DEF Next, LoopStep, CloseLedger, ListMarket, Boot, Tick, FetchPage, Write, WriteAborts, EndBatch,
       FetchFail, WriteFail, SaveFail, Stop, Crash, Commit, dbVars, vars
  <2> QED  BY <2>1, <2>2, <2>3
<1> QED  BY <1>1, InductiveInvariant, PTL DEF Spec, CursorNeverMovesBack
=============================================================================
