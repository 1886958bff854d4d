--------------------------- MODULE MatchingService ---------------------------
(***************************************************************************)
(* MatchingService.placeOrder (src/matching/matching-service.ts) for one   *)
(* market: concurrent requests, one FIFO mutex and one in-memory book per  *)
(* outcome, matchOrder (src/matching/engine.ts), the Postgres transaction, *)
(* the audit writes, the settlement jobs and API crashes and restarts; and *)
(* the second writer of user_positions, the indexer, which adds the trades *)
(* it finds on the chain (apps/indexer/src/batchWriter.ts).                *)
(*                                                                         *)
(* A request and the order it creates share an id: placeOrder draws a      *)
(* fresh randomUUID per call.  A taker meets a maker at most once (the     *)
(* maker leaves the book or the taker is exhausted), so the trades of a    *)
(* taker are a function from makers to quantities; buyer, seller and price *)
(* of a trade are functions of its two orders.                             *)
(***************************************************************************)
EXTENDS Integers, Sequences, FiniteSets, FiniteSetsExt

CONSTANTS
    Orders,       \* order ids, one per placeOrder call
    Users,        \* wallet addresses
    Books,        \* outcomes of the market: one book and one mutex each
    Prices,       \* price ticks
    MaxQuantity,  \* bound on the quantity of one order
    MaxCrashes,   \* bound on API process crashes
    MaxIndexed    \* bound on the trades the indexer adds

ASSUME ConstantsAssumption ==
    /\ IsFiniteSet(Orders) /\ IsFiniteSet(Users) /\ IsFiniteSet(Books)
    /\ Prices \subseteq Nat
    /\ MaxQuantity \in Nat \ {0}
    /\ MaxCrashes \in Nat /\ MaxIndexed \in Nat

VARIABLES
    up,         \* the API process is listening
    pc,         \* where each placeOrder call is
    input,      \* its OrderInput, fixed when the client sends it
    queue,      \* per book: calls queued on the mutex, the holder first
    loaded,     \* per book: books.has(key)
    rest,       \* per book: quantity of each order resting in the OrderBook
    place,      \* per book: arrival stamp of each resting order
    stamp,      \* per book: the stamp addOrder gives next
    left,       \* per call: remainingQty of the matching loop
    trades,     \* per call: quantity traded with each maker
    status,     \* orders.status in Postgres, "none" when there is no row
    filled,     \* orders.filledQuantity
    createdAt,  \* orders.createdAt, in milliseconds
    clock,      \* the database's millisecond clock
    dbTrades,   \* trades table: quantity per taker and maker
    shares,     \* user_positions: yesShares / noShares
    collateral, \* user_positions.lockedCollateral
    opened,     \* per user: "none" without a row in user_positions, "clipped"
                \* when the row was created for a sale on the chain, or "whole"
    onChain,    \* net bought on the chain by indexed trades (history)
    indexed,    \* number of indexed trades
    audit,      \* trades whose audit write reached Redis
    unsent,     \* settlement jobs handed to enqueue(), not yet in Redis
    jobs,       \* settlement jobs in the Redis stream
    crashes     \* crashes so far

procVars == <<up, pc, input, queue, left, trades, crashes>>
bookVars == <<loaded, rest, place, stamp>>
positionVars == <<shares, collateral, opened, onChain, indexed>>
dbVars == <<status, filled, createdAt, clock, dbTrades, positionVars>>
redisVars == <<audit, unsent, jobs>>
vars == <<procVars, bookVars, dbVars, redisVars>>

Quantities == 1..MaxQuantity
Sides == {"BUY", "SELL"}
OrderInput == [user: Users, side: Sides, book: Books,
               price: Prices, quantity: Quantities]

\* The call is inside the function passed to Mutex.run.
CriticalPcs == {"hydrate", "check", "match", "tx", "committed", "audit"}
\* "ok", "rejected" and "failed" are the three ways the call's promise
\* settles; "lost" is a call whose process crashed.
EndPcs == {"ok", "rejected", "failed", "lost"}

-----------------------------------------------------------------------------
(* The order book and the matching rules *)

Book(o) == input[o].book

\* An order row that hydrateBook loads, and the quantity it loads.
Open(o) == status[o] \in {"OPEN", "PARTIALLY_FILLED"}
DbRemaining(o) == input[o].quantity - filled[o]
Hydrated(o) == Open(o) /\ DbRemaining(o) > 0

Resting(b) == {o \in Orders : rest[b][o] > 0}

\* Orders on the side the taker r matches against.
Opposite(r, o) == input[o].side # input[r].side


\* Mutant: equal prices do not match.
canMatchStrict(r, m) ==
    IF input[r].side = "BUY" THEN input[m].price < input[r].price
                             ELSE input[m].price > input[r].price

canMatch(r, m) ==
    IF input[r].side = "BUY" THEN input[m].price <= input[r].price
                             ELSE input[m].price >= input[r].price

\* For a taker on the given side, maker m is cheaper than maker n.
BetterPrice(r, m, n) ==
    IF input[r].side = "BUY" THEN input[m].price < input[n].price
                             ELSE input[m].price > input[n].price

\* getBestAsk / getBestBid: the head of the best price level.
BestFor(r, m) ==
    LET b == Book(r)
        candidates == {o \in Resting(b) : Opposite(r, o)}
    IN  /\ m \in candidates
        /\ \A o \in candidates \ {m} :
              \/ BetterPrice(r, m, o)
              \/ /\ ~ BetterPrice(r, o, m)
                 /\ place[b][m] < place[b][o]


\* Mutant: the larger of the two quantities is filled.
MaxQty(x, y) == IF x <= y THEN y ELSE x

MinQty(x, y) == IF x <= y THEN x ELSE y

\* orderBy: [{ price: "asc" }, { createdAt: "asc" }].
FetchedBefore(o, p) ==
    \/ input[o].price < input[p].price
    \/ input[o].price = input[p].price /\ createdAt[o] < createdAt[p]

\* Mutant: findMany without orderBy.
UnsortedPlaces(b) ==
    LET S == {o \in Orders : Book(o) = b /\ Hydrated(o)}
    IN  {f \in [Orders -> 0..Cardinality(Orders)] :
            /\ \A o \in Orders : f[o] = 0 <=> o \notin S
            /\ \A o, p \in S : o # p => f[o] # f[p]}

\* Arrival stamps hydrateBook may produce: findMany sorts by price, then by
\* createdAt, and leaves equal timestamps in any order.
HydratedPlaces(b) ==
    LET S == {o \in Orders : Book(o) = b /\ Hydrated(o)}
    IN  {f \in [Orders -> 0..Cardinality(Orders)] :
            /\ \A o \in Orders : f[o] = 0 <=> o \notin S
            /\ \A o, p \in S : o # p => f[o] # f[p]
            /\ \A o, p \in S : FetchedBefore(o, p) => f[o] < f[p]}

HydratedRest(b) ==
    [o \in Orders |-> IF Book(o) = b /\ Hydrated(o)
                      THEN DbRemaining(o) ELSE 0]

NoOrders == [o \in Orders |-> 0]


Init ==
    /\ up = TRUE
    /\ pc = [o \in Orders |-> "idle"]
    /\ input \in [Orders -> OrderInput]
    /\ queue = [b \in Books |-> <<>>]
    /\ loaded = [b \in Books |-> FALSE]
    /\ rest = [b \in Books |-> NoOrders]
    /\ place = [b \in Books |-> NoOrders]
    /\ stamp = [b \in Books |-> 1]
    /\ left = NoOrders
    /\ trades = [o \in Orders |-> NoOrders]
    /\ status = [o \in Orders |-> "none"]
    /\ filled = NoOrders
    /\ createdAt = NoOrders
    /\ clock = 0
    /\ dbTrades = [o \in Orders |-> NoOrders]
    /\ shares = [u \in Users |-> [b \in Books |-> 0]]
    /\ collateral = [u \in Users |-> 0]
    /\ opened = [u \in Users |-> "none"]
    /\ onChain = [u \in Users |-> [b \in Books |-> 0]]
    /\ indexed = 0
    /\ audit = {}
    /\ unsent = {}
    /\ jobs = {}
    /\ crashes = 0

-----------------------------------------------------------------------------
(* One placeOrder call *)

\* Node runs one callback at a time: between two awaits of one call no other
\* callback runs.
NoneRunning == \A o \in Orders : pc[o] \notin {"check", "match"}

Goto(r, l) == pc' = [pc EXCEPT ![r] = l]


\* The finally block of Mutex.run: the next caller in line may start.
Release(r) == queue' = [queue EXCEPT ![Book(r)] = Tail(@)]

\* The call settles and its locals go out of scope.
Finish(r, l) ==
    /\ Goto(r, l)
    /\ Release(r)
    /\ left' = [left EXCEPT ![r] = 0]
    /\ trades' = [trades EXCEPT ![r] = NoOrders]


\* Mutant: the catch block keeps the mutated book.
KeepBook(b) == UNCHANGED bookVars

\* invalidateBook: books.delete(key).  The book object is garbage.
Invalidate(b) ==
    /\ loaded' = [loaded EXCEPT ![b] = FALSE]
    /\ rest' = [rest EXCEPT ![b] = NoOrders]
    /\ place' = [place EXCEPT ![b] = NoOrders]
    /\ stamp' = [stamp EXCEPT ![b] = 1]

\* hydrateBook: the open rows of the book, in createdAt order.
Load(b) ==
    /\ loaded' = [loaded EXCEPT ![b] = TRUE]
    /\ rest' = [rest EXCEPT ![b] = HydratedRest(b)]
    /\ \E f \in HydratedPlaces(b) : place' = [place EXCEPT ![b] = f]
    /\ stamp' = [stamp EXCEPT ![b] = 1 + Cardinality(Orders)]

\* placeOrder is called: Mutex.run appends the call to the promise chain.
Submit(r) ==
    /\ up /\ NoneRunning
    /\ pc[r] = "idle"
    /\ Goto(r, "queued")
    /\ queue' = [queue EXCEPT ![Book(r)] = Append(@, r)]
    /\ UNCHANGED <<up, input, left, trades, crashes, bookVars, dbVars, redisVars>>

\* The predecessor released: fn runs up to the await of getOrHydrateBook.
Begin(r) ==
    /\ NoneRunning
    /\ pc[r] = "queued"
    /\ queue[Book(r)] # <<>> /\ Head(queue[Book(r)]) = r
    /\ Goto(r, IF loaded[Book(r)] THEN "check" ELSE "hydrate")
    /\ UNCHANGED <<up, input, queue, left, trades, crashes,
                   bookVars, dbVars, redisVars>>

\* findMany answers: the book is rebuilt and stored in books.
Hydrate(r) ==
    /\ NoneRunning
    /\ pc[r] = "hydrate"
    /\ Load(Book(r))
    /\ Goto(r, "check")
    /\ UNCHANGED <<up, input, queue, left, trades, crashes, dbVars, redisVars>>


\* Mutant: a failed hydration is retried without bound.
HydrateRetry(r) ==
    /\ NoneRunning
    /\ pc[r] = "hydrate"
    /\ Goto(r, "queued")
    /\ UNCHANGED <<up, input, queue, left, trades, crashes, bookVars, dbVars, redisVars>>

\* findMany rejects: the error leaves fn before any book is stored.
HydrateFail(r) ==
    /\ NoneRunning
    /\ pc[r] = "hydrate"
    /\ Finish(r, "failed")
    /\ UNCHANGED <<up, input, crashes, bookVars, dbVars, redisVars>>


\* Mutant: no self-trade check.
NoSelfTradeCheck(r) == FALSE

\* Mutant: only orders that would match count.
HasMatchingResting(r) ==
    \E o \in Resting(Book(r)) :
        input[o].user = input[r].user /\ Opposite(r, o) /\ canMatch(r, o)

\* The user has a resting order on the opposite side of the book.
HasOppositeResting(r) ==
    \E o \in Resting(Book(r)) : input[o].user = input[r].user /\ Opposite(r, o)

\* Self-trade check fails: ValidationError, nothing written.
RejectSelfTrade(r) ==
    /\ pc[r] = "check"
    /\ HasOppositeResting(r)
    /\ Finish(r, "rejected")
    /\ UNCHANGED <<up, input, crashes, bookVars, dbVars, redisVars>>

\* Self-trade check passes: matchOrder starts with the full quantity.
StartMatch(r) ==
    /\ pc[r] = "check"
    /\ ~ HasOppositeResting(r)
    /\ left' = [left EXCEPT ![r] = input[r].quantity]
    /\ Goto(r, "match")
    /\ UNCHANGED <<up, input, queue, trades, crashes, bookVars, dbVars, redisVars>>

\* A resting order loses q of its quantity.
updateOrderQuantity(b, m, q) == rest' = [rest EXCEPT ![b][m] = @ - q]

\* An order that is used up leaves its price level, another keeps its place.
removeOrder(b, m, q) ==
    place' = [place EXCEPT ![b][m] = IF q = rest[b][m] THEN 0 ELSE @]

\* RemoveOrderCommand or UpdateQuantityCommand.  Nothing in the loop throws,
\* so that no command is rolled back.
execute(b, m, q) == updateOrderQuantity(b, m, q) /\ removeOrder(b, m, q)

\* One iteration of the loop of matchOrder: a trade with the best maker.
Fill(r) ==
    LET b == Book(r)
    IN  /\ pc[r] = "match"
        /\ left[r] > 0
        /\ \E m \in Orders :
              LET q == MinQty(left[r], rest[b][m])
              IN  /\ BestFor(r, m)
                  /\ canMatch(r, m)
                  /\ trades' = [trades EXCEPT ![r][m] = q]
                  /\ execute(b, m, q)
                  /\ left' = [left EXCEPT ![r] = @ - q]
        /\ UNCHANGED <<up, pc, input, queue, crashes, loaded, stamp, dbVars, redisVars>>

TradesOf(r) == {r} \X {m \in Orders : trades[r][m] > 0}

\* The loop ends and placeOrder awaits the transaction.  onTradeFilled has
\* started one audit write per trade; any of them may fail.  Nothing awaits
\* the writes before the transaction is over: a write that fails earlier is
\* an unhandled rejection, on which Node exits (Crash).
EndMatch(r) ==
    /\ pc[r] = "match"
    /\ \/ left[r] = 0
       \/ \A m \in Orders : BestFor(r, m) => ~ canMatch(r, m)
    /\ Goto(r, "tx")
    /\ \E written \in SUBSET TradesOf(r) : audit' = audit \cup written
    /\ UNCHANGED <<up, input, queue, left, trades, crashes,
                   bookVars, dbVars, unsent, jobs>>

-----------------------------------------------------------------------------
(* The transaction and what follows it *)

\* Mutant: makers' positions are not updated.
GainOfTaker(r, u, w) ==
    LET sign == IF input[r].side = "BUY" THEN 1 ELSE -1
    IN  sign * (IF input[r].user = u THEN SumFunctionOnSet(w, Orders) ELSE 0)

\* calculatePositionDeltas and collateralDeltaMap: what user u gains from the
\* trades of taker r, the trade with maker m weighted by w[m].
Gain(r, u, w) ==
    LET sign == IF input[r].side = "BUY" THEN 1 ELSE -1
        made == {m \in Orders : input[m].user = u}
    IN  sign * ((IF input[r].user = u THEN SumFunctionOnSet(w, Orders) ELSE 0)
                   - SumFunctionOnSet(w, made))

SharesDelta(r, u) == Gain(r, u, trades[r])
CollateralDelta(r, u) ==
    Gain(r, u, [m \in Orders |-> trades[r][m] * input[m].price])

StatusFor(f, q) ==
    IF f = 0 THEN "OPEN" ELSE IF f < q THEN "PARTIALLY_FILLED" ELSE "FILLED"


\* Mutant: a maker's filledQuantity is overwritten by the last trade.
FilledOverwritten(r) ==
    [o \in Orders |-> IF o = r THEN input[r].quantity - left[r]
                      ELSE IF trades[r][o] > 0 THEN trades[r][o] ELSE filled[o]]


\* Mutant: makers that traded are written twice.
FilledTwice(r) ==
    [o \in Orders |-> IF o = r THEN input[r].quantity - left[r]
                      ELSE filled[o] + 2 * trades[r][o]]

\* filledQuantity after the transaction: of the taker the matched quantity,
\* of a maker the value read in the transaction plus the trade.
FilledAfter(r) ==
    [o \in Orders |-> IF o = r THEN input[r].quantity - left[r]
                      ELSE filled[o] + trades[r][o]]

\* The users whose positions the trades of taker r change.
Traders(r) ==
    UNION {{input[r].user, input[m].user} : m \in {o \in Orders : trades[r][o] > 0}}

MakersExist(r) == \A m \in Orders : trades[r][m] > 0 => status[m] # "none"

\* The callback of prisma.$transaction, committed.  createdAt is the clock of
\* the insert: two commits may share a millisecond.
TxCommit(r) ==
    LET b == Book(r)
    IN  /\ NoneRunning
        /\ pc[r] = "tx"
        /\ MakersExist(r)
        /\ filled' = FilledAfter(r)
        /\ status' = [o \in Orders |->
                         IF o = r \/ trades[r][o] > 0
                         THEN StatusFor(filled'[o], input[o].quantity)
                         ELSE status[o]]
        /\ clock' \in {clock, clock + 1}
        /\ createdAt' = [createdAt EXCEPT ![r] = clock']
        /\ dbTrades' = [dbTrades EXCEPT ![r] = trades[r]]
        /\ shares' = [u \in Users |->
                         [shares[u] EXCEPT ![b] = @ + SharesDelta(r, u)]]
        /\ collateral' = [u \in Users |-> collateral[u] + CollateralDelta(r, u)]
        /\ opened' = [u \in Users |-> IF opened[u] = "none" /\ u \in Traders(r)
                                      THEN "whole" ELSE opened[u]]
        /\ Goto(r, "committed")
        /\ UNCHANGED <<up, input, queue, left, trades, crashes, onChain, indexed,
                       bookVars, redisVars>>


\* Mutant: the catch block does not rethrow.
TxAbortSwallowed(r) ==
    /\ NoneRunning
    /\ pc[r] = "tx"
    /\ Invalidate(Book(r))
    /\ Goto(r, "audit")
    /\ UNCHANGED <<up, input, queue, left, trades, crashes, dbVars, redisVars>>

\* The transaction rolls back, "Maker order not found" included.  The catch
\* block throws the mutated book away and rethrows.
TxAbort(r) ==
    /\ NoneRunning
    /\ pc[r] = "tx"
    /\ Invalidate(Book(r))
    /\ Finish(r, "failed")
    /\ UNCHANGED <<up, input, crashes, dbVars, redisVars>>

\* The COMMIT took effect but its acknowledgement was lost: same catch block.
AckLost(r) ==
    /\ NoneRunning
    /\ pc[r] = "committed"
    /\ Invalidate(Book(r))
    /\ Finish(r, "failed")
    /\ UNCHANGED <<up, input, crashes, dbVars, redisVars>>

\* The call resumes after the commit: addOrder(remainingOrder), then it
\* awaits the audit writes.
AddRemaining(r) ==
    LET b == Book(r)
    IN  /\ NoneRunning
        /\ pc[r] = "committed"
        /\ IF left[r] > 0
           THEN /\ rest' = [rest EXCEPT ![b][r] = left[r]]
                /\ place' = [place EXCEPT ![b][r] = stamp[b]]
                /\ stamp' = [stamp EXCEPT ![b] = @ + 1]
           ELSE UNCHANGED <<rest, place, stamp>>
        /\ Goto(r, "audit")
        /\ UNCHANGED <<up, input, queue, left, trades, crashes, loaded,
                       dbVars, redisVars>>

\* Every audit write succeeded: the settlement jobs are handed to enqueue()
\* without awaiting it, and the call returns.  (The refresh of the cached
\* depth, which nothing reads, is left out.)
AuditOk(r) ==
    /\ NoneRunning
    /\ pc[r] = "audit"
    /\ TradesOf(r) \subseteq audit
    /\ unsent' = unsent \cup TradesOf(r)
    /\ Finish(r, "ok")
    /\ UNCHANGED <<up, input, crashes, bookVars, dbVars, audit, jobs>>

\* Promise.all rejects: the call throws although its order is committed, and
\* no settlement job is handed over.
AuditFail(r) ==
    /\ NoneRunning
    /\ pc[r] = "audit"
    /\ ~ (TradesOf(r) \subseteq audit)
    /\ Finish(r, "failed")
    /\ UNCHANGED <<up, input, crashes, bookVars, dbVars, redisVars>>

\* xadd of a settlement job succeeds.
EnqueueOk(t) ==
    /\ t \in unsent
    /\ unsent' = unsent \ {t}
    /\ jobs' = jobs \cup {t}
    /\ UNCHANGED <<procVars, bookVars, dbVars, audit>>

\* xadd of a settlement job rejects: the error is logged.
EnqueueFail(t) ==
    /\ t \in unsent
    /\ unsent' = unsent \ {t}
    /\ UNCHANGED <<procVars, bookVars, dbVars, audit, jobs>>

-----------------------------------------------------------------------------
(* The indexer *)

\* reconcileTradeIntoPositions, for a trade on the chain that has no row in
\* trades: the upserts increment the position of either party, or create it
\* at Math.max(0, ...), so that a first sale counts as nothing.
IndexTrade(buyer, seller, b, q) ==
    LET gain == [u \in Users |-> IF u = buyer THEN q ELSE IF u = seller THEN - q ELSE 0]
        clips == opened[seller] = "none"
    IN  /\ indexed < MaxIndexed
        /\ indexed' = indexed + 1
        /\ onChain' = [u \in Users |-> [onChain[u] EXCEPT ![b] = @ + gain[u]]]
        /\ shares' = [u \in Users |->
              [shares[u] EXCEPT ![b] = @ + IF u = seller /\ clips THEN 0 ELSE gain[u]]]
        /\ opened' = [u \in Users |-> IF u = seller /\ clips THEN "clipped"
                                      ELSE IF u = buyer /\ opened[u] = "none" THEN "whole"
                                      ELSE opened[u]]
        /\ UNCHANGED <<status, filled, createdAt, clock, dbTrades, collateral,
                       procVars, bookVars, redisVars>>

-----------------------------------------------------------------------------
(* Crash and restart *)

\* The process dies, or its shutdown is forced after 30 s: books, mutexes and
\* pending promises are gone.
Crash ==
    /\ up /\ crashes < MaxCrashes
    /\ up' = FALSE
    /\ crashes' = crashes + 1
    /\ pc' = [o \in Orders |-> IF pc[o] \in EndPcs \cup {"idle"}
                               THEN pc[o] ELSE "lost"]
    /\ queue' = [b \in Books |-> <<>>]
    /\ loaded' = [b \in Books |-> FALSE]
    /\ rest' = [b \in Books |-> NoOrders]
    /\ place' = [b \in Books |-> NoOrders]
    /\ stamp' = [b \in Books |-> 1]
    /\ left' = NoOrders
    /\ trades' = [o \in Orders |-> NoOrders]
    /\ unsent' = {}
    /\ UNCHANGED <<input, dbVars, audit, jobs>>

\* start() calls hydrateAllActiveMarkets before listen; with
\* WARM_MARKETS_ON_STARTUP=false the books stay cold.
BootWarm ==
    /\ ~ up
    /\ up' = TRUE
    /\ loaded' = [b \in Books |-> TRUE]
    /\ rest' = [b \in Books |-> HydratedRest(b)]
    /\ place' \in {f \in [Books -> UNION {HydratedPlaces(b) : b \in Books}] :
                      \A b \in Books : f[b] \in HydratedPlaces(b)}
    /\ stamp' = [b \in Books |-> 1 + Cardinality(Orders)]
    /\ UNCHANGED <<pc, input, queue, left, trades, crashes, dbVars, redisVars>>

BootCold ==
    /\ ~ up
    /\ up' = TRUE
    /\ UNCHANGED <<pc, input, queue, left, trades, crashes, bookVars, dbVars, redisVars>>

\* Every call has been answered and nothing is in flight.
Quiescent ==
    /\ up /\ unsent = {}
    /\ \A o \in Orders : pc[o] \in EndPcs
    /\ UNCHANGED vars

CallStep(r) ==
    \/ Begin(r) \/ Hydrate(r) \/ HydrateFail(r)
    \/ RejectSelfTrade(r) \/ StartMatch(r) \/ Fill(r) \/ EndMatch(r)
    \/ TxCommit(r) \/ TxAbort(r) \/ AckLost(r) \/ AddRemaining(r)
    \/ AuditOk(r) \/ AuditFail(r)

Next ==
    \/ \E r \in Orders : Submit(r) \/ CallStep(r)
    \/ \E t \in Orders \X Orders : EnqueueOk(t) \/ EnqueueFail(t)
    \/ \E u, v \in Users, b \in Books, q \in Quantities :
          u # v /\ IndexTrade(u, v, b, q)
    \/ Crash \/ BootWarm \/ BootCold
    \/ Quiescent

Spec == Init /\ [][Next]_vars

\* Callbacks of the event loop run and the database and Redis answer (or the
\* client library times out); a dead process is restarted by the container
\* runtime.  Clients and crashes owe nothing.
Fairness ==
    /\ \A r \in Orders : WF_vars(CallStep(r))
    /\ \A t \in Orders \X Orders : WF_vars(EnqueueOk(t) \/ EnqueueFail(t))
    /\ WF_vars(BootWarm \/ BootCold)

FairSpec == Spec /\ Fairness

-----------------------------------------------------------------------------
(* Properties *)

Row(o) == status[o] # "none"

TypeOK ==
    /\ up \in BOOLEAN
    /\ pc \in [Orders -> {"idle", "queued"} \cup CriticalPcs \cup EndPcs]
    /\ input \in [Orders -> OrderInput]
    /\ queue \in [Books -> Seq(Orders)]
    /\ loaded \in [Books -> BOOLEAN]
    /\ rest \in [Books -> [Orders -> 0..MaxQuantity]]
    /\ place \in [Books -> [Orders -> Nat]]
    /\ stamp \in [Books -> Nat \ {0}]
    /\ left \in [Orders -> 0..MaxQuantity]
    /\ trades \in [Orders -> [Orders -> 0..MaxQuantity]]
    /\ status \in [Orders -> {"none", "OPEN", "PARTIALLY_FILLED", "FILLED"}]
    /\ filled \in [Orders -> Nat]
    /\ createdAt \in [Orders -> Nat]
    /\ clock \in Nat
    /\ dbTrades \in [Orders -> [Orders -> 0..MaxQuantity]]
    /\ shares \in [Users -> [Books -> Int]]
    /\ collateral \in [Users -> Int]
    /\ opened \in [Users -> {"none", "whole", "clipped"}]
    /\ onChain \in [Users -> [Books -> Int]]
    /\ indexed \in Nat
    /\ audit \subseteq Orders \X Orders
    /\ unsent \subseteq Orders \X Orders
    /\ jobs \subseteq Orders \X Orders
    /\ crashes \in Nat

\* What Postgres says is open of order o in book b.
DbOpen(b, o) == IF Book(o) = b /\ Open(o) THEN DbRemaining(o) ELSE 0

\* A call that has touched the book but has not yet brought book and
\* database back together.
Busy(b) == \E r \in Orders : Book(r) = b /\ pc[r] \in {"match", "tx", "committed"}

\* Whenever no call is between matching and addOrder, a loaded in-memory book
\* holds exactly the open rows of the orders table with their remaining
\* quantities: through tx failures, lost acknowledgements, failed audit
\* writes, crashes and rehydration the book never drifts from Postgres.
BookAgreesWithDb ==
    \A b \in Books : loaded[b] /\ ~ Busy(b) =>
        \A o \in Orders : rest[b][o] = DbOpen(b, o)

\* No order row is ever filled beyond its quantity, and its status is the one
\* its filledQuantity implies, although the transaction adds to whatever it
\* reads and checks nothing.
NoOverfill ==
    \A o \in Orders : Row(o) =>
        /\ filled[o] <= input[o].quantity
        /\ status[o] = StatusFor(filled[o], input[o].quantity)

\* filledQuantity of every order row is the sum of its trades in the trades
\* table, as taker and as maker.
FilledIsTraded ==
    \A o \in Orders : Row(o) =>
        filled[o] = SumFunctionOnSet([m \in Orders |-> dbTrades[o][m] + dbTrades[m][o]], Orders)

\* Quantity and cost of the trades of the trades table, taker first.
Traded == [p \in Orders \X Orders |-> dbTrades[p[1]][p[2]]]
Cost == [p \in Orders \X Orders |-> dbTrades[p[1]][p[2]] * input[p[2]].price]

\* A trade as its taker sees it: bought or sold.
Signed(w) ==
    [p \in Orders \X Orders |-> IF input[p[1]].side = "BUY" THEN w[p] ELSE - w[p]]

\* What user u bought minus what u sold in book b, each trade weighted by w.
NetBought(u, b, w) ==
    LET pairs == {p \in Orders \X Orders : Book(p[1]) = b}
    IN  SumFunctionOnSet(Signed(w), {p \in pairs : input[p[1]].user = u})
          - SumFunctionOnSet(Signed(w), {p \in pairs : input[p[2]].user = u})

\* The shares of user u in book b beyond what u bought here and on the chain.
Surplus(u, b) == shares[u][b] - (NetBought(u, b, Traded) + onChain[u][b])

\* user_positions, written by the API and by the indexer, is the net of the
\* trades table and of the chain in shares, and of the trades table in cost;
\* but where the indexer created the row for a sale, Math.max(0, ...) forgives
\* that one sale, and never more (batchWriter.ts, reconcileTradeIntoPositions).
PositionsMatchTrades ==
    /\ \A u \in Users, b \in Books :
          /\ Surplus(u, b) \in 0..MaxQuantity
          /\ opened[u] # "clipped" => Surplus(u, b) = 0
    /\ \A u \in Users :
          collateral[u] = SumFunctionOnSet([b \in Books |-> NetBought(u, b, Cost)], Books)

\* The open rows of one book never cross: what could have traded has traded.
NoCrossedOrders ==
    \A o, p \in Orders :
        /\ Hydrated(o) /\ Hydrated(p) /\ Book(o) = Book(p)
        /\ input[o].side = "BUY" /\ input[p].side = "SELL"
        => input[o].price < input[p].price

\* A committed trade joins opposite sides of one book, at a price both accept,
\* between two different wallets.
Legal(t, m) ==
    /\ Book(t) = Book(m) /\ Opposite(t, m)
    /\ canMatch(t, m)
    /\ input[t].user # input[m].user

TradesAreLegal ==
    \A t, m \in Orders : dbTrades[t][m] > 0 => Legal(t, m)

\* Order o is not ahead of maker m in the eyes of taker r.
NotAhead(r, o, m) ==
    /\ ~ BetterPrice(r, o, m)
    /\ input[o].price = input[m].price => createdAt[m] <= createdAt[o]

\* Price-time priority, on what is committed: when a transaction trades with
\* maker m, no opposite row that stays open was better than m by price, or
\* as good by price and older by createdAt.
PriceTimePriority ==
    [][\A r \in Orders : ~ Row(r) /\ Row(r)' =>
          \A m, o \in Orders :
              /\ dbTrades'[r][m] > 0
              /\ Hydrated(o)' /\ o # r /\ o # m
              /\ Book(o) = Book(r) /\ Opposite(r, o)
              => NotAhead(r, o, m)]_vars

Ex == INSTANCE Exchange WITH
          placed <- {o \in Orders : Row(o)},
          time <- createdAt,
          traded <- dbTrades

\* placeOrder is atomic: whatever calls, rollbacks, lost acknowledgements,
\* crashes and rehydrations come between, the orders and trades tables are
\* those of an exchange that places one order at a time, by price and time.
ImplementsExchange == Ex!Spec

\* What the process tells others is committed: a settlement job, queued or on
\* its way, is for a committed trade, a call answered with success has its
\* order in Postgres for good, one rejected by the self-trade check has none
\* (placeOrder, the audit writes and the hand-off around $transaction).
ToldIsCommitted ==
    /\ \A t \in unsent \cup jobs : dbTrades[t[1]][t[2]] > 0
    /\ \A r \in Orders : /\ pc[r] = "ok" => Row(r)
                         /\ pc[r] = "rejected" => ~ Row(r)

\* Every placeOrder call ends: the mutex is never held forever and no call
\* waits on one that is gone.
EveryCallAnswered ==
    \A r \in Orders : pc[r] = "queued" ~> pc[r] \in EndPcs

-----------------------------------------------------------------------------
(* The inductive invariant behind the theorems of MatchingProofs *)

\* The call inside the mutex is the head of the queue.
HeadHolds ==
    \A r \in Orders : pc[r] \in CriticalPcs =>
        queue[Book(r)] # <<>> /\ Head(queue[Book(r)]) = r

\* No call survives its process.
DownIsIdle == ~ up => \A r \in Orders : pc[r] \in EndPcs \cup {"idle"}

\* A row appears exactly when the transaction of its call commits.
RowsFollowCalls ==
    \A r \in Orders :
        /\ pc[r] \in {"idle", "queued", "hydrate", "check", "match", "tx"} => ~ Row(r)
        /\ pc[r] \in {"committed", "audit"} => Row(r)
        /\ ~ Row(r) => filled[r] = 0

\* The locals of a call.
LocalsInv ==
    \A r \in Orders :
        /\ left[r] <= input[r].quantity
        /\ pc[r] \in {"idle", "queued", "hydrate", "check"} =>
              \A m \in Orders : trades[r][m] = 0
        /\ pc[r] \in {"check", "match", "tx", "committed", "audit"} => loaded[Book(r)]

\* While a call has matched but not committed, the book lacks exactly its
\* trades; after the commit it lacks exactly the remainder of the taker.  A
\* maker that a taker has traded with and not exhausted exhausted the taker.
BookInv ==
    \A r \in Orders :
        /\ pc[r] \in {"match", "tx"} =>
              \A o \in Orders :
                  rest[Book(r)][o] + trades[r][o] = DbOpen(Book(r), o)
        /\ pc[r] = "match" /\ left[r] > 0 =>
              \A o \in Orders : trades[r][o] > 0 => rest[Book(r)][o] = 0
        /\ pc[r] = "committed" =>
              /\ rest[Book(r)][r] = 0
              /\ left[r] = DbOpen(Book(r), r)
              /\ \A o \in Orders \ {r} : rest[Book(r)][o] = DbOpen(Book(r), o)

\* Trades in the making are legal, and the self-trade check still holds.
LegalInv ==
    \A r, o \in Orders :
        /\ pc[r] \in {"match", "tx"} /\ trades[r][o] > 0 => Legal(r, o)
        /\ pc[r] \in {"match", "tx"} /\ rest[Book(r)][o] > 0 /\ Opposite(r, o) =>
              input[o].user # input[r].user

IInv ==
    /\ TypeOK /\ HeadHolds /\ DownIsIdle /\ RowsFollowCalls /\ LocalsInv
    /\ BookInv /\ BookAgreesWithDb /\ NoOverfill
    /\ LegalInv /\ TradesAreLegal

\* Trades are written with their order, once, and are the call's trades until
\* it ends.
ToldInv ==
    /\ \A r \in Orders : pc[r] \in {"committed", "audit"} => dbTrades[r] = trades[r]
    /\ \A r, m \in Orders : ~ Row(r) => dbTrades[r][m] = 0

\* What a call has matched is its quantity less the remainder, and a trade's
\* maker has a row.
FilledInv ==
    /\ \A r \in Orders : pc[r] \in {"match", "tx"} =>
          input[r].quantity = left[r] + SumFunctionOnSet(trades[r], Orders)
    /\ \A t, m \in Orders : dbTrades[t][m] > 0 => Row(m)

\* Only a loaded book holds orders, each in a place of its own.  Stamps and
\* timestamps agree: at one price an older row is ahead, and nothing is newer
\* than the clock.
PlaceInv ==
    /\ \A o \in Orders : createdAt[o] <= clock
    /\ \A b \in Books, o \in Orders :
          /\ place[b][o] < stamp[b]
          /\ ~ loaded[b] => rest[b][o] = 0
    /\ \A b \in Books, o, p \in Orders :
          rest[b][o] > 0 /\ rest[b][p] > 0 /\ o # p =>
              /\ place[b][o] # place[b][p]
              /\ input[o].price = input[p].price /\ createdAt[o] < createdAt[p] =>
                    place[b][o] < place[b][p]
    /\ \A r, o \in Orders :
          pc[r] = "committed" /\ rest[Book(r)][o] > 0 => createdAt[o] <= createdAt[r]

\* What a call has traded with so far was never behind what is left, and what
\* is left when it stops with a remainder does not match.
PriorityInv ==
    \A r, o \in Orders : rest[Book(r)][o] > 0 /\ Opposite(r, o) =>
        /\ \A m \in Orders :
              pc[r] \in {"match", "tx"} /\ trades[r][m] > 0 /\ o # m => NotAhead(r, o, m)
        /\ pc[r] = "tx" /\ left[r] > 0 => ~ canMatch(r, o)

-----------------------------------------------------------------------------
(* A documented expectation the code does not meet *)

\* docs/architecture.md:53, "Matched fills are enqueued to Redis for
\* downstream settlement by Workers": once the taker's call is over, each of
\* its committed trades is in the stream or on its way.
FillsAreEnqueued ==
    \A t, m \in Orders : dbTrades[t][m] > 0 /\ pc[t] \in EndPcs
        => <<t, m>> \in unsent \cup jobs
=============================================================================
