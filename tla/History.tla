------------------------------ MODULE History ------------------------------
(***************************************************************************)
(* The two paged read routes of a wallet (src/api/routes/orders.ts):       *)
(* GET /orders/user/:address pages by a cursor on (createdAt, id),         *)
(* GET /trades/user/:address by offset over getWalletTradeHistory          *)
(* (src/services/audit.ts).  A client asks page after page while rows are  *)
(* inserted by other requests and orders change their status.              *)
(*                                                                         *)
(* The table holds the wallet's rows: orders for the first route, trades   *)
(* for the second.  A row's time (createdAt, tradedAt) is taken before the *)
(* row becomes visible, so a row may appear anywhere in the order.         *)
(***************************************************************************)
EXTENDS Integers, FiniteSets

CONSTANTS
    Rows,       \* row ids, ordered as Postgres orders them
    MaxTime,    \* times are 1..MaxTime
    Limit       \* limit of a page

ASSUME ConstantsAssumption ==
    /\ Rows \subseteq Nat /\ IsFiniteSet(Rows)
    /\ MaxTime \in Nat \ {0} /\ Limit \in Nat \ {0}

\* No code cancels an order; a client may ask for cancelled ones.
Statuses == {"OPEN", "PARTIALLY_FILLED", "FILLED", "CANCELLED"}

VARIABLES
    route,      \* "orders" or "trades"
    time,       \* createdAt or tradedAt of each row
    stored,     \* rows in the table
    status,     \* status of each order
    walk,       \* "idle", "page", "done"
    wanted,     \* the walk's status filter
    from, to,   \* the walk's date range; 1 and MaxTime when not given
    cursor,     \* rows that come after the cursor, all of them on the first page
    page,       \* page number
    rows,       \* result of findMany, or {Pending}
    total,      \* result of count, or Pending
    seen,       \* how often the client has seen each row
    steady      \* rows that were there from the start and match the filter since

tableVars == <<stored, status>>
filterVars == <<route, time, wanted, from, to>>
vars == <<filterVars, tableVars, walk, cursor, page, rows, total, seen, steady>>

Pending == -1

Init ==
    /\ route \in {"orders", "trades"}
    /\ time \in [Rows -> 1..MaxTime]
    /\ stored = {} /\ status = [r \in Rows |-> "OPEN"]
    /\ walk = "idle" /\ wanted = Statuses /\ from = 1 /\ to = MaxTime
    /\ cursor = Rows /\ page = 1 /\ rows = {Pending} /\ total = Pending
    /\ seen = [r \in Rows |-> 0] /\ steady = {}

-----------------------------------------------------------------------------
(* The table *)

Insert ==
    /\ \E r \in Rows \ stored : stored' = stored \cup {r}
    /\ UNCHANGED <<filterVars, status, walk, cursor, page, rows, total, seen, steady>>

\* placeOrder fills a resting order, in part or completely.
Fill ==
    /\ route = "orders"
    /\ \E r \in stored :
          /\ status[r] # "FILLED"
          /\ \E s \in {"PARTIALLY_FILLED", "FILLED"} \ {status[r]} :
                /\ status' = [status EXCEPT ![r] = s]
                /\ steady' = IF s \in wanted THEN steady ELSE steady \ {r}
    /\ UNCHANGED <<filterVars, stored, walk, cursor, page, rows, total, seen>>

-----------------------------------------------------------------------------
(* The client *)

\* where, without the cursor
Matching == {r \in stored : status[r] \in wanted /\ from <= time[r] /\ time[r] <= to}

RangeIsValid(f, t) == f <= t

\* The route of the trades refuses a range whose ends are swapped; the range
\* and the filter are part of every request of the walk.
WalkStart ==
    /\ walk = "idle"
    /\ walk' = "page"
    /\ \/ /\ route = "orders"
          /\ wanted' \in {Statuses} \cup {{s} : s \in Statuses}
          /\ UNCHANGED <<from, to>>
       \/ /\ route = "trades"
          /\ from' \in 1..MaxTime /\ to' \in 1..MaxTime
          /\ RangeIsValid(from', to')
          /\ UNCHANGED wanted
    /\ UNCHANGED <<route, time, tableVars, cursor, page, rows, total, seen>>
    /\ steady' = Matching'

Shown(S) == [r \in Rows |-> seen[r] + IF r \in S THEN 1 ELSE 0]

-----------------------------------------------------------------------------
(* GET /orders/user/:address *)

\* orderBy createdAt desc, id desc
Before(q, r) == time[q] > time[r] \/ (time[q] = time[r] /\ q > r)

\* The first n rows of S.
First(S, n) == {r \in S : Cardinality({q \in S : Before(q, r)}) < n}

\* Mutant: rows of the cursor's time are taken as seen.
LaterTimeOnly(last) == {r \in Rows : time[r] < time[last]}

\* cursorWhere: createdAt below the cursor's, or equal and the id below.
cursorWhere(last) == {r \in Rows : time[r] < time[last] \/ (time[r] = time[last] /\ r < last)}

\* One extra row tells whether there is another page.
GetUserOrders ==
    /\ route = "orders" /\ walk = "page"
    /\ LET orders == First(Matching \cap cursor, Limit + 1)
           shown == First(orders, Limit)
       IN  /\ seen' = Shown(shown)
           /\ IF Cardinality(orders) > Limit
              THEN /\ walk' = walk
                   /\ \E last \in shown :
                         /\ \A r \in shown : r # last => Before(r, last)
                         /\ cursor' = cursorWhere(last)
              ELSE walk' = "done" /\ cursor' = cursor
    /\ UNCHANGED <<filterVars, tableVars, page, rows, total, steady>>

-----------------------------------------------------------------------------
(* GET /trades/user/:address, getWalletTradeHistory *)

Skip == (page - 1) * Limit
Least(a, b) == IF a < b THEN a ELSE b

\* orderBy tradedAt desc: rows of one time come in any order.  A set of rows
\* may come first when no other row is newer than one of them.
MayComeFirst(A) == \A a \in A : \A b \in Matching \ A : time[a] >= time[b]

Pages ==
    LET n == Cardinality(Matching)
    IN  {P \in SUBSET Matching :
            \E A \in SUBSET (Matching \ P) :
                /\ Cardinality(A) = Least(Skip, n)
                /\ Cardinality(A \cup P) = Least(Skip + Limit, n)
                /\ MayComeFirst(A) /\ MayComeFirst(A \cup P)}

\* findMany and count are sent together and see the table at different times.
FindMany ==
    /\ route = "trades" /\ walk = "page" /\ rows = {Pending}
    /\ rows' \in Pages
    /\ UNCHANGED <<filterVars, tableVars, walk, cursor, page, total, seen, steady>>

Count ==
    /\ route = "trades" /\ walk = "page" /\ total = Pending
    /\ total' = Cardinality(Matching)
    /\ UNCHANGED <<filterVars, tableVars, walk, cursor, page, rows, seen, steady>>

\* Mutant: hasNext counts the pages from one.
PagesFromOne == page * Limit + Cardinality(rows) < total

hasNext == Skip + Cardinality(rows) < total

Respond ==
    /\ walk = "page" /\ rows # {Pending} /\ total # Pending
    /\ seen' = Shown(rows)
    /\ IF hasNext
       THEN walk' = walk /\ page' = page + 1
       ELSE walk' = "done" /\ page' = page
    /\ rows' = {Pending} /\ total' = Pending
    /\ UNCHANGED <<filterVars, tableVars, cursor, steady>>

\* The client has its answer and the table does not change any more.
Quiescent == walk = "done" /\ UNCHANGED vars

Next == Insert \/ Fill \/ WalkStart \/ GetUserOrders \/ FindMany \/ Count \/ Respond \/ Quiescent

Spec == Init /\ [][Next]_vars

-----------------------------------------------------------------------------
(* Properties *)

\* A walk through a wallet's orders shows no order twice, and at its end it has
\* shown every order that was there when it started and matched the filter all
\* along: orders of one millisecond, orders inserted between two pages and
\* orders that change their status move no page border (orders.ts:356-391).
OrderWalkExact ==
    route = "orders" =>
        /\ \A r \in Rows : seen[r] <= 1
        /\ walk = "done" => \A r \in steady : seen[r] = 1

Repeats == {r \in Rows : seen[r] > 1}
Missed == {r \in steady : seen[r] = 0}
Inserted == Matching \ steady
NoTies == \A q, r \in Matching : time[q] = time[r] => q = r

\* A walk through the trade history shows a trade twice, or misses one, only
\* when trades were inserted under it, at most one for each insert.  It holds
\* while no two trades share a millisecond: the query orders by tradedAt alone,
\* and rows of one time may change places between two pages (audit.ts:231-263).
TradeWalkErrorsNeedInserts ==
    route = "trades" /\ NoTies =>
        /\ Cardinality(Repeats) <= Cardinality(Inserted)
        /\ walk = "done" => Cardinality(Missed) <= Cardinality(Inserted)

-----------------------------------------------------------------------------
(* The inductive invariant behind the theorems of HistoryProofs *)

TypeOK ==
    /\ route \in {"orders", "trades"}
    /\ time \in [Rows -> 1..MaxTime]
    /\ stored \subseteq Rows /\ status \in [Rows -> Statuses]
    /\ walk \in {"idle", "page", "done"}
    /\ wanted \subseteq Statuses /\ from \in 1..MaxTime /\ to \in 1..MaxTime
    /\ cursor \subseteq Rows
    /\ page \in Nat \ {0}
    /\ rows \subseteq Rows \/ rows = {Pending}
    /\ total \in Nat \cup {Pending}
    /\ seen \in [Rows -> Nat]
    /\ steady \subseteq Matching

\* Nothing has been asked yet.
IdleInv ==
    walk = "idle" =>
        /\ seen = [r \in Rows |-> 0] /\ steady = {}
        /\ cursor = Rows /\ page = 1 /\ rows = {Pending} /\ total = Pending

\* The rows after the cursor are those not shown yet, and closed under Before.
OrderInv ==
    route = "orders" =>
        /\ rows = {Pending}
        /\ \A q \in cursor, r \in Rows : Before(q, r) => r \in cursor
        /\ \A r \in Rows : seen[r] <= 1
        /\ walk # "done" => \A r \in cursor : seen[r] = 0
        /\ \A r \in steady : r \notin cursor \/ walk = "done" => seen[r] = 1

Seen == {r \in Rows : seen[r] > 0}
Newer(r) == {q \in Matching : time[q] > time[r]}

\* The rows in hand, fetched and not yet shown.
InHand == IF rows = {Pending} THEN {} ELSE rows

\* How many rows the pages so far, and the one in hand, have room for.
Room == IF rows = {Pending} THEN Skip ELSE Skip + Limit

\* A row is shown once for each place on the pages, and an old row that has
\* not been shown is behind all of them.
TradeInv ==
    route = "trades" =>
        /\ wanted = Statuses
        /\ total # Pending => total >= Cardinality(steady)
        /\ walk = "page" =>
              /\ Cardinality(Seen) + Cardinality(Repeats) + Cardinality(InHand) <= Room
              /\ Cardinality(Seen) + Cardinality(Repeats) + Cardinality(InHand)
                    <= Cardinality(Matching)
              /\ Cardinality(InHand) <= Limit
              /\ NoTies => \A r \in steady \ (Seen \cup InHand) : Cardinality(Newer(r)) >= Room

\* At the end nothing is in hand any more, and the inserts go on.
DoneInv == walk = "done" => TradeWalkErrorsNeedInserts

IInv == TypeOK /\ IdleInv /\ OrderInv /\ TradeInv /\ DoneInv
=============================================================================
