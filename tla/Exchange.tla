------------------------------ MODULE Exchange ------------------------------
(***************************************************************************)
(* What the matching service promises of the orders and trades tables: an  *)
(* order is placed in one atomic step, which trades it with the best of    *)
(* the orders that are open at that moment, as far as prices allow.  There *)
(* are no books, calls, locks, transactions or crashes, and an order has   *)
(* no fill counter: what it has left follows from its trades.              *)
(***************************************************************************)
EXTENDS Integers, FiniteSetsExt

CONSTANT Orders

VARIABLES
    input,   \* user, side, book, price and quantity of each order
    placed,  \* the orders placed so far
    time,    \* when each was placed; several may share a time
    traded   \* quantity traded, per taker and maker

Init ==
    /\ placed = {}
    /\ time = [o \in Orders |-> 0]
    /\ traded = [o \in Orders |-> [m \in Orders |-> 0]]

Remaining(o) ==
    input[o].quantity
       - SumFunctionOnSet([m \in Orders |-> traded[o][m] + traded[m][o]], Orders)

\* The open orders on the other side of the book of r.
Facing(r) ==
    {m \in placed : /\ input[m].book = input[r].book /\ input[m].side # input[r].side
                    /\ Remaining(m) > 0}

Accepts(r, m) ==
    IF input[r].side = "BUY" THEN input[m].price <= input[r].price
                             ELSE input[m].price >= input[r].price

\* For taker r, order o comes before order m: better by price, or older.
Ahead(r, o, m) ==
    IF input[o].price = input[m].price
    THEN time[o] < time[m]
    ELSE input[r].side = "BUY" <=> input[o].price < input[m].price

\* Taking q[m] from each m is what priority gives order r: it takes from open
\* orders it accepts, and what it leaves open was ahead of nothing it took
\* from, and is not accepted when r has something left.
Matches(r, q) ==
    /\ \A m \in Orders : q[m] > 0 => m \in Facing(r) /\ Accepts(r, m) /\ q[m] <= Remaining(m)
    /\ SumFunctionOnSet(q, Orders) <= input[r].quantity
    /\ \A o \in Facing(r) : q[o] < Remaining(o) =>
          /\ \A m \in Orders : q[m] > 0 => ~ Ahead(r, o, m)
          /\ SumFunctionOnSet(q, Orders) < input[r].quantity => ~ Accepts(r, o)

\* Order r is placed.  A user who faces an order of their own cannot place it.
Place(r) ==
    /\ r \notin placed
    /\ \A m \in Facing(r) : input[m].user # input[r].user
    /\ \E q \in [Orders -> 0..input[r].quantity] :
          Matches(r, q) /\ traded' = [traded EXCEPT ![r] = q]
    /\ placed' = placed \cup {r}
    /\ time' = [time EXCEPT ![r] = time'[r]] /\ \A o \in placed : time[o] <= time'[r]
    /\ UNCHANGED input

Next == \E r \in Orders : Place(r)

Spec == Init /\ [][Next]_<<input, placed, time, traded>>
=============================================================================
