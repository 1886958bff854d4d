-------------------------------- MODULE Api --------------------------------
(***************************************************************************)
(* Requests to the API (src/index.ts): POST /orders                        *)
(* (src/api/routes/orders.ts), PATCH /admin/markets/:id/status             *)
(* (src/api/routes/admin.ts) and reads, behind the rate limiter and the    *)
(* authentication hooks.  A request is handled in steps, one per callback  *)
(* of the event loop; the steps of different requests interleave, and a    *)
(* client may send the same message again.                                 *)
(*                                                                         *)
(* What a request says is abstracted to the cases the handlers tell apart. *)
(***************************************************************************)
EXTENDS RateLimiter, FiniteSets

CONSTANTS
    Requests,   \* requests
    Messages,   \* what clients send
    Markets,    \* rows of the markets table
    NoMarket,   \* an id without a row
    EndTime,    \* endTime of each market
    Tolerance,  \* TIMESTAMP_TOLERANCE_MS
    MaxFaults   \* bound on failed database calls

ASSUME ApiAssumption ==
    /\ EndTime \in [Markets -> Nat] /\ NoMarket \notin Markets
    /\ Tolerance \in Nat /\ MaxFaults \in Nat /\ IsFiniteSet(Requests)

Statuses == {"ACTIVE", "RESOLVED", "CANCELLED"}
Ids == Markets \cup {NoMarket}

\* An order has a signing time, a signature that fits or not, and a body that
\* is good, breaks the schema, or only breaks a rule of validateOrderFields
\* (such as the tick size).  An admin's request carries no API key, the key
\* alone, the key and some token, or the key and the admin's token.
Orders == [kind: {"order"}, id: Ids, timestamp: 1..MaxTime, signed: BOOLEAN,
           body: {"good", "schema", "field"}]
Patches == [kind: {"patch"}, id: Ids, status: Statuses,
            credentials: {"none", "key", "bearer", "admin"}]
Reads == [kind: {"read"}, route: {"heavy-read", "standard", "probe"}]

ASSUME MessagesAssumption == Messages \subseteq Orders \cup Patches \cup Reads

VARIABLES
    message,    \* what each request in progress says
    stage,      \* where its handler is, or the answer
    found,      \* the market row findUnique gave its handler
    status,     \* status of each market
    stored,     \* requests whose order is in the orders table
    closed,     \* requests whose market has not been open since they arrived
    faults

requestVars == <<message, stage, found>>
dbVars == <<status, stored>>
vars == <<limiterVars, requestVars, dbVars, closed, faults>>

NotFound == [status |-> "none", endTime |-> 0]
NoMessage == [kind |-> "none"]

Init ==
    /\ LimiterInit
    /\ message = [r \in Requests |-> NoMessage]
    /\ stage = [r \in Requests |-> "unsent"]
    /\ found = [r \in Requests |-> NotFound]
    /\ status \in [Markets -> Statuses]
    /\ stored = {} /\ closed = {} /\ faults = 0

Answers == {"200", "201", "400", "401", "403", "404", "429", "500"}

Stages == {"unsent", "received", "findMarket", "checkMarket", "create", "update"} \cup Answers

\* The handler of r goes on at s, with its message and the row it has read; an
\* answer ends it, and both are forgotten.
Continue(r, s, msg, row) ==
    /\ stage' = [stage EXCEPT ![r] = s]
    /\ message' = [message EXCEPT ![r] = IF s \in Answers THEN NoMessage ELSE msg]
    /\ found' = [found EXCEPT ![r] = IF s \in Answers THEN NotFound ELSE row]

Goto(r, s) == Continue(r, s, message[r], found[r])
Fault == faults < MaxFaults /\ faults' = faults + 1

\* The row of a market; an order is welcome while it is active and not over.
Row(m) == IF m \in Markets THEN [status |-> status[m], endTime |-> EndTime[m]] ELSE NotFound
Open(m) == Row(m).status = "ACTIVE" /\ Row(m).endTime > now

Tick == Advance /\ UNCHANGED <<requestVars, dbVars, closed, faults>>

-----------------------------------------------------------------------------
(* onRequest: the limiters, and for admin routes API key and role *)

Route(msg) ==
    CASE msg.kind = "order" -> "write"
      [] msg.kind = "patch" -> "admin"
      [] msg.kind = "read"  -> msg.route

requireApiKey(msg) == IF msg.credentials = "none" THEN "401" ELSE "received"

\* Without a bearer token the request is not authenticated, with another
\* token than the admin's not allowed.
requireAdmin(msg) ==
    IF msg.credentials = "key" THEN "401"
    ELSE IF msg.credentials = "bearer" THEN "403" ELSE "received"

\* Where a request goes that the limiters let pass.
Authenticated(msg) ==
    IF msg.kind # "patch" THEN "received"
    ELSE IF requireApiKey(msg) = "401" THEN "401" ELSE requireAdmin(msg)

Arrive(r) ==
    /\ stage[r] = "unsent"
    /\ \E ip \in Ips, msg \in Messages :
          /\ Limit(ip, Route(msg))
          /\ Continue(r, IF Passes(ip, Route(msg)) THEN Authenticated(msg) ELSE "429",
                      msg, NotFound)
          /\ closed' = IF msg.kind = "order" /\ ~ Open(msg.id) THEN closed \cup {r} ELSE closed
    /\ UNCHANGED <<dbVars, faults>>

Read(r) ==
    /\ stage[r] = "received" /\ message[r].kind = "read"
    /\ Goto(r, "200")
    /\ UNCHANGED <<limiterVars, dbVars, closed, faults>>

-----------------------------------------------------------------------------
(* POST /orders *)

\* The schema of the route, and CreateOrderSchema, which accepts no less.
CreateOrderSchema(msg) == msg.body # "schema"

\* The rules for address, side, outcome, price with tick size, and quantity.
validateOrderFields(msg) == msg.body # "field"

\* verifyStellarSignature: the time in the header is near, and the signature
\* covers it and the order.
verifyStellarSignature(msg) ==
    /\ msg.timestamp - now <= Tolerance /\ now - msg.timestamp <= Tolerance
    /\ msg.signed

\* The body is parsed: schema, preHandler, zod and validateOrderFields in one
\* callback, which ends with the query for the market.
PostOrder(r) ==
    /\ stage[r] = "received" /\ message[r].kind = "order"
    /\ Goto(r, IF ~ CreateOrderSchema(message[r]) THEN "400"
               ELSE IF ~ verifyStellarSignature(message[r]) THEN "401"
               ELSE IF ~ validateOrderFields(message[r]) THEN "400" ELSE "findMarket")
    /\ UNCHANGED <<limiterVars, dbVars, closed, faults>>

FindMarket(r) ==
    /\ stage[r] = "findMarket"
    /\ Continue(r, "checkMarket", message[r], Row(message[r].id))
    /\ UNCHANGED <<limiterVars, dbVars, closed, faults>>

\* Mutant: the status is not looked at.
EndTimeOnly(market) == market # NotFound /\ market.endTime > now

\* validateMarketState, on the row as it was read.
validateMarketState(market) == market # NotFound /\ market.status = "ACTIVE" /\ market.endTime > now

CheckMarket(r) ==
    /\ stage[r] = "checkMarket"
    /\ Goto(r, IF validateMarketState(found[r]) THEN "create" ELSE "400")
    /\ UNCHANGED <<limiterVars, dbVars, closed, faults>>

\* Answered when the call succeeded; a lost acknowledgement is an error.
Acknowledged(r, s) == (Goto(r, s) /\ UNCHANGED faults) \/ (Goto(r, "500") /\ Fault)

CreateOrder(r) ==
    /\ stage[r] = "create"
    /\ stored' = stored \cup {r}
    /\ Acknowledged(r, "201")
    /\ UNCHANGED <<limiterVars, status, closed>>

-----------------------------------------------------------------------------
(* PATCH /admin/markets/:id/status *)

\* Mutant: the market is not looked up.
AnyMarket(msg) == TRUE

\* The row is there; none is ever deleted.
existing(msg) == msg.id \in Markets

PatchMarket(r) ==
    /\ stage[r] = "received" /\ message[r].kind = "patch"
    /\ Goto(r, IF existing(message[r]) THEN "update" ELSE "404")
    /\ UNCHANGED <<limiterVars, dbVars, closed, faults>>

\* Any status replaces any other.
UpdateMarket(r) ==
    /\ stage[r] = "update"
    /\ LET m == message[r].id IN
          /\ status' = [status EXCEPT ![m] = message[r].status]
          /\ closed' = IF status'[m] = "ACTIVE" /\ EndTime[m] > now
                       THEN {q \in closed : message[q] = NoMessage \/ message[q].id # m} ELSE closed
    /\ Acknowledged(r, "200")
    /\ UNCHANGED <<limiterVars, stored>>

-----------------------------------------------------------------------------

\* A database call fails without effect: the error handler answers 500.
DbFails(r) ==
    /\ \/ stage[r] \in {"findMarket", "create", "update"}
       \/ stage[r] = "received" /\ message[r].kind = "patch"
    /\ Fault
    /\ Goto(r, "500")
    /\ UNCHANGED <<limiterVars, dbVars, closed>>

AllAnswered == (\A r \in Requests : stage[r] \in Answers) /\ now = MaxTime /\ UNCHANGED vars

Step(r) ==
    \/ Read(r) \/ PostOrder(r) \/ FindMarket(r) \/ CheckMarket(r) \/ CreateOrder(r)
    \/ PatchMarket(r) \/ UpdateMarket(r)

Next ==
    \/ Tick
    \/ \E r \in Requests : Arrive(r) \/ Step(r) \/ DbFails(r)
    \/ AllAnswered

Spec == Init /\ [][Next]_vars

-----------------------------------------------------------------------------
(* Properties *)

\* Types of the variables, the limiter's included; a row about to be updated
\* exists (admin.ts:51-59).
TypeOK ==
    /\ LimiterTypeOK
    /\ message \in [Requests -> Messages \cup {NoMessage}]
    /\ stage \in [Requests -> Stages]
    /\ found \in [Requests -> {NotFound} \cup [status: Statuses, endTime: Nat]]
    /\ \A r \in Requests : stage[r] = "update" => message[r].id \in Markets
    /\ status \in [Markets -> Statuses]
    /\ stored \subseteq Requests /\ closed \subseteq Requests
    /\ faults \in 0..MaxFaults

\* An order in the table was sent while its market took orders: the market was
\* active and before its end at some moment between the arrival of the request
\* and the insert, although the row was read and the clock looked at earlier
\* than the insert and an admin may have changed the status since
\* (validation.ts:204-233, orders.ts:511-524).
AcceptedWhileOpen == stored \cap closed = {}
=============================================================================
