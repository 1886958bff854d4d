---------------------------- MODULE RateLimiter ----------------------------
(***************************************************************************)
(* The rate limiter of the API (src/api/middleware/rateLimiter.ts): one    *)
(* fixed window per limit tier and IP address, kept in memory.  Every      *)
(* request but the probes counts against the global tier (src/index.ts)    *)
(* and, when that lets it pass, against the tier of its route if it has    *)
(* one.  The hooks are synchronous and run in one callback.                *)
(***************************************************************************)
EXTENDS Integers, Sequences

CONSTANTS
    Ips,        \* client addresses
    Window,     \* windowMs of each tier
    Max,        \* maxRequests of each tier
    MaxTime     \* bound on the clock

Tiers == {"global", "heavy-read", "write", "admin"}

\* A route has a tier of its own, none but the global one, or none at all.
Routes == (Tiers \ {"global"}) \cup {"standard", "probe"}

ASSUME LimiterAssumption ==
    /\ Window \in [Tiers -> Nat \ {0}]
    /\ Max \in [Tiers -> Nat \ {0}]
    /\ MaxTime \in Nat

Keys == Tiers \X Ips

VARIABLES
    now,        \* Date.now()
    store,      \* the window of each key; resetAt 0 when there is none yet
    admitted    \* when requests were let through, for each key

limiterVars == <<now, store, admitted>>

LimiterInit ==
    /\ now = 0
    /\ store = [k \in Keys |-> [count |-> 0, resetAt |-> 0]]
    /\ admitted = [k \in Keys |-> <<>>]

-----------------------------------------------------------------------------
(* applyLimit *)

\* Mutant: the request at the end of the window still belongs to it.
FreshAfterReset(k) == store[k].resetAt < now \/ store[k].count = 0

\* There is no window, or it has ended.
Fresh(k) == store[k].resetAt <= now

Allows(k) == Fresh(k) \/ store[k].count + 1 <= Max[k[1]]

\* Refused requests are counted too.
Counted(k) ==
    IF Fresh(k) THEN [count |-> 1, resetAt |-> now + Window[k[1]]]
    ELSE [store[k] EXCEPT !.count = @ + 1]

\* The limiters a request for a route reaches.
Reached(ip, route) ==
    {k \in Tiers \X {ip} :
        \/ k[1] = "global" /\ route # "probe"
        \/ k[1] = route /\ Allows(<<"global", ip>>)}

Passes(ip, route) == \A k \in Reached(ip, route) : Allows(k)

Limit(ip, route) ==
    /\ store' = [k \in Keys |-> IF k \in Reached(ip, route) THEN Counted(k) ELSE store[k]]
    /\ admitted' = [k \in Keys |-> IF k \in Reached(ip, route) /\ Allows(k)
                                   THEN Append(admitted[k], now) ELSE admitted[k]]
    /\ UNCHANGED now

Advance ==
    /\ now < MaxTime
    /\ now' = now + 1
    /\ UNCHANGED <<store, admitted>>

LimiterNext == Advance \/ \E ip \in Ips, route \in Routes : Limit(ip, route)

\* The limiter alone: requests for any route at any time.
LimiterSpec == LimiterInit /\ [][LimiterNext]_limiterVars

-----------------------------------------------------------------------------
(* Properties *)

LimiterTypeOK ==
    /\ now \in 0..MaxTime
    /\ store \in [Keys -> [count: Nat, resetAt: Nat]]
    /\ admitted \in [Keys -> Seq(0..MaxTime)]

\* In less than a window's length fewer than twice the maximum are let
\* through, however requests fall on the borders of windows and however many
\* refused requests come between: a window opens with its first request ...
NoBurst(k) ==
    LET n == 2 * Max[k[1]] - 1
    IN  \A i \in 1..(Len(admitted[k]) - n) :
            admitted[k][i + n] - admitted[k][i] >= Window[k[1]]

\* ... and who is refused has been let through as often as the maximum says
\* within the last window's length: refused requests do not lengthen the wait.
RefusalIsEarned(k) ==
    ~ Allows(k) =>
        /\ Len(admitted[k]) >= Max[k[1]]
        /\ admitted[k][Len(admitted[k]) - Max[k[1]] + 1] > now - Window[k[1]]

\* The limiter of every tier and address lets through what it should and
\* refuses what it should, at every point of its windows
\* (rateLimiter.ts:98-129).
QuotaIsExact == \A k \in Keys : NoBurst(k) /\ RefusalIsEarned(k)

-----------------------------------------------------------------------------
(* A documented expectation the code does not meet *)

\* docs/rate-limiting.md:3, "in-memory, per-IP sliding-window rate limiter": in
\* any window's length at most the maximum is let through.
SlidingWindow ==
    \A k \in Keys : \A i \in 1..(Len(admitted[k]) - Max[k[1]]) :
        admitted[k][i + Max[k[1]]] - admitted[k][i] >= Window[k[1]]
=============================================================================
