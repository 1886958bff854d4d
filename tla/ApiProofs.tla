----------------------------- MODULE ApiProofs -----------------------------
(***************************************************************************)
(* Proofs about RateLimiter and Api, for any number of clients, requests   *)
(* and markets, any windows, maxima and tolerance.                         *)
(***************************************************************************)
EXTENDS Api, SequenceTheorems, TLAPS

-----------------------------------------------------------------------------
(* One limiter: log L of admissions, window with count c and end R, time t, *)
(* window length w and maximum m.                                           *)

\* Admissions that belong to the current window.
Held(c, m) == IF c <= m THEN c ELSE m

\* The strengthening of QuotaIsExact: where the admissions of the current
\* window, of the one before it and of older ones lie in time.  A window opens
\* with its first admission, so of the m admissions before it all but the last
\* m - 1 are a window's length older.
Good(L, c, R, t, w, m) ==
    /\ Held(c, m) <= Len(L)
    /\ c = 0 => R = 0
    /\ R - w <= t
    /\ \A j \in 1..Len(L) : L[j] <= t
    /\ \A j \in 1..Len(L) : j > Len(L) - Held(c, m) => R - w <= L[j]
    /\ \A j \in 1..Len(L) : j <= Len(L) - Held(c, m) + 1 => L[j] <= R - w
    /\ \A j \in 1..Len(L) : j <= Len(L) - Held(c, m) - m + 1 => L[j] <= R - 2 * w
    /\ \A i \in 1..(Len(L) - (2 * m - 1)) : L[i + (2 * m - 1)] - L[i] >= w

\* A limiter that nobody has used is good.
LEMMA GoodAtFirst ==
    ASSUME NEW t \in Nat, NEW w \in Nat \ {0}, NEW m \in Nat \ {0}
    PROVE  Good(<< >>, 0, 0, t, w, m)
BY DEF Good, Held

\* Time passes.
LEMMA GoodLater ==
    ASSUME NEW t \in Nat, NEW u \in Nat, t <= u, NEW w \in Nat \ {0}, NEW m \in Nat \ {0},
           NEW L \in Seq(Nat), NEW c \in Nat, NEW R \in Nat, Good(L, c, R, t, w, m)
    PROVE  Good(L, c, R, u, w, m)
<1>1. Held(c, m) \in Nat
  BY DEF Held
<1> QED
  BY <1>1 DEF Good

\* A request opens a window: all admissions so far are older than it, and all
\* but the last m - 1 of them older by a window's length.
LEMMA GoodFresh ==
    ASSUME NEW t \in Nat, NEW w \in Nat \ {0}, NEW m \in Nat \ {0},
           NEW L \in Seq(Nat), NEW c \in Nat, NEW R \in Nat, Good(L, c, R, t, w, m), R <= t
    PROVE  Good(Append(L, t), 1, t + w, t, w, m)
<1> DEFINE K == Append(L, t)
<1>1. /\ Len(K) = Len(L) + 1 /\ Len(L) \in Nat
      /\ K[Len(L) + 1] = t
      /\ \A j \in 1..Len(L) : K[j] = L[j] /\ L[j] \in Nat
  OBVIOUS
<1>2. Held(c, m) \in 0..m /\ Held(1, m) = 1
  BY DEF Held
<1>3. \A j \in 1..Len(L) : L[j] <= t
  BY DEF Good
<1>4. \A j \in 1..Len(L) : j <= Len(L) - m + 1 => L[j] <= t - w
  <2> SUFFICES ASSUME NEW j \in 1..Len(L), j <= Len(L) - m + 1
               PROVE  L[j] <= t - w
    OBVIOUS
  <2>1. j <= Len(L) - Held(c, m) + 1
    BY <1>1, <1>2
  <2>2. L[j] <= R - w
    BY <2>1 DEF Good
  <2> QED
    BY <1>1, <2>2
<1>5. \A i \in 1..(Len(K) - (2 * m - 1)) : K[i + (2 * m - 1)] - K[i] >= w
  <2> SUFFICES ASSUME NEW i \in 1..(Len(K) - (2 * m - 1))
               PROVE  K[i + (2 * m - 1)] - K[i] >= w
    OBVIOUS
  <2>1. CASE i + (2 * m - 1) = Len(L) + 1
    <3>1. i \in 1..Len(L) /\ i <= Len(L) - m + 1 /\ K[i + (2 * m - 1)] = t
      BY <1>1, <2>1
    <3>2. L[i] <= t - w /\ K[i] = L[i] /\ L[i] \in Nat
      BY <1>1, <1>4, <3>1
    <3> HIDE DEF K
    <3> QED
      BY <3>1, <3>2
  <2>2. CASE i + (2 * m - 1) # Len(L) + 1
    <3>1. i \in 1..(Len(L) - (2 * m - 1)) /\ i + (2 * m - 1) \in 1..Len(L) /\ i \in 1..Len(L)
      BY <1>1, <2>2
    <3>2. L[i + (2 * m - 1)] - L[i] >= w
      BY <3>1 DEF Good
    <3> QED
      BY <1>1, <3>1, <3>2
  <2> QED
    BY <2>1, <2>2
<1>6. \A j \in 1..Len(K) : K[j] <= t
  BY <1>1, <1>3
<1>7. \A j \in 1..Len(K) : j > Len(K) - 1 => (t + w) - w <= K[j]
  BY <1>1
<1>8. \A j \in 1..Len(K) : j <= Len(K) - 1 + 1 => K[j] <= (t + w) - w
  BY <1>1, <1>3
<1>9. \A j \in 1..Len(K) : j <= Len(K) - 1 - m + 1 => K[j] <= (t + w) - 2 * w
  BY <1>1, <1>4
<1>10. 1 <= Len(K) /\ (t + w) - w <= t
  BY <1>1
<1> HIDE DEF K
<1>11. Good(K, 1, t + w, t, w, m)
  BY <1>2, <1>5, <1>6, <1>7, <1>8, <1>9, <1>10 DEF Good
<1> QED
  BY <1>11 DEF K

\* A request is let through in the current window: what lies 2 * m - 1
\* admissions back is at best the one that opened the window before.
LEMMA GoodAdmit ==
    ASSUME NEW t \in Nat, NEW w \in Nat \ {0}, NEW m \in Nat \ {0},
           NEW L \in Seq(Nat), NEW c \in Nat, NEW R \in Nat, Good(L, c, R, t, w, m), ~ (R <= t),
           c + 1 <= m
    PROVE  Good(Append(L, t), c + 1, R, t, w, m)
<1> DEFINE K == Append(L, t)
<1>1. /\ Len(K) = Len(L) + 1 /\ Len(L) \in Nat
      /\ K[Len(L) + 1] = t
      /\ \A j \in 1..Len(L) : K[j] = L[j] /\ L[j] \in Nat
  OBVIOUS
<1>2. Held(c, m) = c /\ Held(c + 1, m) = c + 1
  BY DEF Held
<1>3. \A i \in 1..(Len(K) - (2 * m - 1)) : K[i + (2 * m - 1)] - K[i] >= w
  <2> SUFFICES ASSUME NEW i \in 1..(Len(K) - (2 * m - 1))
               PROVE  K[i + (2 * m - 1)] - K[i] >= w
    OBVIOUS
  <2>1. CASE i + (2 * m - 1) = Len(L) + 1
    <3>1. i \in 1..Len(L) /\ i <= Len(L) - c - m + 1
      BY <1>1, <2>1
    <3>2. L[i] <= R - 2 * w /\ R - w <= t
      BY <3>1, <1>2 DEF Good
    <3>3. K[i] = L[i] /\ L[i] \in Nat /\ K[i + (2 * m - 1)] = t
      BY <1>1, <2>1, <3>1
    <3> HIDE DEF K
    <3> QED
      BY <3>2, <3>3
  <2>2. CASE i + (2 * m - 1) # Len(L) + 1
    <3>1. i \in 1..(Len(L) - (2 * m - 1)) /\ i + (2 * m - 1) \in 1..Len(L) /\ i \in 1..Len(L)
      <4>1. Len(K) = Len(L) + 1 /\ Len(L) \in Nat
        BY <1>1
      <4> HIDE DEF K
      <4> QED
        BY <2>2, <4>1
    <3>2. L[i + (2 * m - 1)] - L[i] >= w
      BY <3>1 DEF Good
    <3> QED
      BY <1>1, <3>1, <3>2
  <2> QED
    BY <2>1, <2>2
<1>4. c <= Len(L) /\ R - w <= t
  BY <1>2 DEF Good
<1>5. \A j \in 1..Len(K) : K[j] <= t
  BY <1>1 DEF Good
<1>6. \A j \in 1..Len(K) : j > Len(K) - (c + 1) => R - w <= K[j]
  BY <1>1, <1>2 DEF Good
<1>0. c # 0
  BY DEF Good
<1>7. \A j \in 1..Len(K) : j <= Len(K) - (c + 1) + 1 => K[j] <= R - w
  BY <1>0, <1>1, <1>2 DEF Good
<1>8. \A j \in 1..Len(K) : j <= Len(K) - (c + 1) - m + 1 => K[j] <= R - 2 * w
  BY <1>1, <1>2 DEF Good
<1>9. c + 1 <= Len(K)
  BY <1>1, <1>4
<1> HIDE DEF K
<1>10. Good(K, c + 1, R, t, w, m)
  BY <1>2, <1>3, <1>4, <1>5, <1>6, <1>7, <1>8, <1>9 DEF Good
<1> QED
  BY <1>10 DEF K

\* A refused request only raises a count that is at the maximum already.
LEMMA GoodRefuse ==
    ASSUME NEW t \in Nat, NEW w \in Nat \ {0}, NEW m \in Nat \ {0},
           NEW L \in Seq(Nat), NEW c \in Nat, NEW R \in Nat, Good(L, c, R, t, w, m), ~ (c + 1 <= m)
    PROVE  Good(L, c + 1, R, t, w, m)
<1>1. Held(c, m) = m /\ Held(c + 1, m) = m
  BY DEF Held
<1>2. c + 1 # 0
  OBVIOUS
<1> QED
  BY <1>1, <1>2, Zenon DEF Good

\* What Good says about bursts and refusals.
LEMMA GoodIsExact ==
    ASSUME NEW t \in Nat, NEW w \in Nat \ {0}, NEW m \in Nat \ {0},
           NEW L \in Seq(Nat), NEW c \in Nat, NEW R \in Nat, Good(L, c, R, t, w, m),
           ~ (R <= t), ~ (c + 1 <= m)
    PROVE  Len(L) >= m /\ L[Len(L) - m + 1] > t - w
<1>1. Held(c, m) = m
  BY DEF Held
<1>2. Len(L) >= m /\ Len(L) \in Nat
  BY <1>1 DEF Good
<1>3. Len(L) - m + 1 \in 1..Len(L) /\ Len(L) - m + 1 > Len(L) - m
  BY <1>2
<1>4. R - w <= L[Len(L) - m + 1]
  BY <1>1, <1>3 DEF Good
<1>5. L[Len(L) - m + 1] \in Nat
  BY <1>3
<1> QED
  BY <1>2, <1>4, <1>5

-----------------------------------------------------------------------------
(* All limiters *)

\* The limiter of key k is good.
LimiterGood(k) == Good(admitted[k], store[k].count, store[k].resetAt, now, Window[k[1]], Max[k[1]])

\* The inductive invariant of the limiters.
LimiterInv == LimiterTypeOK /\ \A k \in Keys : LimiterGood(k)

\* A sequence of times is a sequence of numbers.
LEMMA SeqOfTimes == \A L : L \in Seq(0..MaxTime) => L \in Seq(Nat)
<1>1. 0..MaxTime \subseteq Nat
  BY LimiterAssumption
<1>2. Seq(0..MaxTime) \subseteq Seq(Nat)
  BY <1>1, SeqMonotonic, Zenon
<1> QED
  BY <1>2

\* The parameters of the limiter of a key.
LEMMA KeyTypes ==
    ASSUME LimiterTypeOK, NEW k \in Keys
    PROVE  /\ Window[k[1]] \in Nat \ {0} /\ Max[k[1]] \in Nat \ {0}
           /\ admitted[k] \in Seq(Nat) /\ admitted[k] \in Seq(0..MaxTime)
           /\ store[k].count \in Nat /\ store[k].resetAt \in Nat
           /\ store[k] \in [count: Nat, resetAt: Nat]
           /\ now \in Nat /\ now \in 0..MaxTime
<1>1. k[1] \in Tiers
  BY DEF Keys
<1>2. admitted[k] \in Seq(0..MaxTime)
  BY DEF LimiterTypeOK
<1>3. admitted[k] \in Seq(Nat)
  BY <1>2, SeqOfTimes
<1> QED
  BY <1>1, <1>2, <1>3, LimiterAssumption DEF LimiterTypeOK

\* The invariant holds at the start ...
LEMMA LimiterInvInit == LimiterInit => LimiterInv
<1> SUFFICES ASSUME LimiterInit PROVE LimiterInv
  OBVIOUS
<1>1. LimiterTypeOK
  BY LimiterAssumption DEF LimiterInit, LimiterTypeOK
<1>2. ASSUME NEW k \in Keys PROVE LimiterGood(k)
  BY <1>1, <1>2, KeyTypes, GoodAtFirst DEF LimiterGood, LimiterInit
<1> QED
  BY <1>1, <1>2 DEF LimiterInv

\* ... a request keeps it ...
LEMMA LimitKeepsInv ==
    ASSUME LimiterInv, NEW ip \in Ips, NEW route \in Routes, Limit(ip, route)
    PROVE  LimiterInv'
<1>0. LimiterTypeOK /\ \A k \in Keys : LimiterGood(k)
  BY DEF LimiterInv
<1>1. now' = now
  BY DEF Limit
<1>2. ASSUME NEW k \in Keys
      PROVE  /\ store'[k] = IF k \in Reached(ip, route) THEN Counted(k) ELSE store[k]
             /\ admitted'[k] = IF k \in Reached(ip, route) /\ Allows(k)
                               THEN Append(admitted[k], now) ELSE admitted[k]
  BY <1>2 DEF Limit
<1>3. ASSUME NEW k \in Keys
      PROVE  /\ store'[k] \in [count: Nat, resetAt: Nat]
             /\ admitted'[k] \in Seq(0..MaxTime)
             /\ LimiterGood(k)'
  <2> USE <1>3
  <2>0. /\ Window[k[1]] \in Nat \ {0} /\ Max[k[1]] \in Nat \ {0}
        /\ admitted[k] \in Seq(Nat) /\ admitted[k] \in Seq(0..MaxTime)
        /\ store[k].count \in Nat /\ store[k].resetAt \in Nat
        /\ store[k] \in [count: Nat, resetAt: Nat]
        /\ now \in Nat /\ now \in 0..MaxTime
    BY <1>0, KeyTypes
  <2>1. Good(admitted[k], store[k].count, store[k].resetAt, now, Window[k[1]], Max[k[1]])
    BY <1>0 DEF LimiterGood
  <2>2. CASE k \notin Reached(ip, route)
    <3>1. store'[k] = store[k] /\ admitted'[k] = admitted[k]
      BY <1>2, <2>2
    <3> QED
      BY <1>1, <2>0, <2>1, <3>1 DEF LimiterGood
  <2>3. CASE k \in Reached(ip, route) /\ Fresh(k)
    <3>1. store[k].resetAt <= now /\ Allows(k)
      BY <2>3 DEF Fresh, Allows
    <3>2. store'[k] = [count |-> 1, resetAt |-> now + Window[k[1]]]
      BY <1>2, <2>3 DEF Counted
    <3>3. admitted'[k] = Append(admitted[k], now)
      BY <1>2, <2>3, <3>1
    <3>4. Good(Append(admitted[k], now), 1, now + Window[k[1]], now, Window[k[1]], Max[k[1]])
      BY <2>0, <2>1, <3>1, GoodFresh
    <3>5. store'[k].count = 1 /\ store'[k].resetAt = now + Window[k[1]]
      BY <3>2
    <3> QED
      BY <1>1, <2>0, <3>2, <3>3, <3>4, <3>5 DEF LimiterGood
  <2>4. CASE k \in Reached(ip, route) /\ ~ Fresh(k)
    <3>1. store'[k] = [store[k] EXCEPT !.count = @ + 1]
      BY <1>2, <2>4 DEF Counted
    <3>2. /\ store'[k].count = store[k].count + 1 /\ store'[k].resetAt = store[k].resetAt
          /\ store'[k] \in [count: Nat, resetAt: Nat]
      BY <2>0, <3>1
    <3>3. CASE store[k].count + 1 <= Max[k[1]]
      <4>1. admitted'[k] = Append(admitted[k], now)
        BY <1>2, <2>4, <3>3 DEF Allows
      <4>2. Good(Append(admitted[k], now), store[k].count + 1, store[k].resetAt, now, Window[k[1]], Max[k[1]])
        BY <2>0, <2>1, <2>4, <3>3, GoodAdmit DEF Fresh
      <4> QED
        BY <1>1, <2>0, <3>2, <4>1, <4>2 DEF LimiterGood
    <3>4. CASE ~ (store[k].count + 1 <= Max[k[1]])
      <4>1. admitted'[k] = admitted[k]
        BY <1>2, <2>4, <3>4 DEF Allows
      <4>2. Good(admitted[k], store[k].count + 1, store[k].resetAt, now, Window[k[1]], Max[k[1]])
        BY <2>0, <2>1, <3>4, GoodRefuse
      <4> QED
        BY <1>1, <2>0, <3>2, <4>1, <4>2 DEF LimiterGood
    <3> QED
      BY <3>3, <3>4
  <2> QED
    BY <2>2, <2>3, <2>4
<1>4. LimiterTypeOK'
  <2>1. store' = [k \in Keys |-> store'[k]] /\ admitted' = [k \in Keys |-> admitted'[k]]
    BY DEF Limit
  <2>2. store' \in [Keys -> [count: Nat, resetAt: Nat]] /\ admitted' \in [Keys -> Seq(0..MaxTime)]
    BY <1>3, <2>1
  <2> QED
    BY <1>0, <1>1, <2>2 DEF LimiterTypeOK
<1> QED
  BY <1>3, <1>4 DEF LimiterInv

\* ... and so does the passing of time.
LEMMA AdvanceKeepsInv == LimiterInv /\ Advance => LimiterInv'
<1> SUFFICES ASSUME LimiterInv, Advance PROVE LimiterInv'
  OBVIOUS
<1>1. LimiterTypeOK'
  BY LimiterAssumption DEF LimiterInv, LimiterTypeOK, Advance
<1>2. ASSUME NEW k \in Keys PROVE LimiterGood(k)'
  <2>1. now' \in Nat /\ now <= now' /\ store' = store /\ admitted' = admitted
    BY LimiterAssumption DEF LimiterInv, LimiterTypeOK, Advance
  <2>2. LimiterTypeOK /\ LimiterGood(k)
    BY <1>2 DEF LimiterInv
  <2> QED
    BY <1>2, <2>1, <2>2, KeyTypes, GoodLater DEF LimiterGood
<1> QED
  BY <1>1, <1>2 DEF LimiterInv

\* Every step of the limiters keeps the invariant.
LEMMA LimiterInvStep == LimiterInv /\ [LimiterNext]_limiterVars => LimiterInv'
<1> SUFFICES ASSUME LimiterInv, [LimiterNext]_limiterVars PROVE LimiterInv'
  OBVIOUS
<1>1. CASE Advance
  BY <1>1, AdvanceKeepsInv
<1>2. ASSUME NEW ip \in Ips, NEW route \in Routes, Limit(ip, route) PROVE LimiterInv'
  BY <1>2, LimitKeepsInv
<1>3. CASE UNCHANGED limiterVars
  BY <1>3 DEF limiterVars, LimiterInv, LimiterTypeOK, LimiterGood
<1> QED
  BY <1>1, <1>2, <1>3 DEF LimiterNext

\* The invariant says what QuotaIsExact says.
LEMMA LimiterInvIsExact == LimiterInv => QuotaIsExact
<1> SUFFICES ASSUME LimiterInv, NEW k \in Keys PROVE NoBurst(k) /\ RefusalIsEarned(k)
  BY DEF QuotaIsExact
<1>1. LimiterTypeOK /\ LimiterGood(k)
  BY DEF LimiterInv
<1>2. NoBurst(k)
  BY <1>1 DEF LimiterGood, Good, NoBurst
<1>3. RefusalIsEarned(k)
  <2> SUFFICES ASSUME ~ Allows(k)
               PROVE  /\ Len(admitted[k]) >= Max[k[1]]
                      /\ admitted[k][Len(admitted[k]) - Max[k[1]] + 1] > now - Window[k[1]]
    BY DEF RefusalIsEarned
  <2> QED
    BY <1>1, KeyTypes, GoodIsExact DEF LimiterGood, Allows, Fresh
<1> QED
  BY <1>2, <1>3

-----------------------------------------------------------------------------
(* Theorems about the limiter *)

\* Under any sequence of requests, of any clients and routes, the limiter of
\* every tier and address admits fewer than twice the maximum in less than a
\* window and refuses only who has used up the maximum (applyLimit).
THEOREM LimiterIsExact == LimiterSpec => []QuotaIsExact
BY LimiterInvInit, LimiterInvStep, LimiterInvIsExact, PTL DEF LimiterSpec

-----------------------------------------------------------------------------
(* The API implements the limiter *)

\* Of the steps of the API, arrivals and the clock move the limiters.
LEMMA ApiStepIsLimiterStep == [Next]_vars => [LimiterNext]_limiterVars
<1> SUFFICES ASSUME [Next]_vars PROVE [LimiterNext]_limiterVars
  OBVIOUS
<1>1. CASE Tick
  BY <1>1 DEF Tick, LimiterNext
<1>2. ASSUME NEW r \in Requests, Arrive(r) PROVE LimiterNext
  <2>1. PICK ip \in Ips, msg \in Messages : Limit(ip, Route(msg))
    BY <1>2 DEF Arrive
  <2>2. msg.kind \in {"order", "patch", "read"}
    BY MessagesAssumption DEF Orders, Patches, Reads
  <2>3. Route(msg) \in Routes
    BY <2>2, MessagesAssumption DEF Route, Routes, Tiers, Orders, Patches, Reads
  <2> QED
    BY <2>1, <2>3 DEF LimiterNext
<1>3. ASSUME NEW r \in Requests, Step(r) \/ DbFails(r) PROVE UNCHANGED limiterVars
  BY <1>3 DEF Step, Read, PostOrder, FindMarket, CheckMarket, CreateOrder, PatchMarket, UpdateMarket, DbFails
<1>4. CASE AllAnswered \/ UNCHANGED vars
  BY <1>4 DEF AllAnswered, vars
<1> QED
  BY <1>1, <1>2, <1>3, <1>4 DEF Next

\* Every behaviour of the API is, for its limiters, a behaviour of the limiter
\* alone: handlers, database and admin changes do not touch them.
THEOREM ApiImplementsLimiter == Spec => LimiterSpec
<1>1. Init => LimiterInit
  BY DEF Init
<1> QED
  BY <1>1, ApiStepIsLimiterStep, PTL DEF Spec, LimiterSpec

\* So the quotas are exact in the API as well.
THEOREM ApiQuotaIsExact == Spec => []QuotaIsExact
BY ApiImplementsLimiter, LimiterIsExact, PTL

-----------------------------------------------------------------------------
(* Orders are accepted while their market is open *)

\* A handler that has more to do than to answer is at one of these stages.
AtWork == {"received", "findMarket", "checkMarket", "create", "update"}

\* The inductive invariant of AcceptedWhileOpen: a request whose market has
\* been closed since its arrival finds it closed now, is an order that has not
\* passed the check of the market, and has read a row that fails the check.
ClosedOrder(r) ==
    /\ stage[r] \notin {"unsent", "create"}
    /\ r \notin stored
    /\ stage[r] \in AtWork => message[r].kind = "order" /\ ~ Open(message[r].id)
    /\ stage[r] = "checkMarket" => ~ (found[r].status = "ACTIVE" /\ found[r].endTime > now)

\* Only a patch updates a market.
PatchAtUpdate(r) == stage[r] = "update" => message[r].kind = "patch"

\* A stored order has been answered.
ClosedInv ==
    /\ LimiterInv /\ TypeOK
    /\ \A r \in Requests : PatchAtUpdate(r)
    /\ \A r \in stored : stage[r] \in Answers
    /\ \A r \in closed : ClosedOrder(r)

\* What Continue does to the variables of requests.
LEMMA ContinueTypes ==
    ASSUME TypeOK, NEW r \in Requests, NEW s \in Stages,
           NEW msg \in Messages \cup {NoMessage},
           NEW row \in {NotFound} \cup [status: Statuses, endTime: Nat],
           Continue(r, s, msg, row)
    PROVE  /\ message' \in [Requests -> Messages \cup {NoMessage}]
           /\ stage' \in [Requests -> Stages]
           /\ found' \in [Requests -> {NotFound} \cup [status: Statuses, endTime: Nat]]
           /\ stage'[r] = s
           /\ s \notin Answers => message'[r] = msg /\ found'[r] = row
           /\ \A q \in Requests \ {r} :
                 stage'[q] = stage[q] /\ message'[q] = message[q] /\ found'[q] = found[q]
BY DEF TypeOK, Continue

\* ... and Goto, which keeps message and row.
LEMMA GotoTypes ==
    ASSUME TypeOK, NEW r \in Requests, NEW s \in Stages, Goto(r, s)
    PROVE  /\ message' \in [Requests -> Messages \cup {NoMessage}]
           /\ stage' \in [Requests -> Stages]
           /\ found' \in [Requests -> {NotFound} \cup [status: Statuses, endTime: Nat]]
           /\ stage'[r] = s
           /\ s \notin Answers => message'[r] = message[r] /\ found'[r] = found[r]
           /\ \A q \in Requests \ {r} :
                 stage'[q] = stage[q] /\ message'[q] = message[q] /\ found'[q] = found[q]
<1>1. message[r] \in Messages \cup {NoMessage} /\ found[r] \in {NotFound} \cup [status: Statuses, endTime: Nat]
  BY DEF TypeOK
<1> QED
  BY <1>1, ContinueTypes DEF Goto

\* A message of kind order is an order; the row of a market is a row.
LEMMA MessageTypes ==
    /\ \A msg \in Messages \cup {NoMessage} : msg.kind = "order" => msg \in Orders
    /\ \A msg \in Messages \cup {NoMessage} : msg.kind = "patch" => msg \in Patches
    /\ \A msg \in Messages : msg.kind # "none"
<1>1. \A msg \in Messages \cup {NoMessage} : msg \in Orders \/ msg \in Patches \/ msg \in Reads \/ msg = NoMessage
  BY MessagesAssumption
<1>2. \A msg \in Orders : msg.kind = "order"
  BY DEF Orders
<1>3. \A msg \in Patches : msg.kind = "patch"
  BY DEF Patches
<1>4. \A msg \in Reads : msg.kind = "read"
  BY DEF Reads
<1>5. NoMessage.kind = "none"
  BY DEF NoMessage
<1> QED
  BY <1>1, <1>2, <1>3, <1>4, <1>5, MessagesAssumption

\* Facts about the stages.
LEMMA StageFacts ==
    /\ AtWork \subseteq Stages /\ Answers \subseteq Stages
    /\ AtWork \cap Answers = {} /\ "unsent" \notin Answers /\ "unsent" \in Stages
BY DEF AtWork, Stages, Answers

\* Every step that moves the handler of r on and leaves the clock, the markets
\* and `closed' alone keeps the invariant, if r itself is left in order.
LEMMA HandlerStep ==
    ASSUME ClosedInv, LimiterInv', NEW r \in Requests, NEW s \in Stages, Goto(r, s),
           stage[r] \in AtWork, UNCHANGED <<now, status, closed>>,
           stored' = stored \/ (stored' = stored \cup {r} /\ s \in Answers),
           faults' \in 0..MaxFaults,
           s = "update" => message[r].id \in Markets /\ message[r].kind = "patch",
           r \in closed => s # "unsent" /\ s # "create" /\ s # "checkMarket" /\ r \notin stored'
    PROVE  ClosedInv'
<1>0. TypeOK
  BY DEF ClosedInv
<1>1. /\ message' \in [Requests -> Messages \cup {NoMessage}]
      /\ stage' \in [Requests -> Stages]
      /\ found' \in [Requests -> {NotFound} \cup [status: Statuses, endTime: Nat]]
      /\ stage'[r] = s
      /\ s \notin Answers => message'[r] = message[r] /\ found'[r] = found[r]
      /\ \A q \in Requests \ {r} :
            stage'[q] = stage[q] /\ message'[q] = message[q] /\ found'[q] = found[q]
  BY <1>0, GotoTypes
<1>2. TypeOK'
  <2>1. \A q \in Requests : stage'[q] = "update" => message'[q].id \in Markets
    BY <1>0, <1>1 DEF TypeOK, Answers
  <2> QED
    BY <1>0, <1>1, <2>1 DEF TypeOK, LimiterInv
<1>3. \A q \in stored' : stage'[q] \in Answers
  <2>1. \A q \in stored : q \in Requests /\ q # r /\ stage[q] \in Answers
    BY <1>0, StageFacts DEF ClosedInv, TypeOK
  <2> QED
    BY <1>1, <2>1
<1>4. ASSUME NEW q \in closed' PROVE ClosedOrder(q)'
  <2>1. q \in Requests /\ ClosedOrder(q)
    BY <1>0, <1>4 DEF ClosedInv, TypeOK
  <2>2. CASE q # r
    BY <1>1, <2>1, <2>2 DEF ClosedOrder, Open, Row
  <2>3. CASE q = r
    <3>1. s # "unsent" /\ s # "create" /\ s # "checkMarket" /\ r \notin stored'
      BY <1>4, <2>3
    <3>2. message[r].kind = "order" /\ ~ Open(message[r].id)
      BY <2>1, <2>3 DEF ClosedOrder
    <3>3. s \in AtWork => message'[r] = message[r]
      BY <1>1, StageFacts
    <3> QED
      BY <1>1, <2>3, <3>1, <3>2, <3>3 DEF ClosedOrder, Open, Row
  <2> QED
    BY <2>2, <2>3
<1>5. \A q \in Requests : PatchAtUpdate(q)'
  BY <1>1 DEF ClosedInv, PatchAtUpdate, Answers
<1> QED
  BY <1>2, <1>3, <1>4, <1>5 DEF ClosedInv

\* The invariant holds at the start.
LEMMA ClosedInvInit == Init => ClosedInv
<1> SUFFICES ASSUME Init PROVE ClosedInv
  OBVIOUS
<1>1. LimiterInv
  BY LimiterInvInit DEF Init
<1>2. TypeOK
  <2>1. [r \in Requests |-> "unsent"] \in [Requests -> Stages]
    BY StageFacts
  <2> QED
    BY <1>1, <2>1, ApiAssumption DEF Init, TypeOK, LimiterInv
<1> QED
  BY <1>1, <1>2 DEF Init, ClosedInv, PatchAtUpdate

\* Time can only close a market.
LEMMA TickKeepsClosed ==
    ASSUME ClosedInv, LimiterInv', Tick
    PROVE  ClosedInv'
<1>0. /\ now' = now + 1 /\ now \in Nat /\ now' \in Nat
      /\ UNCHANGED <<message, stage, found, status, stored, closed, faults>>
  BY LimiterAssumption DEF Tick, Advance, requestVars, dbVars, ClosedInv, TypeOK, LimiterTypeOK
<1>1. TypeOK'
  BY <1>0 DEF ClosedInv, TypeOK, LimiterInv
<1>2. ASSUME NEW q \in closed' PROVE ClosedOrder(q)'
  <2>1. q \in Requests /\ ClosedOrder(q)
    BY <1>0, <1>2 DEF ClosedInv, TypeOK
  <2>2. \A m : Row(m).endTime \in Nat
    BY ApiAssumption DEF Row, NotFound
  <2>3. ~ Open(message[q].id) => ~ Open(message[q].id)'
    <3>1. Row(message[q].id)' = Row(message[q].id) /\ message'[q] = message[q]
      BY <1>0 DEF Row
    <3> QED
      BY <1>0, <2>2, <3>1 DEF Open
  <2>4. found[q].endTime \in Nat
    BY <2>1 DEF ClosedInv, TypeOK, NotFound
  <2> QED
    BY <1>0, <2>1, <2>3, <2>4 DEF ClosedOrder
<1> QED
  BY <1>0, <1>1, <1>2 DEF ClosedInv, PatchAtUpdate

\* An order that arrives at a closed market is marked.
LEMMA ArriveKeepsClosed ==
    ASSUME ClosedInv, LimiterInv', NEW r \in Requests, Arrive(r)
    PROVE  ClosedInv'
<1>0. TypeOK /\ stage[r] = "unsent"
  BY DEF ClosedInv, Arrive
<1>1. PICK ip \in Ips, msg \in Messages :
         /\ Limit(ip, Route(msg))
         /\ Continue(r, IF Passes(ip, Route(msg)) THEN Authenticated(msg) ELSE "429",
                     msg, NotFound)
         /\ closed' = IF msg.kind = "order" /\ ~ Open(msg.id) THEN closed \cup {r} ELSE closed
  BY DEF Arrive
<1> DEFINE s == IF Passes(ip, Route(msg)) THEN Authenticated(msg) ELSE "429"
<1>2. s \in {"429", "received", "401", "403"}
  BY DEF Authenticated, requireAdmin
<1> HIDE DEF s
<1>3. /\ message' \in [Requests -> Messages \cup {NoMessage}]
      /\ stage' \in [Requests -> Stages]
      /\ found' \in [Requests -> {NotFound} \cup [status: Statuses, endTime: Nat]]
      /\ stage'[r] = s
      /\ s \notin Answers => message'[r] = msg /\ found'[r] = NotFound
      /\ \A q \in Requests \ {r} :
            stage'[q] = stage[q] /\ message'[q] = message[q] /\ found'[q] = found[q]
  <2>1. Continue(r, s, msg, NotFound)
    BY <1>1 DEF s
  <2>2. s \in Stages
    BY <1>2 DEF Stages, Answers
  <2> QED
    BY <1>0, <2>1, <2>2, ContinueTypes
<1>4. UNCHANGED <<now, status, stored, faults>>
  BY <1>1 DEF Arrive, Limit, dbVars
<1>5. closed' \subseteq closed \cup {r} /\ r \notin closed
  <2>1. r \notin closed
    BY <1>0 DEF ClosedInv, ClosedOrder
  <2> QED
    BY <1>1, <2>1
<1>6. TypeOK'
  <2>1. \A q \in Requests : stage'[q] = "update" => message'[q].id \in Markets
    BY <1>0, <1>2, <1>3 DEF TypeOK
  <2>2. closed' \subseteq Requests
    BY <1>0, <1>5 DEF TypeOK
  <2> QED
    BY <1>0, <1>3, <1>4, <2>1, <2>2 DEF TypeOK, LimiterInv
<1>7. r \notin stored /\ \A q \in stored' : stage'[q] \in Answers
  <2>1. \A q \in stored : q \in Requests /\ q # r /\ stage[q] \in Answers
    BY <1>0, StageFacts DEF ClosedInv, TypeOK
  <2> QED
    BY <1>3, <1>4, <2>1
<1>8. ASSUME NEW q \in closed' PROVE ClosedOrder(q)'
  <2>1. CASE q # r
    <3>1. q \in Requests /\ ClosedOrder(q)
      BY <1>0, <1>5, <1>8, <2>1 DEF ClosedInv, TypeOK
    <3> QED
      BY <1>3, <1>4, <2>1, <3>1 DEF ClosedOrder, Open, Row
  <2>2. CASE q = r
    <3>1. msg.kind = "order" /\ ~ Open(msg.id)
      BY <1>1, <1>5, <1>8, <2>2
    <3>2. s \in AtWork => s = "received" /\ s \notin Answers
      BY <1>2 DEF AtWork, Answers
    <3> QED
      BY <1>2, <1>3, <1>4, <1>7, <2>2, <3>1, <3>2 DEF ClosedOrder, Open, Row
  <2> QED
    BY <2>1, <2>2
<1>9. \A q \in Requests : PatchAtUpdate(q)'
  BY <1>2, <1>3 DEF ClosedInv, PatchAtUpdate
<1> QED
  BY <1>6, <1>7, <1>8, <1>9 DEF ClosedInv

\* The row that an order of a closed market reads fails the check.
LEMMA FindMarketKeepsClosed ==
    ASSUME ClosedInv, LimiterInv', NEW r \in Requests, FindMarket(r)
    PROVE  ClosedInv'
<1>0. /\ TypeOK /\ stage[r] = "findMarket"
      /\ UNCHANGED <<now, status, stored, closed, faults>>
  BY DEF ClosedInv, FindMarket, limiterVars, dbVars
<1>1. Row(message[r].id) \in {NotFound} \cup [status: Statuses, endTime: Nat]
  BY <1>0, ApiAssumption DEF Row, TypeOK
<1>2. message[r] \in Messages \cup {NoMessage} /\ "checkMarket" \in Stages \ Answers
  BY <1>0 DEF TypeOK, Stages, Answers
<1>3. /\ message' \in [Requests -> Messages \cup {NoMessage}]
      /\ stage' \in [Requests -> Stages]
      /\ found' \in [Requests -> {NotFound} \cup [status: Statuses, endTime: Nat]]
      /\ stage'[r] = "checkMarket"
      /\ message'[r] = message[r] /\ found'[r] = Row(message[r].id)
      /\ \A q \in Requests \ {r} :
            stage'[q] = stage[q] /\ message'[q] = message[q] /\ found'[q] = found[q]
  <2>1. Continue(r, "checkMarket", message[r], Row(message[r].id))
    BY DEF FindMarket
  <2> QED
    BY <1>0, <1>1, <1>2, <2>1, ContinueTypes
<1>4. TypeOK'
  <2>1. \A q \in Requests : stage'[q] = "update" => message'[q].id \in Markets
    BY <1>0, <1>3 DEF TypeOK
  <2> QED
    BY <1>0, <1>3, <2>1 DEF TypeOK, LimiterInv
<1>5. \A q \in stored' : stage'[q] \in Answers
  <2>1. \A q \in stored : q \in Requests /\ q # r /\ stage[q] \in Answers
    BY <1>0 DEF ClosedInv, TypeOK, Answers
  <2> QED
    BY <1>0, <1>3, <2>1
<1>6. ASSUME NEW q \in closed' PROVE ClosedOrder(q)'
  <2>1. q \in Requests /\ ClosedOrder(q)
    BY <1>0, <1>6 DEF ClosedInv, TypeOK
  <2>2. CASE q # r
    BY <1>0, <1>3, <2>1, <2>2 DEF ClosedOrder, Open, Row
  <2>3. CASE q = r
    <3>1. message[r].kind = "order" /\ ~ Open(message[r].id) /\ r \notin stored
      BY <1>0, <2>1, <2>3 DEF ClosedOrder, AtWork
    <3>2. Row(message[r].id)' = Row(message[r].id)
      BY <1>0, <1>3 DEF Row
    <3> QED
      BY <1>0, <1>3, <2>3, <3>1, <3>2 DEF ClosedOrder, Open
  <2> QED
    BY <2>2, <2>3
<1>7. \A q \in Requests : PatchAtUpdate(q)'
  BY <1>3 DEF ClosedInv, PatchAtUpdate
<1> QED
  BY <1>4, <1>5, <1>6, <1>7 DEF ClosedInv

\* An admin that opens a market unmarks its orders; any other change leaves a
\* closed market closed.
LEMMA UpdateKeepsClosed ==
    ASSUME ClosedInv, LimiterInv', NEW r \in Requests, UpdateMarket(r)
    PROVE  ClosedInv'
<1> DEFINE m == message[r].id
<1>0. /\ TypeOK /\ stage[r] = "update" /\ m \in Markets
      /\ UNCHANGED <<now, stored>>
      /\ status' = [status EXCEPT ![m] = message[r].status]
      /\ closed' = IF status'[m] = "ACTIVE" /\ EndTime[m] > now
                   THEN {q \in closed : message[q] = NoMessage \/ message[q].id # m} ELSE closed
  BY DEF ClosedInv, TypeOK, UpdateMarket, limiterVars
<1>1. PICK s \in {"200", "500"} : Goto(r, s)
  BY DEF UpdateMarket, Acknowledged
<1>2. s \in Stages /\ s \in Answers
  BY DEF Stages, Answers
<1>3. /\ message' \in [Requests -> Messages \cup {NoMessage}]
      /\ stage' \in [Requests -> Stages]
      /\ found' \in [Requests -> {NotFound} \cup [status: Statuses, endTime: Nat]]
      /\ stage'[r] = s
      /\ \A q \in Requests \ {r} :
            stage'[q] = stage[q] /\ message'[q] = message[q] /\ found'[q] = found[q]
  BY <1>0, <1>1, <1>2, GotoTypes
<1>4. faults' \in 0..MaxFaults
  BY <1>0, ApiAssumption DEF UpdateMarket, Acknowledged, Fault, TypeOK
<1>5. TypeOK'
  <2>1. \A q \in Requests : stage'[q] = "update" => message'[q].id \in Markets
    BY <1>0, <1>3 DEF TypeOK
  <2>2. message[r].status \in Statuses
    <3>1. message[r] \in Messages \cup {NoMessage}
      BY <1>0 DEF TypeOK
    <3>2. PatchAtUpdate(r)
      BY <1>0 DEF ClosedInv
    <3> QED
      BY <1>0, <3>1, <3>2, MessageTypes DEF PatchAtUpdate, Patches
  <2>3. status' \in [Markets -> Statuses] /\ closed' \subseteq Requests
    BY <1>0, <2>2 DEF TypeOK
  <2> QED
    BY <1>0, <1>3, <1>4, <2>1, <2>3 DEF TypeOK, LimiterInv
<1>6. \A q \in stored' : stage'[q] \in Answers
  <2>1. \A q \in stored : q \in Requests /\ stage[q] \in Answers
    BY <1>0 DEF ClosedInv, TypeOK
  <2> QED
    BY <1>0, <1>2, <1>3, <2>1
<1>7. ASSUME NEW q \in closed' PROVE ClosedOrder(q)'
  <2>1. q \in closed /\ q \in Requests /\ ClosedOrder(q)
    BY <1>0, <1>7 DEF ClosedInv, TypeOK
  <2>2. q # r
    <3>1. message[q].kind = "order" \/ q # r
      BY <1>0, <2>1 DEF ClosedOrder, AtWork
    <3>2. message[r].kind = "patch"
      BY <1>0 DEF ClosedInv, PatchAtUpdate
    <3> QED
      BY <3>1, <3>2
  <2>3. stage'[q] = stage[q] /\ message'[q] = message[q] /\ found'[q] = found[q]
    BY <1>3, <2>1, <2>2
  <2>4. stage[q] \in AtWork => ~ Open(message[q].id)'
    <3> SUFFICES ASSUME stage[q] \in AtWork PROVE ~ Open(message[q].id)'
      OBVIOUS
    <3>1. message[q].kind = "order" /\ ~ Open(message[q].id)
      BY <2>1 DEF ClosedOrder
    <3>2. message[q] # NoMessage
      BY <3>1 DEF NoMessage
    <3>3. CASE message[q].id # m
      BY <1>0, <2>3, <3>1, <3>3 DEF Open, Row, TypeOK
    <3>4. CASE message[q].id = m
      <4>1. ~ (status'[m] = "ACTIVE" /\ EndTime[m] > now)
        BY <1>0, <1>7, <3>2, <3>4
      <4> QED
        BY <1>0, <2>3, <3>4, <4>1 DEF Open, Row
    <3> QED
      BY <3>3, <3>4
  <2> QED
    BY <1>0, <2>1, <2>3, <2>4 DEF ClosedOrder
<1>8. \A q \in Requests : PatchAtUpdate(q)'
  BY <1>1, <1>3 DEF ClosedInv, PatchAtUpdate
<1> QED
  BY <1>5, <1>6, <1>7, <1>8 DEF ClosedInv

\* The other steps of a handler change nothing another request depends on.
LEMMA StepKeepsClosed ==
    ASSUME ClosedInv, LimiterInv', NEW r \in Requests, Step(r) \/ DbFails(r)
    PROVE  ClosedInv'
<1>0. /\ TypeOK /\ faults \in 0..MaxFaults
      /\ (r \in closed => ClosedOrder(r))
      /\ (stage[r] \in AtWork => r \notin stored)
  BY StageFacts DEF ClosedInv, TypeOK
<1>1. CASE Read(r)
  <2>1. "200" \in Stages
    BY DEF Stages, Answers
  <2> QED
    BY <1>0, <1>1, <2>1, HandlerStep DEF Read, AtWork, limiterVars, dbVars
<1>2. CASE PostOrder(r)
  <2> DEFINE s == IF ~ CreateOrderSchema(message[r]) THEN "400"
                  ELSE IF ~ verifyStellarSignature(message[r]) THEN "401"
                  ELSE IF ~ validateOrderFields(message[r]) THEN "400" ELSE "findMarket"
  <2>1. s \in {"400", "401", "findMarket"}
    OBVIOUS
  <2>2. s \in Stages
    BY <2>1 DEF Stages, Answers
  <2>3. Goto(r, s)
    BY <1>2 DEF PostOrder
  <2> HIDE DEF s
  <2>4. stage[r] \in AtWork /\ UNCHANGED <<now, status, closed, stored, faults>>
    BY <1>2 DEF PostOrder, AtWork, limiterVars, dbVars
  <2> QED
    BY <1>0, <2>1, <2>2, <2>3, <2>4, HandlerStep
<1>3. CASE FindMarket(r)
  BY <1>3, FindMarketKeepsClosed
<1>4. CASE CheckMarket(r)
  <2> DEFINE s == IF validateMarketState(found[r]) THEN "create" ELSE "400"
  <2>1. s \in {"create", "400"}
    OBVIOUS
  <2>2. s \in Stages
    BY <2>1 DEF Stages, Answers
  <2>3. Goto(r, s)
    BY <1>4 DEF CheckMarket
  <2>4. stage[r] = "checkMarket" /\ stage[r] \in AtWork /\ UNCHANGED <<now, status, closed, stored, faults>>
    BY <1>4 DEF CheckMarket, AtWork, limiterVars, dbVars
  <2>5. r \in closed => s = "400"
    BY <1>0, <2>4 DEF ClosedOrder, validateMarketState
  <2> HIDE DEF s
  <2> QED
    BY <1>0, <2>1, <2>2, <2>3, <2>4, <2>5, HandlerStep
<1>5. CASE CreateOrder(r)
  <2>1. PICK s \in {"201", "500"} : Goto(r, s)
    BY <1>5 DEF CreateOrder, Acknowledged
  <2>2. s \in Stages /\ s \in Answers
    BY DEF Stages, Answers
  <2>3. /\ stage[r] = "create" /\ stage[r] \in AtWork
        /\ UNCHANGED <<now, status, closed>> /\ stored' = stored \cup {r}
    BY <1>5 DEF CreateOrder, AtWork, limiterVars
  <2>4. faults' \in 0..MaxFaults
    BY <1>0, <1>5, ApiAssumption DEF CreateOrder, Acknowledged, Fault
  <2>5. r \notin closed
    BY <1>0, <2>3 DEF ClosedOrder
  <2>6. s # "update"
    OBVIOUS
  <2> QED
    BY <2>1, <2>2, <2>3, <2>4, <2>5, <2>6, HandlerStep
<1>6. CASE PatchMarket(r)
  <2> DEFINE s == IF existing(message[r]) THEN "update" ELSE "404"
  <2>1. s \in {"update", "404"}
    OBVIOUS
  <2>2. s \in Stages
    BY <2>1 DEF Stages, Answers
  <2>3. Goto(r, s)
    BY <1>6 DEF PatchMarket
  <2>4. stage[r] \in AtWork /\ message[r].kind = "patch" /\ UNCHANGED <<now, status, closed, stored, faults>>
    BY <1>6 DEF PatchMarket, AtWork, limiterVars, dbVars
  <2>5. s = "update" => message[r].id \in Markets
    BY DEF existing
  <2> HIDE DEF s
  <2> QED
    BY <1>0, <2>1, <2>2, <2>3, <2>4, <2>5, HandlerStep
<1>7. CASE UpdateMarket(r)
  BY <1>7, UpdateKeepsClosed
<1>8. CASE DbFails(r)
  <2>1. "500" \in Stages
    BY DEF Stages, Answers
  <2>2. /\ stage[r] \in AtWork /\ Goto(r, "500")
        /\ UNCHANGED <<now, status, closed, stored>>
    BY <1>8 DEF DbFails, AtWork, limiterVars, dbVars
  <2>3. faults' \in 0..MaxFaults
    BY <1>0, <1>8, ApiAssumption DEF DbFails, Fault
  <2> QED
    BY <1>0, <2>1, <2>2, <2>3, HandlerStep
<1> QED
  BY <1>1, <1>2, <1>3, <1>4, <1>5, <1>6, <1>7, <1>8 DEF Step

\* Every step of the API keeps the invariant.
LEMMA ClosedInvStep == ClosedInv /\ [Next]_vars => ClosedInv'
<1> SUFFICES ASSUME ClosedInv, [Next]_vars PROVE ClosedInv'
  OBVIOUS
<1>0. LimiterInv'
  BY ApiStepIsLimiterStep, LimiterInvStep DEF ClosedInv
<1>1. CASE Tick
  BY <1>0, <1>1, TickKeepsClosed
<1>2. ASSUME NEW r \in Requests, Arrive(r) PROVE ClosedInv'
  BY <1>0, <1>2, ArriveKeepsClosed
<1>3. ASSUME NEW r \in Requests, Step(r) \/ DbFails(r) PROVE ClosedInv'
  BY <1>0, <1>3, StepKeepsClosed
<1>4. CASE AllAnswered \/ UNCHANGED vars
  <2>1. UNCHANGED vars
    BY <1>4 DEF AllAnswered
  <2> QED
    BY <1>0, <2>1 DEF vars, limiterVars, requestVars, dbVars, ClosedInv, TypeOK, LimiterTypeOK,
          PatchAtUpdate, ClosedOrder, Open, Row
<1> QED
  BY <1>1, <1>2, <1>3, <1>4 DEF Next

\* The variables of the API keep their types, for any clients and messages.
THEOREM ApiTypes == Spec => []TypeOK
<1>1. ClosedInv => TypeOK
  BY DEF ClosedInv
<1> QED
  BY <1>1, ClosedInvInit, ClosedInvStep, PTL DEF Spec

\* However requests, admin changes and the clock interleave, an order is only
\* stored when its market was open at some moment since the request arrived.
THEOREM OrdersAreAcceptedWhileOpen == Spec => []AcceptedWhileOpen
<1>1. ClosedInv => AcceptedWhileOpen
  BY DEF ClosedInv, ClosedOrder, AcceptedWhileOpen
<1> QED
  BY <1>1, ClosedInvInit, ClosedInvStep, PTL DEF Spec
=============================================================================
