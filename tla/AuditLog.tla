------------------------------ MODULE AuditLog ------------------------------
(***************************************************************************)
(* The trade history in Redis and Postgres: AuditService                   *)
(* (src/services/audit.ts) writes each trade to the stream of its market   *)
(* and to a global stream, and scripts/backfill-trades.ts copies the       *)
(* global stream into the trades table.                                    *)
(*                                                                         *)
(* All XADDs of the API use one connection: `pipe' is its command queue,   *)
(* which Redis executes in order.  A trade has at most one command in it,  *)
(* because logOrderMatch awaits each reply.                                *)
(***************************************************************************)
EXTENDS Integers, FiniteSets, Sequences

CONSTANTS
    Trades,     \* trade ids, integers
    Markets,    \* market ids
    MarketOf,   \* the market of each trade
    EmptyPrefix,\* REDIS_KEY_PREFIX is empty: the backfill reads the API's stream
    MaxTime,    \* bound on the clocks
    MaxEntries, \* maxLogEntries
    BatchSize,  \* BATCH of the backfill
    MaxFaults   \* bound on failed calls and crashes

ASSUME ConstantsAssumption ==
    /\ Trades \subseteq Int /\ IsFiniteSet(Trades)
    /\ MaxTime \in Nat \ {0} /\ MaxFaults \in Nat
    /\ MaxEntries \in Nat \ {0} /\ BatchSize \in Nat \ {0}
    /\ "global" \notin Markets /\ MarketOf \in [Trades -> Markets] /\ EmptyPrefix \in BOOLEAN

Streams == Markets \cup {"global"}

VARIABLES
    now,        \* Date.now() of the API
    tradedAt,   \* trade.timestamp, 0 before the trade is matched
    pipe,       \* commands sent to Redis and not answered
    logged,     \* what became of logOrderMatch: "no", "running", "done", "failed"
    stream,     \* the Redis streams
    conflicted, \* trades that fell back to ids generated by Redis
    table,      \* rows of the trades table the backfill has seen to
    script,     \* the backfill: "idle", "read", "upsert", "done"
    cursor,     \* its position in the stream
    batch,      \* entries it has read and not written
    more,       \* its last batch was full
    target,     \* trades in the stream when it started
    faults

redisVars == <<pipe, logged, stream, conflicted>>
scriptVars == <<script, cursor, batch, more, target>>
vars == <<now, tradedAt, redisVars, table, scriptVars, faults>>

RangeOf(s) == {s[i] : i \in DOMAIN s}

\* Stream ids: milliseconds and sequence number.
FirstId == <<0, 0>>
IdLess(a, b) == a[1] < b[1] \/ (a[1] = b[1] /\ a[2] < b[2])
Successor(id) == <<id[1], id[2] + 1>>

Init ==
    /\ now = 1
    /\ tradedAt = [t \in Trades |-> 0]
    /\ table = {}
    /\ pipe = <<>>
    /\ logged = [t \in Trades |-> "no"]
    /\ stream = [s \in Streams |-> <<>>]
    /\ conflicted = {}
    /\ script = "idle" /\ cursor = FirstId /\ batch = <<>> /\ more = FALSE /\ target = {}
    /\ faults = 0

Fault == faults < MaxFaults /\ faults' = faults + 1

Tick ==
    /\ now < MaxTime
    /\ now' = now + 1
    /\ UNCHANGED <<tradedAt, redisVars, table, scriptVars, faults>>

-----------------------------------------------------------------------------
(* placeOrder, as far as the audit log is concerned *)

\* The first XADD of logOrderMatch: the market's stream, id `timestamp-0'.
FirstCommand(t) == [trade |-> t, to |-> "market", auto |-> FALSE]

\* matchOrder stamps the trades of a taker with one Date.now() and starts
\* logOrderMatch for each of them in the same callback.
Match ==
    /\ \E s \in {<<t>> : t \in Trades} \cup (Trades \X Trades) :
          /\ \A t \in RangeOf(s) : tradedAt[t] = 0 /\ MarketOf[t] = MarketOf[s[1]]
          /\ \A i, j \in DOMAIN s : i < j => s[i] < s[j]
          /\ tradedAt' = [t \in Trades |-> IF t \in RangeOf(s) THEN now ELSE tradedAt[t]]
          /\ pipe' = pipe \o [i \in DOMAIN s |-> FirstCommand(s[i])]
          /\ logged' = [t \in Trades |-> IF t \in RangeOf(s) THEN "running" ELSE logged[t]]
    /\ UNCHANGED <<now, stream, conflicted, table, scriptVars, faults>>

-----------------------------------------------------------------------------
(* AuditService.logOrderMatch *)

getMarketStream(t) == MarketOf[t]
StreamOf(c) == IF c.to = "global" THEN "global" ELSE getMarketStream(c.trade)
Cap(s) == IF s = "global" THEN 10 * MaxEntries ELSE MaxEntries

LastId(s) == IF stream[s] = <<>> THEN FirstId ELSE stream[s][Len(stream[s])].id

\* XADD with "*": Redis takes its own clock, or the last id when that is not behind.
GeneratedIds(s) ==
    {IF LastId(s)[1] < clock THEN <<clock, 0>> ELSE Successor(LastId(s)) : clock \in 1..MaxTime}

\* XADD refuses an id that is not above the last one.
Refused(c) == ~ c.auto /\ ~ IdLess(LastId(StreamOf(c)), <<tradedAt[c.trade], 0>>)

Ids(c) == IF c.auto THEN GeneratedIds(StreamOf(c)) ELSE {<<tradedAt[c.trade], 0>>}

\* MAXLEN ~: Redis may drop the oldest entries, down to the cap.
Trimmed(s, n) == {SubSeq(s, k + 1, Len(s)) : k \in {0} \cup {j \in 1..Len(s) : Len(s) - j >= n}}

xadd(c) ==
    \E id \in Ids(c) :
        \E s \in Trimmed(Append(stream[StreamOf(c)], [id |-> id, trade |-> c.trade]), Cap(StreamOf(c))) :
            stream' = [stream EXCEPT ![StreamOf(c)] = s]

\* What logOrderMatch sends when command c was executed, or was refused.

\* Mutant: the first attempt falls through to the second.
NoReturn(c) ==
    IF c.to = "market" THEN <<[c EXCEPT !.to = "global"]>>
    ELSE IF c.auto THEN <<>> ELSE <<[c EXCEPT !.to = "market", !.auto = TRUE]>>

\* Mutant: the fallback forgets the global stream.
MarketFallbackOnly(c) == IF c.to = "market" /\ ~ c.auto THEN <<[c EXCEPT !.to = "global"]>> ELSE <<>>

AfterSuccess(c) == IF c.to = "market" THEN <<[c EXCEPT !.to = "global"]>> ELSE <<>>

AfterConflict(c) == <<[trade |-> c.trade, to |-> "market", auto |-> TRUE]>>

\* Redis executes the next command, and its reply moves logOrderMatch on.
XaddOk ==
    /\ pipe # <<>>
    /\ LET c == Head(pipe) IN
          /\ ~ Refused(c)
          /\ xadd(c)
          /\ pipe' = Tail(pipe) \o AfterSuccess(c)
          /\ logged' = IF AfterSuccess(c) = <<>> THEN [logged EXCEPT ![c.trade] = "done"] ELSE logged
    /\ UNCHANGED <<now, tradedAt, conflicted, table, scriptVars, faults>>

\* "equal or smaller": both writes are done again with ids of Redis.
XaddConflict ==
    /\ pipe # <<>>
    /\ LET c == Head(pipe) IN
          /\ Refused(c)
          /\ pipe' = Tail(pipe) \o AfterConflict(c)
          /\ conflicted' = conflicted \cup {c.trade}
    /\ UNCHANGED <<now, tradedAt, logged, stream, table, scriptVars, faults>>

\* Any other error is thrown to the caller; the command may have taken effect.
XaddFails ==
    /\ pipe # <<>> /\ Fault
    /\ LET c == Head(pipe) IN
          /\ UNCHANGED stream \/ (~ Refused(c) /\ xadd(c))
          /\ pipe' = Tail(pipe)
          /\ logged' = [logged EXCEPT ![c.trade] = "failed"]
    /\ UNCHANGED <<now, tradedAt, conflicted, table, scriptVars>>

\* The connection breaks after the command was executed; the client reconnects
\* and sends it again (maxRetriesPerRequest).
XaddResent ==
    /\ pipe # <<>> /\ Fault
    /\ ~ Refused(Head(pipe))
    /\ xadd(Head(pipe))
    /\ UNCHANGED <<now, tradedAt, pipe, logged, conflicted, table, scriptVars>>

-----------------------------------------------------------------------------
(* Queries over the streams *)

getAuditLogRange(m, from, to) == {e.trade : e \in {f \in RangeOf(stream[m]) : from <= f.id[1] /\ f.id[1] <= to}}

-----------------------------------------------------------------------------
(* scripts/backfill-trades.ts *)

\* GLOBAL_STREAM has no key prefix: with one, the script reads another key.
Visible == IF EmptyPrefix THEN stream["global"] ELSE <<>>

BackfillStart ==
    /\ script \in {"idle", "done"}
    /\ script' = "read"
    /\ cursor' = FirstId
    /\ target' = {e.trade : e \in RangeOf(Visible)}
    /\ UNCHANGED <<batch, more, now, tradedAt, redisVars, table, faults>>

\* A stream is ordered by id: its first k entries are the ones below the cursor.
BelowCursor(k) == \A i \in DOMAIN Visible : IdLess(Visible[i].id, cursor) <=> i <= k

\* XRANGE: the entries after those, BatchSize at most.
xrange(k) ==
    SubSeq(Visible, k + 1, IF k + BatchSize < Len(Visible) THEN k + BatchSize ELSE Len(Visible))

BackfillRead ==
    /\ script = "read"
    /\ \E k \in 0..Len(Visible) :
          /\ BelowCursor(k)
          /\ batch' = xrange(k)
          /\ IF xrange(k) = <<>>
             THEN script' = "done" /\ cursor' = FirstId /\ more' = FALSE
             ELSE script' = "upsert" /\ cursor' = cursor /\ more' = (Len(xrange(k)) = BatchSize)
    /\ UNCHANGED <<target, now, tradedAt, redisVars, table, faults>>

\* Mutant: the rest of the millisecond is skipped.
NextMillisecond(id) == <<id[1] + 1, 0>>

\* Mutant: the cursor stays where it is.
NotAdvanced(id) == cursor

AdvanceCursor(id) == Successor(id)

\* upsert on trade_id; after the last one the cursor moves past its entry.
BackfillUpsert ==
    /\ script = "upsert"
    /\ table' = table \cup {Head(batch).trade}
    /\ batch' = Tail(batch)
    /\ IF Tail(batch) = <<>>
       THEN IF more
            THEN script' = "read" /\ cursor' = AdvanceCursor(Head(batch).id)
            ELSE script' = "done" /\ cursor' = FirstId
       ELSE UNCHANGED <<cursor, script>>
    /\ more' = (more /\ Tail(batch) # <<>>)
    /\ UNCHANGED <<target, now, tradedAt, redisVars, faults>>

\* A call fails, or an upsert meets a concurrent insert: the script exits.
BackfillCrash ==
    /\ script \in {"read", "upsert"} /\ Fault
    /\ script' = "idle" /\ batch' = <<>> /\ cursor' = FirstId /\ more' = FALSE /\ target' = {}
    /\ \/ UNCHANGED table
       \/ script = "upsert" /\ table' = table \cup {Head(batch).trade}
    /\ UNCHANGED <<now, tradedAt, redisVars>>

ScriptStep == BackfillRead \/ BackfillUpsert

Next ==
    \/ Tick \/ Match
    \/ XaddOk \/ XaddConflict \/ XaddFails \/ XaddResent
    \/ BackfillStart \/ ScriptStep \/ BackfillCrash

Spec == Init /\ [][Next]_vars

\* Redis and Postgres answer the script.
FairSpec == Spec /\ WF_vars(ScriptStep)

-----------------------------------------------------------------------------
(* Properties *)

Copies(s, t) == Cardinality({i \in DOMAIN stream[s] : stream[s][i].trade = t})

\* A trade whose logOrderMatch resolved is in the stream of its market and in
\* the global stream, in spite of id conflicts on either of them; only trimming
\* of a stream at its cap may have dropped it (audit.ts:73-131).
LoggedInBoth ==
    \A t \in Trades : \A s \in {"global", getMarketStream(t)} :
        logged[t] = "done" => Copies(s, t) > 0 \/ Len(stream[s]) >= Cap(s)

\* A trade is never twice in the global stream, and twice in the stream of its
\* market only when an id was refused after the first entry was written (the
\* fallback repeats both writes); every further copy stands for one failed or
\* repeated call.  Without a conflict the entry carries the time of the trade,
\* so getAuditLogRange finds it at that time (audit.ts:73-131, 277-300).
CopiesNeedConflicts ==
    \A t \in Trades :
        /\ Copies("global", t) <= 1 + faults
        /\ Copies(getMarketStream(t), t) <= faults + IF t \in conflicted THEN 2 ELSE 1
        /\ t \notin conflicted /\ Copies(getMarketStream(t), t) > 0 =>
              t \in getAuditLogRange(getMarketStream(t), tradedAt[t], tradedAt[t])

\* A backfill that ended, after whatever crashes and reruns, has put every
\* trade of the stream it started on into the table, although the stream grows
\* while it is read and generated ids share a millisecond
\* (backfill-trades.ts:23-65).
BackfillComplete ==
    script = "done" /\ EmptyPrefix /\ Len(stream["global"]) < Cap("global") => target \subseteq table

\* A started backfill ends, complete or by an error: each batch moves the
\* cursor past its last entry, and a short batch ends the loop
\* (backfill-trades.ts:59-64).
BackfillEnds == script \in {"read", "upsert"} ~> script \in {"idle", "done"}

-----------------------------------------------------------------------------
(* The inductive invariant behind the theorems of AuditProofs *)

Command == [trade: Trades, to: {"market", "global"}, auto: BOOLEAN]
Entry == [id: Nat \X Nat, trade: Trades]

TypeOK ==
    /\ now \in 1..MaxTime /\ tradedAt \in [Trades -> 0..MaxTime]
    /\ pipe \in Seq(Command)
    /\ logged \in [Trades -> {"no", "running", "done", "failed"}]
    /\ stream \in [Streams -> Seq(Entry)]
    /\ conflicted \subseteq Trades /\ table \subseteq Trades /\ target \subseteq Trades
    /\ script \in {"idle", "read", "upsert", "done"}
    /\ cursor \in Nat \X Nat /\ batch \in Seq(Entry) /\ more \in BOOLEAN
    /\ faults \in 0..MaxFaults

\* The trade is in the stream, or trimming may have dropped it.
Stored(s, t) ==
    \/ \E i \in 1..Len(stream[s]) : stream[s][i].trade = t
    \/ Len(stream[s]) >= Cap(s)

\* The ids of a stream increase, and those of a trade without a conflict are
\* its time.
StreamInv ==
    \A s \in Streams :
        /\ \A i, j \in 1..Len(stream[s]) : i < j => IdLess(stream[s][i].id, stream[s][j].id)
        /\ \A i \in 1..Len(stream[s]) :
              LET e == stream[s][i]
              IN  /\ logged[e.trade] # "no"
                  /\ e.trade \notin conflicted => e.id = <<tradedAt[e.trade], 0>>

\* A running logOrderMatch has one command, whose destination and whose id say
\* what it has written.
CommandInv(c) ==
    /\ logged[c.trade] = "running" /\ (c.auto <=> c.trade \in conflicted)
    /\ c.to = "global" => Stored(getMarketStream(c.trade), c.trade)
    /\ Copies("global", c.trade) <= faults
    /\ Copies(getMarketStream(c.trade), c.trade)
          <= faults + (IF c.auto THEN 1 ELSE 0) + (IF c.to = "global" THEN 1 ELSE 0)

PipeInv ==
    /\ \A i, j \in 1..Len(pipe) : pipe[i].trade = pipe[j].trade => i = j
    /\ \A i \in 1..Len(pipe) : CommandInv(pipe[i])

\* What the call for a trade has done, and how many copies that can make.
LogInvOf(t) ==
    /\ logged[t] = "no" <=> tradedAt[t] = 0
    /\ logged[t] = "no" => t \notin conflicted
    /\ logged[t] = "done" => Stored("global", t) /\ Stored(getMarketStream(t), t)
    /\ Copies("global", t) <= 1 + faults
    /\ Copies(getMarketStream(t), t) <= faults + IF t \in conflicted THEN 2 ELSE 1

LogInv == \A t \in Trades : LogInvOf(t)

\* What the backfill has not written yet is in its batch or ahead of it.
ScriptInv ==
    /\ script = "upsert" <=> batch # <<>>
    /\ EmptyPrefix /\ Len(stream["global"]) < Cap("global") =>
          \A t \in target \ table :
              \/ /\ script = "read"
                 /\ \E j \in 1..Len(Visible) : Visible[j].trade = t /\ ~ IdLess(Visible[j].id, cursor)
              \/ \E i \in 1..Len(batch) : batch[i].trade = t
              \/ /\ batch # <<>> /\ more
                 /\ \E j \in 1..Len(Visible) :
                       Visible[j].trade = t /\ IdLess(batch[Len(batch)].id, Visible[j].id)

IInv == TypeOK /\ StreamInv /\ PipeInv /\ LogInv /\ ScriptInv
=============================================================================
