--------------------------- MODULE SubmissionQueue ---------------------------
(***************************************************************************)
(* The queue between the oracle and the chain: RedisSubmissionQueue        *)
(* (apps/workers/src/oracle/redis-submission-queue.ts), its enqueue() with *)
(* a deduplication key per result and an in-flight lock per market, and    *)
(* SubmissionWorker (submission-worker.ts), which takes entries from the   *)
(* consumer group, submits them and acknowledges them.  Every action is    *)
(* one call to Redis, Postgres or the chain.                               *)
(*                                                                         *)
(* At this commit the oracle calls enqueue() and no entry point starts a   *)
(* SubmissionWorker; it is modelled as its class and its tests use it.  A  *)
(* worker constructed without a Stellar configuration does not go to the   *)
(* chain and handles its entries all the same.                             *)
(* Entries are numbered in stream order.  An entry's attempts are stored   *)
(* in the entry and never rewritten: each delivery is a first attempt.     *)
(***************************************************************************)
EXTENDS Integers, Sequences, FiniteSets

CONSTANTS
    Markets,
    Results,     \* provider results: outcome, confidence and timestamp
    Polls,       \* poll cycles of the oracle that may overlap
    Consumers,   \* submission workers
    MaxRetries,  \* bound on submissionMaxRetries
    SetWorks,    \* which redis clients: does set(key, value, "EX", ttl) work
    MaxFaults    \* bound on crashes, failed calls and expired keys

ASSUME QueueAssumption ==
    /\ MaxRetries \in Nat \ {0} /\ MaxFaults \in Nat
    /\ SetWorks \subseteq BOOLEAN
    /\ IsFiniteSet(Polls)

VARIABLES
    stream,     \* the entries added so far
    group,      \* last-delivered-id of the consumer group, -1 without a group
    acked,      \* entries acknowledged
    dedup,      \* oracle:dedup keys
    lock,       \* oracle:inflight keys
    epc,        \* per poll: where its enqueue() is
    item,       \* per poll: the entry it enqueues
    cpc,        \* per consumer: where processSubmission is
    entry,      \* per consumer: number of the entry it works on
    onChain,    \* entries whose resolve_market was confirmed
    offChain,   \* entries whose resolve_market a worker skipped
    reports,    \* per market: statuses of its oracle_reports rows
    candidate,  \* per market: entry in resolution_candidates, 0 for none
    rejected,   \* markets whose candidate is REJECTED
    dead,       \* entries handed to logDeadLetter
    maxRetries, \* submissionMaxRetries of the workers
    configured, \* workers with a Stellar configuration
    setWorks,   \* redisClient.set takes the arguments of SET ... EX ttl
    faults      \* faults so far

streamVars == <<stream, group, acked>>
keyVars == <<dedup, lock, setWorks>>
enqueueVars == <<epc, item>>
workerConfig == <<maxRetries, configured>>
workerVars == <<cpc, entry, workerConfig>>
chainVars == <<onChain, offChain>>
resultVars == <<chainVars, reports, candidate, rejected, dead>>
queueVars == <<streamVars, keyVars, enqueueVars, workerVars, resultVars, faults>>

Item == [market: Markets, result: Results]

QueueInit ==
    /\ stream = <<>>
    /\ group = -1
    /\ acked = {}
    /\ dedup = {}
    /\ lock = {}
    /\ setWorks \in SetWorks
    /\ epc = [p \in Polls |-> "idle"]
    /\ item \in {[p \in Polls |-> x] : x \in Item}
    /\ cpc = [c \in Consumers |-> "idle"]
    /\ entry = [c \in Consumers |-> 0]
    /\ maxRetries \in 1..MaxRetries
    /\ configured \in SUBSET Consumers
    /\ onChain = {}
    /\ offChain = {}
    /\ reports = [m \in Markets |-> {}]
    /\ candidate = [m \in Markets |-> 0]
    /\ rejected = {}
    /\ dead = {}
    /\ faults = 0

Fault == faults < MaxFaults /\ faults' = faults + 1

-----------------------------------------------------------------------------
(* The producer: initialize() and enqueue() *)

\* XGROUP CREATE at "$"; BUSYGROUP is not an error.
Initialize == group' = IF group = -1 THEN Len(stream) ELSE group

AtEnqueue(p, l) == epc' = [epc EXCEPT ![p] = l]

\* isAlreadyQueued.
CheckDedup(p) ==
    /\ epc[p] = "dedup"
    /\ AtEnqueue(p, IF item[p] \in dedup THEN "idle" ELSE "lock")
    /\ UNCHANGED <<streamVars, keyVars, item, workerVars, resultVars, faults>>


\* Mutant: no market-level check.
NoMarketCheck(p) ==
    /\ epc[p] = "lock"
    /\ AtEnqueue(p, "add")
    /\ UNCHANGED <<streamVars, keyVars, item, workerVars, resultVars, faults>>

\* hasInFlightSubmission.
CheckLock(p) ==
    /\ epc[p] = "lock"
    /\ AtEnqueue(p, IF item[p].market \in lock THEN "idle" ELSE "add")
    /\ UNCHANGED <<streamVars, keyVars, item, workerVars, resultVars, faults>>

\* XADD.
Add(p) ==
    /\ epc[p] = "add"
    /\ stream' = Append(stream, item[p])
    /\ AtEnqueue(p, "mark")
    /\ UNCHANGED <<group, acked, keyVars, item, workerVars, resultVars, faults>>

\* markAsQueued.  RedisService.set, the client of apps/oracle/main.ts, takes
\* "EX" for the ttl, and Redis refuses the command: enqueue() throws.
MarkQueued(p) ==
    /\ epc[p] = "mark"
    /\ IF setWorks
       THEN dedup' = dedup \cup {item[p]} /\ AtEnqueue(p, "flight")
       ELSE UNCHANGED dedup /\ AtEnqueue(p, "idle")
    /\ UNCHANGED <<streamVars, lock, setWorks, item, workerVars, resultVars, faults>>

\* markMarketInFlight.
MarkInFlight(p) ==
    /\ epc[p] = "flight"
    /\ lock' = lock \cup {item[p].market}
    /\ AtEnqueue(p, "idle")
    /\ UNCHANGED <<streamVars, dedup, setWorks, item, workerVars, resultVars, faults>>

\* A call of enqueue() rejects, and so does enqueue(); a write may have taken
\* effect all the same.
EnqueueFails(p) ==
    /\ epc[p] # "idle" /\ Fault
    /\ AtEnqueue(p, "idle")
    /\ stream' \in {stream, IF epc[p] = "add" THEN Append(stream, item[p]) ELSE stream}
    /\ dedup' \in {dedup, IF epc[p] = "mark" /\ setWorks
                          THEN dedup \cup {item[p]} ELSE dedup}
    /\ lock' \in {lock, IF epc[p] = "flight" THEN lock \cup {item[p].market} ELSE lock}
    /\ UNCHANGED <<group, acked, setWorks, item, workerVars, resultVars>>

\* A key reaches its time to live.
ExpireKey ==
    /\ Fault
    /\ \/ \E x \in dedup : dedup' = dedup \ {x} /\ UNCHANGED lock
       \/ \E m \in lock : lock' = lock \ {m} /\ UNCHANGED dedup
    /\ UNCHANGED <<streamVars, setWorks, enqueueVars, workerVars, resultVars>>

-----------------------------------------------------------------------------
(* The consumer: dequeue() and processSubmission() *)

Goto(c, l) == cpc' = [cpc EXCEPT ![c] = l]
\* The call is over and its locals are gone.
Leave(c) == Goto(c, "idle") /\ entry' = [entry EXCEPT ![c] = 0]
MarketOf(c) == stream[entry[c]].market

\* XREADGROUP with ">": the next entry nobody has been given.
Dequeue(c) ==
    /\ cpc[c] = "idle"
    /\ group # -1 /\ group < Len(stream)
    /\ group' = group + 1
    /\ entry' = [entry EXCEPT ![c] = group + 1]
    /\ Goto(c, "verify")
    /\ UNCHANGED <<stream, acked, keyVars, enqueueVars, workerConfig, resultVars, faults>>

\* createSignedReport and verifyResolutionReport.  The report is verified
\* against the time of processing, not the time that was signed: it verifies
\* only when the two are the same millisecond.
Verify(c) ==
    /\ cpc[c] = "verify"
    /\ \E ok \in BOOLEAN : Goto(c, IF ok THEN "chain" ELSE "fail")
    /\ UNCHANGED <<streamVars, keyVars, enqueueVars, entry, workerConfig, resultVars, faults>>


\* Mutant: the database is updated whatever the chain says.
SubmitUnconfirmed(c) ==
    /\ cpc[c] = "chain"
    /\ onChain' \in {onChain, onChain \cup {entry[c]}}
    /\ Goto(c, "report")
    /\ UNCHANGED <<streamVars, keyVars, enqueueVars, entry, workerConfig, offChain, reports,
                   candidate, rejected, dead, faults>>

\* submitOnChain of a worker with a Stellar configuration: confirmed, or
\* refused, failed or unknown after 30 polls, when a lost answer may hide a
\* success.
ResolveMarket(c) ==
    /\ c \in configured
    /\ \/ onChain' = onChain \cup {entry[c]} /\ Goto(c, "report")
       \/ onChain' \in {onChain, onChain \cup {entry[c]}} /\ Goto(c, "fail")
    /\ UNCHANGED offChain

\* Without one it warns and returns no hash.
SkipChain(c) ==
    /\ c \notin configured
    /\ offChain' = offChain \cup {entry[c]}
    /\ Goto(c, "report")
    /\ UNCHANGED onChain

\* submitOnChain.  A report without signature or public key, or an empty
\* address, is refused before the configuration is looked at.
Submit(c) ==
    /\ cpc[c] = "chain"
    /\ \/ ResolveMarket(c)
       \/ SkipChain(c)
       \/ Goto(c, "fail") /\ UNCHANGED chainVars
    /\ UNCHANGED <<streamVars, keyVars, enqueueVars, entry, workerConfig, reports, candidate,
                   rejected, dead, faults>>

\* updateOnSuccess: a new report row, then the upsert of the candidate.
SaveReport(c) ==
    /\ cpc[c] = "report"
    /\ reports' = [reports EXCEPT ![MarketOf(c)] = @ \cup {"CONFIRMED"}]
    /\ Goto(c, "candidate")
    /\ UNCHANGED <<streamVars, keyVars, enqueueVars, entry, workerConfig, chainVars, candidate,
                   rejected, dead, faults>>

SaveCandidate(c) ==
    /\ cpc[c] = "candidate"
    /\ candidate' = [candidate EXCEPT ![MarketOf(c)] = entry[c]]
    /\ Goto(c, "ack")
    /\ UNCHANGED <<streamVars, keyVars, enqueueVars, entry, workerConfig, chainVars, reports,
                   rejected, dead, faults>>

\* acknowledge: XACK, then DEL of the lock.
Ack(c) ==
    /\ cpc[c] \in {"ack", "ackDead"}
    /\ acked' = acked \cup {entry[c]}
    /\ Goto(c, IF cpc[c] = "ack" THEN "unlock" ELSE "unlockDead")
    /\ UNCHANGED <<stream, group, keyVars, enqueueVars, entry, workerConfig, resultVars, faults>>

Unlock(c) ==
    /\ cpc[c] \in {"unlock", "unlockDead"}
    /\ lock' = lock \ {MarketOf(c)}
    /\ Leave(c)
    /\ UNCHANGED <<streamVars, dedup, setWorks, enqueueVars, workerConfig, resultVars, faults>>

\* Every report of the market is set to SUBMITTED.
updateAttempt(m) ==
    reports' = [reports EXCEPT ![m] = IF @ = {} THEN {} ELSE {"SUBMITTED"}]

\* The catch block with attempts left: updateAttempt, then nack, whose XCLAIM
\* leaves the entry with the consumer that has it.  (When one of the two calls
\* rejects, what is left is what WorkerCrash leaves.)
Retry(c) ==
    /\ cpc[c] = "fail" /\ 1 < maxRetries
    /\ updateAttempt(MarketOf(c))
    /\ Leave(c)
    /\ UNCHANGED <<streamVars, keyVars, enqueueVars, workerConfig, chainVars, candidate,
                   rejected, dead, faults>>

\* The failure is logged, and added to a stream unless Redis refuses; it never
\* throws.
logDeadLetter(i) == dead' = dead \cup {i}


\* Mutant: the last attempt is acknowledged without a dead letter.
DropSilently(c) ==
    /\ cpc[c] = "fail" /\ 1 >= maxRetries
    /\ Goto(c, "ackDead")
    /\ UNCHANGED <<streamVars, keyVars, enqueueVars, entry, workerConfig, resultVars, faults>>

\* The catch block without attempts left: updateOnFailure, then acknowledge.
DeadLetter(c) ==
    /\ cpc[c] = "fail" /\ 1 >= maxRetries
    /\ logDeadLetter(entry[c])
    /\ reports' = [reports EXCEPT ![MarketOf(c)] = IF @ = {} THEN {} ELSE {"FAILED"}]
    /\ rejected' = rejected \cup {m \in {MarketOf(c)} : candidate[m] # 0}
    /\ Goto(c, "ackDead")
    /\ UNCHANGED <<streamVars, keyVars, enqueueVars, entry, workerConfig, chainVars,
                   candidate, faults>>

\* A call rejects, its write having taken effect or not.  Inside the try block
\* that leads to the catch block; in acknowledge() of the catch block the
\* error leaves processSubmission.
SubmissionFails(c) ==
    /\ Fault
    /\ \/ /\ cpc[c] \in {"report", "candidate", "ack", "unlock"}
          /\ Goto(c, "fail") /\ UNCHANGED entry
       \/ cpc[c] \in {"ackDead", "unlockDead"} /\ Leave(c)
    /\ \/ UNCHANGED <<reports, candidate, acked, lock>>
       \/ /\ cpc[c] = "report"
          /\ reports' = [reports EXCEPT ![MarketOf(c)] = @ \cup {"CONFIRMED"}]
          /\ UNCHANGED <<candidate, acked, lock>>
       \/ /\ cpc[c] = "candidate"
          /\ candidate' = [candidate EXCEPT ![MarketOf(c)] = entry[c]]
          /\ UNCHANGED <<reports, acked, lock>>
       \/ /\ cpc[c] \in {"ack", "ackDead"}
          /\ acked' = acked \cup {entry[c]}
          /\ UNCHANGED <<reports, candidate, lock>>
       \/ /\ cpc[c] \in {"unlock", "unlockDead"}
          /\ lock' = lock \ {MarketOf(c)}
          /\ UNCHANGED <<reports, candidate, acked>>
    /\ UNCHANGED <<stream, group, dedup, setWorks, enqueueVars, workerConfig,
                   chainVars, rejected, dead>>

\* updateOnFailure logs its dead letter and swallows a failing update.
DeadLetterFails(c) ==
    /\ cpc[c] = "fail" /\ 1 >= maxRetries /\ Fault
    /\ logDeadLetter(entry[c])
    /\ reports' \in {reports, [reports EXCEPT ![MarketOf(c)] =
                                  IF @ = {} THEN {} ELSE {"FAILED"}]}
    /\ Goto(c, "ackDead")
    /\ UNCHANGED <<streamVars, keyVars, enqueueVars, entry, workerConfig, chainVars,
                   candidate, rejected>>

\* The worker process dies and is restarted.
WorkerCrash(c) ==
    /\ cpc[c] # "idle" /\ Fault
    /\ Leave(c)
    /\ UNCHANGED <<streamVars, keyVars, enqueueVars, workerConfig, resultVars>>

EnqueueStep(p) ==
    CheckDedup(p) \/ CheckLock(p) \/ Add(p) \/ MarkQueued(p) \/ MarkInFlight(p)

WorkerStep(c) ==
    \/ Dequeue(c) \/ Verify(c) \/ Submit(c) \/ SaveReport(c) \/ SaveCandidate(c)
    \/ Ack(c) \/ Unlock(c) \/ Retry(c) \/ DeadLetter(c)

QueueStep ==
    \/ \E p \in Polls : EnqueueStep(p) \/ EnqueueFails(p)
    \/ \E c \in Consumers : \/ WorkerStep(c) \/ SubmissionFails(c)
                            \/ DeadLetterFails(c) \/ WorkerCrash(c)
    \/ ExpireKey

-----------------------------------------------------------------------------
(* Properties *)

QueueTypeOK ==
    /\ stream \in Seq(Item)
    /\ group \in -1..Len(stream)
    /\ acked \subseteq 1..Len(stream)
    /\ dedup \subseteq Item
    /\ lock \subseteq Markets
    /\ setWorks \in BOOLEAN
    /\ epc \in [Polls -> {"idle", "dedup", "lock", "add", "mark", "flight"}]
    /\ item \in [Polls -> Item]
    /\ cpc \in [Consumers -> {"idle", "verify", "chain", "report", "candidate", "ack",
                              "unlock", "fail", "ackDead", "unlockDead"}]
    /\ entry \in [Consumers -> 0..Len(stream)]
    /\ maxRetries \in 1..MaxRetries
    /\ configured \subseteq Consumers
    /\ onChain \subseteq 1..Len(stream)
    /\ offChain \subseteq 1..Len(stream)
    /\ reports \in [Markets -> SUBSET {"PENDING", "SUBMITTED", "CONFIRMED", "FAILED"}]
    /\ candidate \in [Markets -> 0..Len(stream)]
    /\ rejected \subseteq Markets
    /\ dead \subseteq 1..Len(stream)
    /\ faults \in 0..MaxFaults

InFlight(m) == {i \in 1..Len(stream) : stream[i].market = m /\ i \notin acked}

\* With one poll at a time and keys that can be set, every submission of a
\* market beyond the first that is in the pipeline, enqueued and not yet
\* acknowledged, needs a fault: the lock is set after the entry is visible
\* and removed after it is acknowledged, with the worker in between.
OverlapsNeedFaults ==
    Cardinality(Polls) = 1 /\ setWorks =>
        \A m \in Markets : Cardinality(InFlight(m)) <= 1 + faults

\* What is acknowledged is done: confirmed on the chain, or skipped there by
\* a worker without configuration, and its market has a candidate; or
\* dead-lettered, whichever call failed.
AckedIsHandled ==
    \A i \in acked : \/ i \in dead
                     \/ i \in onChain \cup offChain /\ candidate[stream[i].market] # 0

\* A resolution candidate stands for a submission of its own market that was
\* confirmed on the chain; only one that a worker without configuration
\* skipped there is stored without it.
CandidateIsSubmitted ==
    \A m \in Markets : candidate[m] # 0 =>
        /\ stream[candidate[m]].market = m
        /\ \/ candidate[m] \in onChain
           \/ candidate[m] \in offChain /\ configured # Consumers

-----------------------------------------------------------------------------

\* An entry that was delivered, is not acknowledged and that no worker works
\* on: nacked, or left behind by a crash.
Parked(i) ==
    /\ i <= group /\ i \notin acked
    /\ \A c \in Consumers : cpc[c] # "idle" => entry[c] # i

-----------------------------------------------------------------------------
(* The inductive invariant behind the theorems of OracleProofs *)

\* An entry is given to one worker, and what a worker has done with it shows
\* in the chain, the candidates and the dead letters.
WorkerInv ==
    /\ configured = Consumers => offChain = {}
    /\ acked \subseteq 1..group
    /\ \A c \in Consumers :
          /\ cpc[c] # "idle" => entry[c] \in 1..group
          /\ cpc[c] \in {"report", "candidate", "ack", "unlock"} =>
                entry[c] \in onChain \cup offChain
          /\ cpc[c] \in {"ack", "unlock"} => candidate[MarketOf(c)] # 0
          /\ cpc[c] \in {"ackDead", "unlockDead"} => entry[c] \in dead
          /\ cpc[c] \in {"unlock", "unlockDead"} => entry[c] \in acked
    /\ \A c, d \in Consumers : cpc[c] # "idle" /\ cpc[d] # "idle" /\ c # d => entry[c] # entry[d]

\* Entries of market m that may still lead to the removal of its lock.
Live(m) ==
    {i \in 1..Len(stream) :
        /\ stream[i].market = m
        /\ i \notin acked \/ \E c \in Consumers : cpc[c] # "idle" /\ entry[c] = i}

\* The lock of market m is set, or will be set by the enqueue() that has just
\* added an entry.
Covered(m) ==
    m \in lock \/ \E p \in Polls : epc[p] \in {"mark", "flight"} /\ item[p].market = m

\* A live entry that nothing covers has cost a fault.
OverlapInv ==
    Cardinality(Polls) = 1 /\ setWorks =>
        /\ \A p \in Polls : epc[p] \in {"add", "mark", "flight"} => item[p].market \notin lock
        /\ \A m \in Markets : Cardinality(Live(m)) <= faults + (IF Covered(m) THEN 1 ELSE 0)
=============================================================================
