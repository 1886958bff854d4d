----------------------------- MODULE OraclePoll -----------------------------
(***************************************************************************)
(* The oracle process (apps/oracle): poll() resolves every active market   *)
(* through OracleService, the primary provider with retries and then the   *)
(* chain of fallback providers, stores an oracle report and enqueues the   *)
(* result in SubmissionQueue.  setInterval starts a poll whether or not    *)
(* the last one is over.                                                   *)
(***************************************************************************)
EXTENDS SubmissionQueue

CONSTANTS
    Providers,        \* number of fallback providers
    ServiceRetries,   \* retryConfig.maxRetries of OracleService
    AdapterRetries,   \* retryConfig.maxRetries of PrimaryAdapter
    FallbackRetries,  \* retryConfig.maxRetries of FallbackAdapter
    MaxPolls          \* bound on the polls started

ASSUME PollAssumption ==
    /\ Providers \in Nat \ {0}
    /\ ServiceRetries \in Nat /\ AdapterRetries \in Nat /\ FallbackRetries \in Nat
    /\ MaxPolls \in Nat

VARIABLES
    at,       \* per poll: "idle", "next", "primary", "fallback", "store", "enqueue"
    todo,     \* per poll: markets still to be resolved
    market,   \* per poll: the market being resolved
    tries,    \* per poll: retries of the service, of the adapter in hand
    provider, \* per poll: the fallback provider asked
    metrics,  \* per poll: OracleMetrics of its OracleService
    polls     \* polls started

pollVars == <<at, todo, market, tries, provider, metrics, polls>>
vars == <<queueVars, pollVars>>

Counters == {"total", "primaryOk", "primaryFailed", "fallbackOk", "fallbackFailed"}
NoTries == [service |-> 0, adapter |-> 0]

\* How a request to a provider ends, short of a result.  "invalid" is a
\* response without a valid outcome or confidence.
Errors == {"http400", "http401", "http403", "http404", "http429", "http5xx",
           "network", "invalid"}

\* Decided by the message of the error: "400", "401", "403", "404", "bad
\* request" or "invalid" in it.  The message for an invalid response says
\* "missing a valid outcome", which does not contain "invalid".
isRetryableError(k) == k \notin {"http400", "http401", "http403", "http404"}

Init ==
    /\ QueueInit
    /\ at = [p \in Polls |-> "idle"]
    /\ todo = [p \in Polls |-> {}]
    /\ market \in {[p \in Polls |-> m] : m \in Markets}
    /\ tries = [p \in Polls |-> NoTries]
    /\ provider = [p \in Polls |-> 0]
    /\ metrics = [p \in Polls |-> [k \in Counters |-> 0]]
    /\ polls = 0

Move(p, l) == at' = [at EXCEPT ![p] = l]
Retries(p, service, adapter) ==
    tries' = [tries EXCEPT ![p] = [service |-> service, adapter |-> adapter]]
Count(p, k) == metrics' = [metrics EXCEPT ![p][k] = @ + 1]

-----------------------------------------------------------------------------

\* The timer fires: a new OracleService, initialize(), and the active markets
\* that have an oracle address.  The service is gone when its poll is over.
\* (A poll whose first calls reject ends like one without markets.)
StartPoll(p) ==
    /\ at[p] = "idle" /\ polls < MaxPolls
    /\ polls' = polls + 1
    /\ Initialize
    /\ \E S \in SUBSET Markets : todo' = [todo EXCEPT ![p] = S]
    /\ Move(p, "next")
    /\ UNCHANGED <<stream, acked, keyVars, enqueueVars, workerVars, resultVars, faults,
                   market, tries, provider, metrics>>

\* The for loop: resolve() of the next market, or the end of the poll.
NextMarket(p) ==
    /\ at[p] = "next"
    /\ \/ /\ todo[p] = {}
          /\ Move(p, "idle")
          /\ metrics' = [metrics EXCEPT ![p] = [k \in Counters |-> 0]]
          /\ UNCHANGED <<todo, market>>
       \/ \E m \in todo[p] :
             /\ todo' = [todo EXCEPT ![p] = @ \ {m}]
             /\ market' = [market EXCEPT ![p] = m]
             /\ Count(p, "total")
             /\ Move(p, "primary")
    /\ UNCHANGED <<queueVars, tries, provider, polls>>

\* A provider answers with a result.
GotResult(p) ==
    /\ \E r \in Results :
          item' = [item EXCEPT ![p] = [market |-> market[p], result |-> r]]
    /\ Move(p, "store")
    /\ Retries(p, 0, 0) /\ provider' = [provider EXCEPT ![p] = 0]
    /\ UNCHANGED <<streamVars, keyVars, epc, workerVars, resultVars, faults,
                   todo, market, polls>>

PrimaryAnswers(p) == at[p] = "primary" /\ Count(p, "primaryOk") /\ GotResult(p)

FallbackAnswers(p) == at[p] = "fallback" /\ Count(p, "fallbackOk") /\ GotResult(p)


\* Mutant: one retry too many.
withRetryOnceMore(k, n, max) == isRetryableError(k) /\ n <= max

\* withRetry goes on after its n-th failure.
withRetry(k, n, max) == isRetryableError(k) /\ n < max


\* A request to the primary fails: withRetry of the adapter, inside withRetry
\* of resolve(); then the fallback chain for a retryable error, and for
\* another one the end of this market.
PrimaryFails(p, k) ==
    LET n == tries[p]
    IN  /\ at[p] = "primary"
        /\ IF withRetry(k, n.adapter, AdapterRetries)
           THEN /\ Retries(p, n.service, n.adapter + 1)
                /\ UNCHANGED <<at, provider, metrics>>
           ELSE IF withRetry(k, n.service, ServiceRetries)
           THEN /\ Retries(p, n.service + 1, 0)
                /\ UNCHANGED <<at, provider, metrics>>
           ELSE /\ Count(p, "primaryFailed")
                /\ Retries(p, 0, 0)
                /\ IF isRetryableError(k)
                   THEN Move(p, "fallback") /\ provider' = [provider EXCEPT ![p] = 1]
                   ELSE Move(p, "next") /\ UNCHANGED provider
        /\ UNCHANGED <<queueVars, todo, market, polls>>

\* The provider in hand is given up: the next one, or "All providers failed".
NextProvider(p) ==
    /\ Retries(p, 0, 0)
    /\ IF provider[p] < Providers
       THEN /\ provider' = [provider EXCEPT ![p] = @ + 1]
            /\ UNCHANGED <<at, metrics>>
       ELSE /\ Count(p, "fallbackFailed")
            /\ Move(p, "next")
            /\ provider' = [provider EXCEPT ![p] = 0]

\* A request to a fallback provider fails: retried, or the next provider,
\* whatever the error.
FallbackFails(p, k) ==
    /\ at[p] = "fallback"
    /\ IF withRetry(k, tries[p].adapter, FallbackRetries)
       THEN /\ Retries(p, 0, tries[p].adapter + 1)
            /\ UNCHANGED <<at, provider, metrics>>
       ELSE NextProvider(p)
    /\ UNCHANGED <<queueVars, todo, market, polls>>


\* Mutant: nothing races the request.
NoTimeout(p) == FALSE /\ UNCHANGED vars

\* withTimeout: for the primary each attempt has its own time, for a fallback
\* provider the time is for all attempts together.  What answers later is
\* not heard.
Timeout(p) ==
    \/ PrimaryFails(p, "timeout")
    \/ /\ at[p] = "fallback"
       /\ NextProvider(p)
       /\ UNCHANGED <<queueVars, todo, market, polls>>

\* oracleReport.create, then enqueue().
StoreReport(p) ==
    /\ at[p] = "store"
    /\ reports' = [reports EXCEPT ![market[p]] = @ \cup {"PENDING"}]
    /\ Move(p, "enqueue") /\ AtEnqueue(p, "dedup")
    /\ UNCHANGED <<streamVars, keyVars, item, workerVars, chainVars, candidate,
                   rejected, dead, faults, todo, market, tries, provider, metrics, polls>>

\* The insert rejects: the error is logged, the next market follows.
StoreFails(p) ==
    /\ at[p] = "store" /\ Fault
    /\ reports' \in {reports, [reports EXCEPT ![market[p]] = @ \cup {"PENDING"}]}
    /\ Move(p, "next")
    /\ UNCHANGED <<streamVars, keyVars, enqueueVars, workerVars, chainVars, candidate,
                   rejected, dead, todo, market, tries, provider, metrics, polls>>

\* enqueue() is over, with or without an error: the next market.
Enqueued(p) ==
    /\ at[p] = "enqueue" /\ epc[p] = "idle"
    /\ Move(p, "next")
    /\ UNCHANGED <<queueVars, todo, market, tries, provider, metrics, polls>>

\* The oracle process dies, with its polls, and is restarted.
OracleCrash ==
    /\ \E p \in Polls : at[p] # "idle"
    /\ Fault
    /\ at' = [p \in Polls |-> "idle"]
    /\ epc' = [p \in Polls |-> "idle"]
    /\ todo' = [p \in Polls |-> {}]
    /\ tries' = [p \in Polls |-> NoTries]
    /\ provider' = [p \in Polls |-> 0]
    /\ metrics' = [p \in Polls |-> [k \in Counters |-> 0]]
    /\ UNCHANGED <<streamVars, keyVars, item, workerVars, resultVars, market, polls>>

\* No more polls are modelled and everything is handled or parked.
Quiescent ==
    /\ polls = MaxPolls /\ group >= Len(stream)
    /\ \A p \in Polls : at[p] = "idle"
    /\ \A c \in Consumers : cpc[c] = "idle"
    /\ UNCHANGED vars

\* What the oracle process does by itself: everything but a provider's answer.
PollStep(p) ==
    \/ NextMarket(p) \/ Timeout(p) \/ StoreReport(p) \/ Enqueued(p)
    \/ EnqueueStep(p) /\ UNCHANGED pollVars

Next ==
    \/ \E p \in Polls :
          \/ StartPoll(p) \/ NextMarket(p) \/ Timeout(p)
          \/ PrimaryAnswers(p) \/ FallbackAnswers(p)
          \/ \E k \in Errors : PrimaryFails(p, k) \/ FallbackFails(p, k)
          \/ StoreReport(p) \/ StoreFails(p) \/ Enqueued(p)
    \/ OracleCrash
    \/ QueueStep /\ UNCHANGED pollVars
    \/ Quiescent

Spec == Init /\ [][Next]_vars

\* Timers fire and Redis and Postgres answer; providers need not, and no
\* SubmissionWorker need be running.
FairSpec == Spec /\ \A p \in Polls : WF_vars(PollStep(p))

\* The same where a SubmissionWorker is started and keeps reading the queue.
WorkerFairSpec ==
    FairSpec /\ \A c \in Consumers : WF_vars(WorkerStep(c) /\ UNCHANGED pollVars)

-----------------------------------------------------------------------------
(* Properties *)

TypeOK ==
    /\ QueueTypeOK
    /\ at \in [Polls -> {"idle", "next", "primary", "fallback", "store", "enqueue"}]
    /\ todo \in [Polls -> SUBSET Markets]
    /\ market \in [Polls -> Markets]
    /\ tries \in [Polls -> [service: 0..ServiceRetries, adapter: Nat]]
    /\ \A p \in Polls : tries[p].adapter <= IF at[p] = "fallback" THEN FallbackRetries
                                                                  ELSE AdapterRetries
    /\ provider \in [Polls -> 0..Providers]
    /\ metrics \in [Polls -> [Counters -> Nat]]
    /\ polls \in 0..MaxPolls

\* Every poll ends, though no provider ever answers.
EveryPollEnds == \A p \in Polls : at[p] # "idle" ~> at[p] = "idle"

-----------------------------------------------------------------------------
(* The inductive invariant behind the theorems of OracleProofs *)

\* enqueue() runs only while its poll awaits it.
EnqueueInv == \A p \in Polls : at[p] # "enqueue" => epc[p] = "idle"

IInv ==
    /\ TypeOK /\ EnqueueInv /\ WorkerInv
    /\ AckedIsHandled /\ CandidateIsSubmitted /\ OverlapInv

-----------------------------------------------------------------------------
(* A documented expectation the code does not meet *)

\* redis-submission-queue.ts:302, "makes the message visible again for retry":
\* a parked entry is taken up again.
NackIsRedelivered ==
    \A i \in 1..(MaxPolls * Cardinality(Markets)) : Parked(i) ~> ~ Parked(i)
=============================================================================
