---------------------------- MODULE OracleProofs ----------------------------
(***************************************************************************)
(* Proofs about OraclePoll and its SubmissionQueue: what is acknowledged   *)
(* is handled, a candidate stands for a submission of its market, and      *)
(* submissions of a market overlap only after faults.                      *)
(***************************************************************************)
EXTENDS OraclePoll, FiniteSetTheorems, TLAPS

-----------------------------------------------------------------------------
(* Frames *)

\* The initial states satisfy the invariant.
LEMMA InitInv == Init => IInv
<1> SUFFICES ASSUME Init PROVE IInv
  OBVIOUS
<1>1. QueueTypeOK
  BY QueueAssumption DEF Init, QueueInit, QueueTypeOK, Item
<1>2. TypeOK
  BY <1>1, PollAssumption DEF Init, TypeOK, NoTries
<1>3. EnqueueInv /\ WorkerInv /\ AckedIsHandled /\ CandidateIsSubmitted
  BY DEF Init, QueueInit, EnqueueInv, WorkerInv, AckedIsHandled, CandidateIsSubmitted
<1>4. OverlapInv
  <2>1. \A m \in Markets : Live(m) = {}
    BY DEF Init, QueueInit, Live
  <2>2. \A m \in Markets : Cardinality(Live(m)) <= faults + (IF Covered(m) THEN 1 ELSE 0)
    <3> SUFFICES ASSUME NEW m \in Markets
                 PROVE  Cardinality(Live(m)) <= faults + (IF Covered(m) THEN 1 ELSE 0)
      OBVIOUS
    <3>1. Cardinality(Live(m)) = 0 /\ faults = 0
      BY <2>1, FS_EmptySet DEF Init, QueueInit
    <3> QED  BY <3>1
  <2> QED  BY <2>2 DEF OverlapInv, Init, QueueInit
<1> QED  BY <1>2, <1>3, <1>4 DEF IInv

\* The stream is only appended to: an entry keeps its number.
LEMMA StreamGrows ==
    ASSUME QueueTypeOK, NEW p \in Polls,
           stream' = stream \/ stream' = Append(stream, item[p])
    PROVE  /\ stream' \in Seq(Item) /\ Len(stream) \in Nat
           /\ Len(stream') \in Nat /\ Len(stream') >= Len(stream)
           /\ \A i \in 1..Len(stream) : stream'[i] = stream[i]
<1>1. stream \in Seq(Item) /\ item[p] \in Item
  BY DEF QueueTypeOK
<1>2. CASE stream' = stream
  BY <1>1, <1>2
<1>3. CASE stream' = Append(stream, item[p])
  BY <1>1, <1>3
<1> QED  BY <1>2, <1>3

\* What a step of the poll loop alone, of enqueue() and of a worker leave to
\* the queue's variables.
LEMMA QueueView ==
    ASSUME [Next]_vars
    PROVE  \/ QueueStep
           \/ UNCHANGED queueVars
           \/ \E p \in Polls : StartPoll(p) \/ StoreReport(p) \/ StoreFails(p)
           \/ \E p \in Polls : at[p] \in {"primary", "fallback"} /\ GotResult(p)
           \/ OracleCrash
<1>1. ASSUME NEW p \in Polls, NEW k, PrimaryFails(p, k)
      PROVE  UNCHANGED queueVars
  BY <1>1 DEF PrimaryFails
<1>2. ASSUME NEW p \in Polls, NEW k, FallbackFails(p, k)
      PROVE  UNCHANGED queueVars
  BY <1>2 DEF FallbackFails
<1>3. ASSUME NEW p \in Polls, Timeout(p)
      PROVE  UNCHANGED queueVars
  BY <1>1, <1>3 DEF Timeout
<1>4. ASSUME NEW p \in Polls, NextMarket(p) \/ Enqueued(p)
      PROVE  UNCHANGED queueVars
  BY <1>4 DEF NextMarket, Enqueued
<1>5. ASSUME NEW p \in Polls, PrimaryAnswers(p) \/ FallbackAnswers(p)
      PROVE  at[p] \in {"primary", "fallback"} /\ GotResult(p)
  BY <1>5 DEF PrimaryAnswers, FallbackAnswers
<1>6. ASSUME Quiescent \/ UNCHANGED vars
      PROVE  UNCHANGED queueVars
  BY <1>6 DEF Quiescent, vars
<1> QED  BY <1>1, <1>2, <1>3, <1>4, <1>5, <1>6, Zenon DEF Next

-----------------------------------------------------------------------------
(* Types *)

\* The queue's variables keep their types in a step of enqueue().
LEMMA EnqueueTypes ==
    ASSUME QueueTypeOK, NEW p \in Polls, EnqueueStep(p) \/ EnqueueFails(p)
    PROVE  QueueTypeOK'
<1> USE DEF QueueTypeOK, streamVars, keyVars, enqueueVars, workerVars, workerConfig,
            resultVars, chainVars, AtEnqueue
<1>1. CASE CheckDedup(p)
  BY <1>1 DEF CheckDedup
<1>2. CASE CheckLock(p)
  BY <1>2 DEF CheckLock
<1>3. CASE Add(p)
  <2>1. /\ stream' \in Seq(Item) /\ Len(stream) \in Nat
        /\ Len(stream') \in Nat /\ Len(stream') >= Len(stream)
    BY <1>3, StreamGrows DEF Add
  <2> QED  BY <1>3, <2>1 DEF Add
<1>4. CASE MarkQueued(p)
  <2>1. dedup' \subseteq Item
    BY <1>4 DEF MarkQueued
  <2>2. epc' \in [Polls -> {"idle", "dedup", "lock", "add", "mark", "flight"}]
    BY <1>4 DEF MarkQueued
  <2> QED  BY <1>4, <2>1, <2>2 DEF MarkQueued
<1>5. CASE MarkInFlight(p)
  BY <1>5 DEF MarkInFlight, Item
<1>6. CASE EnqueueFails(p)
  <2>1. /\ stream' \in Seq(Item) /\ Len(stream) \in Nat
        /\ Len(stream') \in Nat /\ Len(stream') >= Len(stream)
    BY <1>6, StreamGrows DEF EnqueueFails
  <2>2. lock' \subseteq Markets /\ dedup' \subseteq Item
    BY <1>6 DEF EnqueueFails, Item
  <2>3. faults' \in 0..MaxFaults
    BY <1>6, QueueAssumption DEF EnqueueFails, Fault
  <2> QED  BY <1>6, <2>1, <2>2, <2>3 DEF EnqueueFails
<1> QED  BY <1>1, <1>2, <1>3, <1>4, <1>5, <1>6 DEF EnqueueStep

\* The entry of a worker at work is in the stream.
LEMMA EntryInStream ==
    ASSUME QueueTypeOK, WorkerInv, NEW c \in Consumers, cpc[c] # "idle"
    PROVE  entry[c] \in 1..Len(stream) /\ MarketOf(c) \in Markets
<1>1. entry[c] \in 1..group /\ group \in -1..Len(stream) /\ Len(stream) \in Nat
  BY DEF QueueTypeOK, WorkerInv
<1>2. entry[c] \in 1..Len(stream)
  BY <1>1
<1>3. stream[entry[c]] \in Item
  BY <1>2 DEF QueueTypeOK
<1> QED  BY <1>2, <1>3 DEF MarketOf, Item

\* They keep them in a step of a worker.
LEMMA WorkerTypes ==
    ASSUME QueueTypeOK, WorkerInv, NEW c \in Consumers,
           WorkerStep(c) \/ SubmissionFails(c) \/ DeadLetterFails(c) \/ WorkerCrash(c)
    PROVE  QueueTypeOK'
<1> USE DEF QueueTypeOK, streamVars, keyVars, enqueueVars, workerVars, workerConfig,
            resultVars, chainVars, Goto, Leave
<1>0. Len(stream) \in Nat
  OBVIOUS
<1>a. cpc[c] # "idle" => entry[c] \in 1..Len(stream) /\ MarketOf(c) \in Markets
  BY EntryInStream
<1>1. CASE Dequeue(c)
  BY <1>1, <1>0 DEF Dequeue
<1>2. CASE Verify(c)
  BY <1>2 DEF Verify
<1>3. CASE Submit(c)
  BY <1>3, <1>a DEF Submit, ResolveMarket, SkipChain
<1>4. CASE SaveReport(c)
  BY <1>4, <1>a DEF SaveReport
<1>5. CASE SaveCandidate(c)
  BY <1>5, <1>a, <1>0 DEF SaveCandidate
<1>6. CASE Ack(c)
  BY <1>6, <1>a DEF Ack
<1>7. CASE Unlock(c)
  BY <1>7, <1>0 DEF Unlock
<1>8. CASE Retry(c)
  BY <1>8, <1>a, <1>0 DEF Retry, updateAttempt
<1>9. CASE DeadLetter(c)
  BY <1>9, <1>a DEF DeadLetter, logDeadLetter
<1>10. CASE SubmissionFails(c)
  <2>1. faults' \in 0..MaxFaults
    BY <1>10, QueueAssumption DEF SubmissionFails, Fault
  <2>2. cpc' \in [Consumers -> {"idle", "verify", "chain", "report", "candidate", "ack",
                                "unlock", "fail", "ackDead", "unlockDead"}]
        /\ entry' \in [Consumers -> 0..Len(stream)]
    <3>1. \/ cpc' = [cpc EXCEPT ![c] = "fail"] /\ entry' = entry
          \/ cpc' = [cpc EXCEPT ![c] = "idle"] /\ entry' = [entry EXCEPT ![c] = 0]
      BY <1>10 DEF SubmissionFails
    <3>2. cpc' \in [Consumers -> {"idle", "verify", "chain", "report", "candidate", "ack",
                                  "unlock", "fail", "ackDead", "unlockDead"}]
      BY <3>1
    <3>3. entry' \in [Consumers -> 0..Len(stream)]
      <4>1. 0 \in 0..Len(stream) /\ entry \in [Consumers -> 0..Len(stream)]
        BY <1>0
      <4> HIDE DEF QueueTypeOK
      <4> QED  BY <3>1, <4>1
    <3> QED  BY <3>2, <3>3
  <2>3. acked' \subseteq 1..Len(stream) /\ lock' \subseteq Markets
    <3>1. cpc[c] # "idle"
      BY <1>10 DEF SubmissionFails
    <3>2. acked' = acked \/ acked' = acked \cup {entry[c]}
      BY <1>10 DEF SubmissionFails
    <3>3. lock' = lock \/ lock' = lock \ {MarketOf(c)}
      BY <1>10 DEF SubmissionFails
    <3> QED  BY <1>a, <3>1, <3>2, <3>3
  <2>4. /\ reports' \in [Markets -> SUBSET {"PENDING", "SUBMITTED", "CONFIRMED", "FAILED"}]
        /\ candidate' \in [Markets -> 0..Len(stream)]
    <3>1. \/ UNCHANGED <<reports, candidate>>
          \/ /\ cpc[c] = "report" /\ candidate' = candidate
             /\ reports' = [reports EXCEPT ![MarketOf(c)] = @ \cup {"CONFIRMED"}]
          \/ /\ cpc[c] = "candidate" /\ reports' = reports
             /\ candidate' = [candidate EXCEPT ![MarketOf(c)] = entry[c]]
      BY <1>10 DEF SubmissionFails
    <3>2. CASE UNCHANGED <<reports, candidate>>
      BY <3>2
    <3>3. CASE /\ cpc[c] = "report" /\ candidate' = candidate
               /\ reports' = [reports EXCEPT ![MarketOf(c)] = @ \cup {"CONFIRMED"}]
      BY <1>a, <3>3
    <3>4. CASE /\ cpc[c] = "candidate" /\ reports' = reports
               /\ candidate' = [candidate EXCEPT ![MarketOf(c)] = entry[c]]
      BY <1>a, <1>0, <3>4
    <3> QED  BY <3>1, <3>2, <3>3, <3>4
  <2> QED  BY <1>10, <2>1, <2>2, <2>3, <2>4 DEF SubmissionFails
<1>11. CASE DeadLetterFails(c)
  <2>1. faults' \in 0..MaxFaults
    BY <1>11, QueueAssumption DEF DeadLetterFails, Fault
  <2>2. reports' \in [Markets -> SUBSET {"PENDING", "SUBMITTED", "CONFIRMED", "FAILED"}]
    <3>1. \/ reports' = reports
          \/ reports' = [reports EXCEPT ![MarketOf(c)] = IF @ = {} THEN {} ELSE {"FAILED"}]
      BY <1>11 DEF DeadLetterFails
    <3>2. MarketOf(c) \in Markets
      BY <1>11, <1>a DEF DeadLetterFails
    <3>3. CASE reports' = reports
      BY <3>3
    <3>4. CASE reports' = [reports EXCEPT ![MarketOf(c)] = IF @ = {} THEN {} ELSE {"FAILED"}]
      BY <3>2, <3>4
    <3> QED  BY <3>1, <3>3, <3>4
  <2> QED  BY <1>11, <1>a, <2>1, <2>2 DEF DeadLetterFails, logDeadLetter
<1>12. CASE WorkerCrash(c)
  <2>1. faults' \in 0..MaxFaults
    BY <1>12, QueueAssumption DEF WorkerCrash, Fault
  <2> QED  BY <1>12, <1>0, <2>1 DEF WorkerCrash
<1> QED  BY <1>1, <1>2, <1>3, <1>4, <1>5, <1>6, <1>7, <1>8, <1>9, <1>10, <1>11, <1>12
         DEF WorkerStep

\* They keep them in every step.
LEMMA QueueTypeStep ==
    ASSUME IInv, [Next]_vars
    PROVE  QueueTypeOK'
<1> USE DEF streamVars, keyVars, enqueueVars, workerVars, workerConfig, resultVars, chainVars
<1>0. QueueTypeOK /\ WorkerInv
  BY DEF IInv, TypeOK
<1>1. CASE QueueStep
  <2>1. CASE ExpireKey
    <3>1. faults' \in 0..MaxFaults
      BY <1>0, <2>1, QueueAssumption DEF ExpireKey, Fault, QueueTypeOK
    <3> QED  BY <1>0, <2>1, <3>1 DEF ExpireKey, QueueTypeOK
  <2> QED  BY <1>0, <1>1, <2>1, EnqueueTypes, WorkerTypes DEF QueueStep
<1>2. CASE UNCHANGED queueVars
  BY <1>0, <1>2 DEF QueueTypeOK, queueVars
<1>3. CASE \E p \in Polls : StartPoll(p) \/ StoreReport(p) \/ StoreFails(p)
  <2>1. PICK p \in Polls : StartPoll(p) \/ StoreReport(p) \/ StoreFails(p)
    BY <1>3
  <2>2. market[p] \in Markets
    BY DEF IInv, TypeOK
  <2>3. CASE StartPoll(p)
    BY <1>0, <2>3 DEF StartPoll, Initialize, QueueTypeOK
  <2>4. CASE StoreReport(p)
    BY <1>0, <2>2, <2>4 DEF StoreReport, AtEnqueue, QueueTypeOK
  <2>5. CASE StoreFails(p)
    <3>1. faults' \in 0..MaxFaults
      BY <1>0, <2>5, QueueAssumption DEF StoreFails, Fault, QueueTypeOK
    <3>2. reports' \in [Markets -> SUBSET {"PENDING", "SUBMITTED", "CONFIRMED", "FAILED"}]
      <4>1. reports \in [Markets -> SUBSET {"PENDING", "SUBMITTED", "CONFIRMED", "FAILED"}]
        BY <1>0 DEF QueueTypeOK
      <4>2. \/ reports' = reports
            \/ reports' = [reports EXCEPT ![market[p]] = @ \cup {"PENDING"}]
        BY <2>5 DEF StoreFails
      <4> QED  BY <2>2, <4>1, <4>2
    <3>3. UNCHANGED <<streamVars, keyVars, enqueueVars, workerVars, chainVars, candidate,
                      rejected, dead>>
      BY <2>5 DEF StoreFails
    <3> QED  BY <1>0, <3>1, <3>2, <3>3 DEF QueueTypeOK
  <2> QED  BY <2>1, <2>3, <2>4, <2>5
<1>4. CASE \E p \in Polls : at[p] \in {"primary", "fallback"} /\ GotResult(p)
  <2>1. PICK p \in Polls : GotResult(p)
    BY <1>4
  <2>2. market[p] \in Markets
    BY DEF IInv, TypeOK
  <2>3. item' \in [Polls -> Item]
    BY <1>0, <2>1, <2>2 DEF GotResult, Item, QueueTypeOK
  <2> QED  BY <1>0, <2>1, <2>3 DEF GotResult, QueueTypeOK
<1>5. CASE OracleCrash
  <2>1. faults' \in 0..MaxFaults
    BY <1>0, <1>5, QueueAssumption DEF OracleCrash, Fault, QueueTypeOK
  <2> QED  BY <1>0, <1>5, <2>1 DEF OracleCrash, QueueTypeOK
<1> QED  BY <1>1, <1>2, <1>3, <1>4, <1>5, QueueView

\* The tries of poll p when it moves on to l with the given counts.
LEMMA TriesType ==
    ASSUME TypeOK, NEW p \in Polls, NEW s \in 0..ServiceRetries, NEW n \in Nat,
           Retries(p, s, n), NEW l, at' = [at EXCEPT ![p] = l] \/ (l = at[p] /\ at' = at),
           n <= IF l = "fallback" THEN FallbackRetries ELSE AdapterRetries
    PROVE  /\ tries' \in [Polls -> [service: 0..ServiceRetries, adapter: Nat]]
           /\ \A q \in Polls : tries'[q].adapter <= IF at'[q] = "fallback" THEN FallbackRetries
                                                                          ELSE AdapterRetries
<1>1. /\ tries \in [Polls -> [service: 0..ServiceRetries, adapter: Nat]]
      /\ tries' = [tries EXCEPT ![p] = [service |-> s, adapter |-> n]]
  BY DEF TypeOK, Retries
<1>2. [service |-> s, adapter |-> n] \in [service: 0..ServiceRetries, adapter: Nat]
  OBVIOUS
<1>3. tries' \in [Polls -> [service: 0..ServiceRetries, adapter: Nat]]
  BY <1>1, <1>2
<1>4. ASSUME NEW q \in Polls
      PROVE  tries'[q].adapter <= IF at'[q] = "fallback" THEN FallbackRetries ELSE AdapterRetries
  <2>1. CASE q = p
    <3>1. tries'[q].adapter = n
      BY <1>1, <2>1
    <3>2. at'[q] = l
      BY <2>1 DEF TypeOK
    <3> QED  BY <3>1, <3>2
  <2>2. CASE q # p
    <3>1. tries'[q] = tries[q] /\ at'[q] = at[q]
      BY <1>1, <2>2 DEF TypeOK
    <3> QED  BY <3>1 DEF TypeOK
  <2> QED  BY <2>1, <2>2
<1> QED  BY <1>3, <1>4

\* The tries of poll p when its counts start again.
LEMMA TriesReset ==
    ASSUME TypeOK, NEW p \in Polls, Retries(p, 0, 0),
           at' = at \/ \E l : at' = [at EXCEPT ![p] = l]
    PROVE  /\ tries' \in [Polls -> [service: 0..ServiceRetries, adapter: Nat]]
           /\ \A q \in Polls : tries'[q].adapter <= IF at'[q] = "fallback" THEN FallbackRetries
                                                                          ELSE AdapterRetries
<1>0. \E l : at' = [at EXCEPT ![p] = l] \/ (l = at[p] /\ at' = at)
  <2>1. CASE at' = at
    <3> WITNESS at[p]
    <3> QED  BY <2>1
  <2>2. CASE \E l : at' = [at EXCEPT ![p] = l]
    <3>1. PICK l : at' = [at EXCEPT ![p] = l]
      BY <2>2
    <3> WITNESS l
    <3> QED  BY <3>1
  <2> QED  BY <2>1, <2>2
<1>1. PICK l : at' = [at EXCEPT ![p] = l] \/ (l = at[p] /\ at' = at)
  BY <1>0
<1>2. 0 \in 0..ServiceRetries /\ 0 \in Nat
  BY PollAssumption
<1>3. 0 <= IF l = "fallback" THEN FallbackRetries ELSE AdapterRetries
  BY PollAssumption
<1> QED  BY <1>1, <1>2, <1>3, TriesType

\* The counters stay natural numbers.
LEMMA CountType ==
    ASSUME TypeOK, NEW p \in Polls, NEW k \in Counters, Count(p, k)
    PROVE  metrics' \in [Polls -> [Counters -> Nat]]
<1>1. metrics \in [Polls -> [Counters -> Nat]] /\ metrics[p] \in [Counters -> Nat]
  BY DEF TypeOK
<1>2. [metrics[p] EXCEPT ![k] = @ + 1] \in [Counters -> Nat]
  BY <1>1
<1>3. metrics' = [metrics EXCEPT ![p] = [metrics[p] EXCEPT ![k] = @ + 1]]
  BY DEF Count
<1> QED  BY <1>1, <1>2, <1>3

\* The poll's variables keep their types when a request to the primary fails.
LEMMA PrimaryFailsTypes ==
    ASSUME TypeOK, NEW p \in Polls, NEW k, PrimaryFails(p, k), QueueTypeOK'
    PROVE  TypeOK'
<1>1. /\ at[p] = "primary"
      /\ tries[p].service \in 0..ServiceRetries /\ tries[p].adapter \in Nat
      /\ tries[p].adapter <= AdapterRetries
  BY DEF PrimaryFails, TypeOK
<1>2. todo' = todo /\ market' = market /\ polls' = polls
  BY DEF PrimaryFails
<1> DEFINE TriesOK ==
      /\ tries' \in [Polls -> [service: 0..ServiceRetries, adapter: Nat]]
      /\ \A q \in Polls : tries'[q].adapter <= IF at'[q] = "fallback" THEN FallbackRetries
                                                                     ELSE AdapterRetries
<1>3. CASE withRetry(k, tries[p].adapter, AdapterRetries)
  <2>1. /\ Retries(p, tries[p].service, tries[p].adapter + 1)
        /\ at' = at /\ provider' = provider /\ metrics' = metrics
    BY <1>3 DEF PrimaryFails
  <2>2. tries[p].adapter + 1 \in Nat /\ tries[p].adapter + 1 <= AdapterRetries
    BY <1>1, <1>3, PollAssumption DEF withRetry
  <2>3. TriesOK
    BY <1>1, <2>1, <2>2, TriesType
  <2> QED  BY <1>2, <2>1, <2>3 DEF TypeOK
<1>4. CASE /\ ~ withRetry(k, tries[p].adapter, AdapterRetries)
           /\ withRetry(k, tries[p].service, ServiceRetries)
  <2>1. /\ Retries(p, tries[p].service + 1, 0)
        /\ at' = at /\ provider' = provider /\ metrics' = metrics
    BY <1>4 DEF PrimaryFails
  <2>2. tries[p].service + 1 \in 0..ServiceRetries /\ 0 \in Nat /\ 0 <= AdapterRetries
    BY <1>1, <1>4, PollAssumption DEF withRetry
  <2>3. TriesOK
    BY <1>1, <2>1, <2>2, TriesType
  <2> QED  BY <1>2, <2>1, <2>3 DEF TypeOK
<1>5. CASE /\ ~ withRetry(k, tries[p].adapter, AdapterRetries)
           /\ ~ withRetry(k, tries[p].service, ServiceRetries)
  <2>1. /\ Count(p, "primaryFailed") /\ Retries(p, 0, 0)
        /\ \/ at' = [at EXCEPT ![p] = "fallback"] /\ provider' = [provider EXCEPT ![p] = 1]
           \/ at' = [at EXCEPT ![p] = "next"] /\ provider' = provider
    BY <1>5 DEF PrimaryFails, Move
  <2>2. metrics' \in [Polls -> [Counters -> Nat]]
    BY <2>1, CountType DEF Counters
  <2>4. TriesOK
    BY <2>1, TriesReset
  <2>5. provider' \in [Polls -> 0..Providers]
    BY <2>1, PollAssumption DEF TypeOK
  <2>6. at' \in [Polls -> {"idle", "next", "primary", "fallback", "store", "enqueue"}]
    BY <2>1 DEF TypeOK
  <2> QED  BY <1>2, <2>2, <2>4, <2>5, <2>6 DEF TypeOK
<1> QED  BY <1>3, <1>4, <1>5

\* They keep them when a provider is given up.
LEMMA NextProviderTypes ==
    ASSUME TypeOK, NEW p \in Polls, at[p] = "fallback", NextProvider(p), QueueTypeOK',
           todo' = todo, market' = market, polls' = polls
    PROVE  TypeOK'
<1> DEFINE TriesOK ==
      /\ tries' \in [Polls -> [service: 0..ServiceRetries, adapter: Nat]]
      /\ \A q \in Polls : tries'[q].adapter <= IF at'[q] = "fallback" THEN FallbackRetries
                                                                     ELSE AdapterRetries
<1>1. /\ Retries(p, 0, 0)
      /\ \/ /\ provider' = [provider EXCEPT ![p] = @ + 1] /\ provider[p] < Providers
            /\ at' = at /\ metrics' = metrics
         \/ /\ Count(p, "fallbackFailed") /\ at' = [at EXCEPT ![p] = "next"]
            /\ provider' = [provider EXCEPT ![p] = 0]
  BY DEF NextProvider, Move
<1>2. metrics' \in [Polls -> [Counters -> Nat]]
  BY <1>1, CountType DEF Counters, TypeOK
<1>4. TriesOK
  BY <1>1, TriesReset
<1>5. provider' \in [Polls -> 0..Providers]
  <2>1. /\ provider \in [Polls -> 0..Providers] /\ 0 \in 0..Providers
        /\ provider[p] < Providers => provider[p] + 1 \in 0..Providers
    BY PollAssumption DEF TypeOK
  <2> QED  BY <1>1, <2>1
<1>6. at' \in [Polls -> {"idle", "next", "primary", "fallback", "store", "enqueue"}]
  BY <1>1 DEF TypeOK
<1> QED  BY <1>2, <1>4, <1>5, <1>6 DEF TypeOK

\* They keep them when a request to a fallback provider fails.
LEMMA FallbackFailsTypes ==
    ASSUME TypeOK, NEW p \in Polls, NEW k, FallbackFails(p, k), QueueTypeOK'
    PROVE  TypeOK'
<1>1. at[p] = "fallback" /\ todo' = todo /\ market' = market /\ polls' = polls
  BY DEF FallbackFails
<1>2. CASE withRetry(k, tries[p].adapter, FallbackRetries)
  <2>1. /\ Retries(p, 0, tries[p].adapter + 1)
        /\ at' = at /\ provider' = provider /\ metrics' = metrics
    BY <1>2 DEF FallbackFails
  <2>2. tries[p].adapter \in Nat
    BY DEF TypeOK
  <2>3. /\ tries[p].adapter + 1 \in Nat /\ tries[p].adapter + 1 <= FallbackRetries
        /\ 0 \in 0..ServiceRetries
    BY <1>2, <2>2, PollAssumption DEF withRetry
  <2>4. /\ tries' \in [Polls -> [service: 0..ServiceRetries, adapter: Nat]]
        /\ \A q \in Polls : tries'[q].adapter <= IF at'[q] = "fallback" THEN FallbackRetries
                                                                       ELSE AdapterRetries
    BY <1>1, <2>1, <2>3, TriesType
  <2> QED  BY <1>1, <2>1, <2>4 DEF TypeOK
<1>3. CASE ~ withRetry(k, tries[p].adapter, FallbackRetries)
  BY <1>1, <1>3, NextProviderTypes DEF FallbackFails
<1> QED  BY <1>2, <1>3

\* They keep them when a provider answers.
LEMMA AnswerTypes ==
    ASSUME TypeOK, NEW p \in Polls, PrimaryAnswers(p) \/ FallbackAnswers(p), QueueTypeOK'
    PROVE  TypeOK'
<1>1. /\ at' = [at EXCEPT ![p] = "store"] /\ Retries(p, 0, 0)
      /\ provider' = [provider EXCEPT ![p] = 0]
      /\ todo' = todo /\ market' = market /\ polls' = polls
      /\ Count(p, "primaryOk") \/ Count(p, "fallbackOk")
  BY DEF PrimaryAnswers, FallbackAnswers, GotResult, Move
<1>2. metrics' \in [Polls -> [Counters -> Nat]]
  BY <1>1, CountType DEF Counters
<1>4. /\ tries' \in [Polls -> [service: 0..ServiceRetries, adapter: Nat]]
      /\ \A q \in Polls : tries'[q].adapter <= IF at'[q] = "fallback" THEN FallbackRetries
                                                                     ELSE AdapterRetries
  BY <1>1, TriesReset
<1>5. provider' \in [Polls -> 0..Providers]
  BY <1>1, PollAssumption DEF TypeOK
<1>6. at' \in [Polls -> {"idle", "next", "primary", "fallback", "store", "enqueue"}]
  BY <1>1 DEF TypeOK
<1> QED  BY <1>1, <1>2, <1>4, <1>5, <1>6 DEF TypeOK

\* A step that moves poll p to l, where no adapter is being retried, and
\* leaves its tries alone, keeps the bound on them.
LEMMA BoundKept ==
    ASSUME TypeOK, NEW p \in Polls, NEW l, l # "fallback", at[p] # "fallback",
           at' = [at EXCEPT ![p] = l], tries' = tries
    PROVE  \A q \in Polls : tries'[q].adapter <= IF at'[q] = "fallback" THEN FallbackRetries
                                                                       ELSE AdapterRetries
BY DEF TypeOK

\* They keep them in every step.
LEMMA TypeStep ==
    ASSUME IInv, [Next]_vars
    PROVE  TypeOK'
<1>0. TypeOK /\ QueueTypeOK'
  BY QueueTypeStep DEF IInv
<1>1. CASE UNCHANGED pollVars
  BY <1>0, <1>1 DEF pollVars, TypeOK
<1>2. ASSUME NEW p \in Polls, StartPoll(p)
      PROVE  TypeOK'
  <2>1. /\ at[p] = "idle" /\ at' = [at EXCEPT ![p] = "next"]
        /\ polls' = polls + 1 /\ polls < MaxPolls
        /\ market' = market /\ tries' = tries /\ provider' = provider /\ metrics' = metrics
    BY <1>2 DEF StartPoll, Move
  <2>2. todo' \in [Polls -> SUBSET Markets]
    BY <1>0, <1>2 DEF StartPoll, TypeOK
  <2>3. polls' \in 0..MaxPolls
    BY <1>0, <2>1, PollAssumption DEF TypeOK
  <2>4. \A q \in Polls : tries'[q].adapter <= IF at'[q] = "fallback" THEN FallbackRetries
                                                                    ELSE AdapterRetries
    BY <1>0, <2>1, BoundKept
  <2> QED  BY <1>0, <2>1, <2>2, <2>3, <2>4 DEF TypeOK
<1>3. ASSUME NEW p \in Polls, NextMarket(p)
      PROVE  TypeOK'
  <2>1. /\ at[p] = "next"
        /\ at' = [at EXCEPT ![p] = "idle"] \/ at' = [at EXCEPT ![p] = "primary"]
        /\ tries' = tries /\ provider' = provider /\ polls' = polls
    BY <1>3 DEF NextMarket, Move
  <2>2. todo' \in [Polls -> SUBSET Markets] /\ market' \in [Polls -> Markets]
    <3>1. /\ todo \in [Polls -> SUBSET Markets] /\ market \in [Polls -> Markets]
          /\ todo[p] \subseteq Markets
      BY <1>0 DEF TypeOK
    <3>2. \/ UNCHANGED <<todo, market>>
          \/ \E m \in todo[p] : /\ todo' = [todo EXCEPT ![p] = @ \ {m}]
                                /\ market' = [market EXCEPT ![p] = m]
      BY <1>3 DEF NextMarket
    <3> QED  BY <3>1, <3>2
  <2>3. metrics' \in [Polls -> [Counters -> Nat]]
    <3>1. metrics' = [metrics EXCEPT ![p] = [k \in Counters |-> 0]] \/ Count(p, "total")
      BY <1>3 DEF NextMarket
    <3>2. "total" \in Counters
      BY DEF Counters
    <3>3. CASE metrics' = [metrics EXCEPT ![p] = [k \in Counters |-> 0]]
      BY <1>0, <3>3 DEF TypeOK
    <3> QED  BY <1>0, <3>1, <3>2, <3>3, CountType
  <2>4. \A q \in Polls : tries'[q].adapter <= IF at'[q] = "fallback" THEN FallbackRetries
                                                                    ELSE AdapterRetries
    BY <1>0, <2>1, BoundKept
  <2>5. at' \in [Polls -> {"idle", "next", "primary", "fallback", "store", "enqueue"}]
    BY <1>0, <2>1 DEF TypeOK
  <2> QED  BY <1>0, <2>1, <2>2, <2>3, <2>4, <2>5 DEF TypeOK
<1>4. ASSUME NEW p \in Polls, StoreReport(p) \/ StoreFails(p) \/ Enqueued(p)
      PROVE  TypeOK'
  <2>1. /\ at[p] \in {"store", "enqueue"}
        /\ at' = [at EXCEPT ![p] = "enqueue"] \/ at' = [at EXCEPT ![p] = "next"]
        /\ UNCHANGED <<todo, market, tries, provider, metrics, polls>>
    BY <1>4 DEF StoreReport, StoreFails, Enqueued, Move
  <2>2. \A q \in Polls : tries'[q].adapter <= IF at'[q] = "fallback" THEN FallbackRetries
                                                                    ELSE AdapterRetries
    BY <1>0, <2>1, BoundKept
  <2> QED  BY <1>0, <2>1, <2>2 DEF TypeOK
<1>5. CASE OracleCrash
  <2>1. /\ at' = [p \in Polls |-> "idle"] /\ todo' = [p \in Polls |-> {}]
        /\ tries' = [p \in Polls |-> [service |-> 0, adapter |-> 0]]
        /\ provider' = [p \in Polls |-> 0] /\ market' = market /\ polls' = polls
        /\ metrics' = [p \in Polls |-> [k \in Counters |-> 0]]
    BY <1>5 DEF OracleCrash, NoTries
  <2> QED  BY <1>0, <2>1, PollAssumption DEF TypeOK
<1>6. ASSUME NEW p \in Polls, Timeout(p)
      PROVE  TypeOK'
  BY <1>0, <1>6, PrimaryFailsTypes, NextProviderTypes DEF Timeout
<1>7. ASSUME NEW p \in Polls, NEW k, PrimaryFails(p, k) \/ FallbackFails(p, k)
      PROVE  TypeOK'
  BY <1>0, <1>7, PrimaryFailsTypes, FallbackFailsTypes
<1>8. ASSUME NEW p \in Polls, PrimaryAnswers(p) \/ FallbackAnswers(p)
      PROVE  TypeOK'
  BY <1>0, <1>8, AnswerTypes
<1>9. ASSUME Quiescent \/ UNCHANGED vars
      PROVE  UNCHANGED pollVars
  BY <1>9 DEF Quiescent, vars
<1> QED  BY <1>1, <1>2, <1>3, <1>4, <1>5, <1>6, <1>7, <1>8, <1>9, Zenon DEF Next

\* enqueue() runs only while its poll awaits it.
LEMMA EnqueueStepInv ==
    ASSUME IInv, [Next]_vars
    PROVE  EnqueueInv'
<1>0. TypeOK /\ EnqueueInv
  BY DEF IInv
<1> USE DEF EnqueueInv, TypeOK, QueueTypeOK
<1>1. CASE QueueStep /\ UNCHANGED pollVars
  <2>1. ASSUME NEW p \in Polls, EnqueueStep(p) \/ EnqueueFails(p)
        PROVE  epc[p] # "idle" /\ \A q \in Polls : q # p => epc'[q] = epc[q]
    BY <1>0, <2>1 DEF EnqueueStep, EnqueueFails, CheckDedup, CheckLock, Add, MarkQueued,
                      MarkInFlight, AtEnqueue
  <2>2. ASSUME NEW c \in Consumers,
               WorkerStep(c) \/ SubmissionFails(c) \/ DeadLetterFails(c) \/ WorkerCrash(c)
        PROVE  epc' = epc
    BY <2>2 DEF WorkerStep, Dequeue, Verify, Submit, SaveReport, SaveCandidate, Ack, Unlock,
                Retry, DeadLetter, SubmissionFails, DeadLetterFails, WorkerCrash, enqueueVars
  <2>3. ASSUME ExpireKey
        PROVE  epc' = epc
    BY <2>3 DEF ExpireKey, enqueueVars
  <2>4. at' = at
    BY <1>1 DEF pollVars
  <2> QED  BY <1>0, <1>1, <2>1, <2>2, <2>3, <2>4 DEF QueueStep
<1>2. CASE OracleCrash
  BY <1>2 DEF OracleCrash
<1>4. ASSUME NEW p \in Polls, StoreReport(p)
      PROVE  EnqueueInv'
  BY <1>0, <1>4 DEF StoreReport, Move, AtEnqueue
<1>5. ASSUME NEW p \in Polls, StartPoll(p) \/ StoreFails(p)
      PROVE  EnqueueInv'
  BY <1>0, <1>5 DEF StartPoll, StoreFails, Move, enqueueVars
<1>6. ASSUME NEW p \in Polls, NextMarket(p) \/ Enqueued(p)
      PROVE  EnqueueInv'
  BY <1>0, <1>6 DEF NextMarket, Enqueued, Move, queueVars, enqueueVars
<1>7. ASSUME NEW p \in Polls, PrimaryAnswers(p) \/ FallbackAnswers(p)
      PROVE  EnqueueInv'
  BY <1>0, <1>7 DEF PrimaryAnswers, FallbackAnswers, GotResult, Move
<1>8. ASSUME NEW p \in Polls, NEW k, PrimaryFails(p, k)
      PROVE  EnqueueInv'
  BY <1>0, <1>8 DEF PrimaryFails, Move, queueVars, enqueueVars
<1>9. ASSUME NEW p \in Polls, at[p] = "fallback", NextProvider(p), UNCHANGED queueVars
      PROVE  EnqueueInv'
  BY <1>0, <1>9 DEF NextProvider, Move, queueVars, enqueueVars
<1>10. ASSUME NEW p \in Polls, NEW k, FallbackFails(p, k)
      PROVE  EnqueueInv'
  <2>1. CASE UNCHANGED at
    BY <1>0, <1>10, <2>1 DEF FallbackFails, queueVars, enqueueVars
  <2> QED  BY <1>9, <1>10, <2>1 DEF FallbackFails
<1>11. ASSUME NEW p \in Polls, Timeout(p)
      PROVE  EnqueueInv'
  BY <1>8, <1>9, <1>11 DEF Timeout
<1>12. CASE Quiescent \/ UNCHANGED vars
  BY <1>0, <1>12 DEF Quiescent, vars, pollVars, queueVars, enqueueVars
<1> HIDE DEF EnqueueInv, TypeOK, QueueTypeOK
<1> QED  BY <1>1, <1>2, <1>4, <1>5, <1>6, <1>7, <1>8, <1>10, <1>11, <1>12, Zenon DEF Next

-----------------------------------------------------------------------------
(* What a worker has done with its entry *)

HandledInv == WorkerInv /\ AckedIsHandled /\ CandidateIsSubmitted

\* A step outside the workers: the stream grows, the group is created.
LEMMA HandledFrame ==
    ASSUME IInv, acked' = acked, cpc' = cpc, entry' = entry,
           onChain' = onChain, offChain' = offChain, configured' = configured,
           candidate' = candidate, dead' = dead,
           group' = group \/ (group = -1 /\ group' \in Nat),
           \A i \in 1..Len(stream) : stream'[i] = stream[i]
    PROVE  HandledInv'
<1>0. /\ Len(stream) \in Nat /\ group \in -1..Len(stream)
      /\ acked \subseteq 1..Len(stream) /\ candidate \in [Markets -> 0..Len(stream)]
      /\ QueueTypeOK /\ WorkerInv /\ AckedIsHandled /\ CandidateIsSubmitted
  BY DEF IInv, TypeOK, QueueTypeOK
<1>1. 1..group \subseteq 1..group'
  BY <1>0
<1>2. \A c \in Consumers : cpc[c] # "idle" => MarketOf(c)' = MarketOf(c)
  BY <1>0, EntryInStream DEF MarketOf
<1>3. WorkerInv'
  BY <1>0, <1>1, <1>2 DEF WorkerInv
<1>4. AckedIsHandled'
  BY <1>0 DEF AckedIsHandled
<1>5. CandidateIsSubmitted'
  BY <1>0 DEF CandidateIsSubmitted
<1> QED  BY <1>3, <1>4, <1>5 DEF HandledInv

\* A step of a worker.
LEMMA HandledWorker ==
    ASSUME IInv, NEW c \in Consumers,
           WorkerStep(c) \/ SubmissionFails(c) \/ DeadLetterFails(c) \/ WorkerCrash(c)
    PROVE  HandledInv'
<1> USE DEF streamVars, keyVars, enqueueVars, workerVars, workerConfig, resultVars, chainVars,
            Goto, Leave
<1>0. /\ Len(stream) \in Nat /\ group \in -1..Len(stream)
      /\ acked \subseteq 1..Len(stream) /\ candidate \in [Markets -> 0..Len(stream)]
      /\ cpc \in [Consumers -> {"idle", "verify", "chain", "report", "candidate", "ack",
                                "unlock", "fail", "ackDead", "unlockDead"}]
      /\ entry \in [Consumers -> 0..Len(stream)]
      /\ WorkerInv /\ AckedIsHandled /\ CandidateIsSubmitted
  BY DEF IInv, TypeOK, QueueTypeOK
<1>a. cpc[c] # "idle" => entry[c] \in 1..Len(stream) /\ MarketOf(c) \in Markets
  BY EntryInStream DEF IInv, TypeOK
<1>b. \A d \in Consumers : cpc[d] # "idle" => MarketOf(d) \in Markets
  BY EntryInStream DEF IInv, TypeOK
<1>c. ASSUME NEW i \in 1..Len(stream) PROVE stream[i].market \in Markets
  <2>1. stream[i] \in Item
    BY DEF IInv, TypeOK, QueueTypeOK
  <2> QED  BY <2>1 DEF Item
<1> USE DEF HandledInv
<1>1. CASE Dequeue(c)
  <2>1. WorkerInv'
    BY <1>1, <1>0 DEF Dequeue, WorkerInv, MarketOf
  <2> QED  BY <1>1, <1>0, <2>1 DEF Dequeue, AckedIsHandled, CandidateIsSubmitted
<1>2. CASE Verify(c)
  <2>1. WorkerInv'
    BY <1>2, <1>0 DEF Verify, WorkerInv, MarketOf
  <2> QED  BY <1>2, <1>0, <2>1 DEF Verify, AckedIsHandled, CandidateIsSubmitted
<1>3. CASE Submit(c)
  <2>1. WorkerInv'
    BY <1>3, <1>0 DEF Submit, ResolveMarket, SkipChain, WorkerInv, MarketOf
  <2> QED  BY <1>3, <1>0, <2>1
           DEF Submit, ResolveMarket, SkipChain, AckedIsHandled, CandidateIsSubmitted
<1>4. CASE SaveReport(c)
  <2>1. WorkerInv'
    BY <1>4, <1>0 DEF SaveReport, WorkerInv, MarketOf
  <2> QED  BY <1>4, <1>0, <2>1 DEF SaveReport, AckedIsHandled, CandidateIsSubmitted
<1>5. CASE SaveCandidate(c)
  <2>1. WorkerInv'
    BY <1>5, <1>0, <1>a, <1>b DEF SaveCandidate, WorkerInv, MarketOf
  <2>2. AckedIsHandled'
    BY <1>5, <1>0, <1>a DEF SaveCandidate, AckedIsHandled
  <2>3. CandidateIsSubmitted'
    BY <1>5, <1>0, <1>a DEF SaveCandidate, CandidateIsSubmitted, WorkerInv, MarketOf
  <2> QED  BY <2>1, <2>2, <2>3
<1>6. CASE Ack(c)
  <2>1. WorkerInv'
    BY <1>6, <1>0 DEF Ack, WorkerInv, MarketOf
  <2>2. AckedIsHandled'
    BY <1>6, <1>0 DEF Ack, WorkerInv, AckedIsHandled, MarketOf
  <2> QED  BY <1>6, <1>0, <2>1, <2>2 DEF Ack, CandidateIsSubmitted
<1>7. CASE Unlock(c)
  <2>1. WorkerInv'
    BY <1>7, <1>0 DEF Unlock, WorkerInv, MarketOf
  <2> QED  BY <1>7, <1>0, <2>1 DEF Unlock, AckedIsHandled, CandidateIsSubmitted
<1>8. CASE Retry(c)
  <2>1. WorkerInv'
    BY <1>8, <1>0 DEF Retry, WorkerInv, MarketOf
  <2> QED  BY <1>8, <1>0, <2>1 DEF Retry, AckedIsHandled, CandidateIsSubmitted
<1>9. CASE DeadLetter(c) \/ DeadLetterFails(c)
  <2>1. /\ cpc' = [cpc EXCEPT ![c] = "ackDead"] /\ dead' = dead \cup {entry[c]}
        /\ cpc[c] = "fail"
        /\ UNCHANGED <<stream, group, acked, entry, onChain, offChain, configured, candidate>>
    BY <1>9 DEF DeadLetter, DeadLetterFails, logDeadLetter
  <2>2. WorkerInv'
    BY <2>1, <1>0 DEF WorkerInv, MarketOf
  <2> QED  BY <2>1, <1>0, <2>2 DEF AckedIsHandled, CandidateIsSubmitted
<1>10. CASE SubmissionFails(c)
  <2>1. /\ \/ cpc' = [cpc EXCEPT ![c] = "fail"] /\ entry' = entry
           \/ cpc' = [cpc EXCEPT ![c] = "idle"] /\ entry' = [entry EXCEPT ![c] = 0]
        /\ UNCHANGED <<stream, group, onChain, offChain, configured, dead>>
    BY <1>10 DEF SubmissionFails
  <2>2. \/ acked' = acked /\ candidate' = candidate
        \/ acked' = acked /\ cpc[c] = "candidate"
           /\ candidate' = [candidate EXCEPT ![MarketOf(c)] = entry[c]]
        \/ acked' = acked \cup {entry[c]} /\ cpc[c] \in {"ack", "ackDead"} /\ candidate' = candidate
    BY <1>10 DEF SubmissionFails
  <2>c. cpc[c] # "idle"
    BY <1>10 DEF SubmissionFails
  <2>3. /\ \A m \in Markets : candidate[m] # 0 => candidate'[m] # 0
        /\ acked' \subseteq 1..group
        /\ acked \subseteq acked'
    <3>1. entry[c] \in 1..group /\ entry[c] # 0 /\ acked \subseteq 1..group
      BY <2>c, <1>0 DEF WorkerInv
    <3>2. CASE acked' = acked /\ candidate' = candidate
      BY <3>1, <3>2
    <3>3. CASE acked' = acked /\ candidate' = [candidate EXCEPT ![MarketOf(c)] = entry[c]]
      BY <3>1, <3>3, <1>0
    <3>4. CASE acked' = acked \cup {entry[c]} /\ candidate' = candidate
      BY <3>1, <3>4
    <3> QED  BY <2>2, <3>2, <3>3, <3>4
  <2>4. WorkerInv'
    <3>0. cpc \in [Consumers -> {"idle", "verify", "chain", "report", "candidate", "ack",
                                 "unlock", "fail", "ackDead", "unlockDead"}]
          /\ DOMAIN entry = Consumers
      BY <1>0 DEF QueueTypeOK
    <3>1. \A d \in Consumers : /\ cpc'[d] # "idle" => cpc[d] # "idle" /\ entry'[d] = entry[d]
                               /\ d # c => cpc'[d] = cpc[d]
                               /\ cpc'[c] \in {"idle", "fail"}
      BY <2>1, <2>c, <3>0
    <3>2. \A d \in Consumers : cpc'[d] # "idle" =>
             MarketOf(d)' = MarketOf(d) /\ MarketOf(d) \in Markets
      BY <2>1, <3>1, <1>b DEF MarketOf
    <3>3. \A d \in Consumers : cpc'[d] \in {"ack", "unlock"} => candidate'[MarketOf(d)'] # 0
      BY <2>3, <3>1, <3>2, <1>0 DEF WorkerInv
    <3> QED  BY <2>1, <2>3, <3>1, <3>3, <1>0 DEF WorkerInv
  <2>5. AckedIsHandled'
    <3>1. ASSUME NEW i \in acked
          PROVE  i \in dead \/ (i \in onChain \cup offChain /\ candidate'[stream[i].market] # 0)
      BY <1>0, <1>c, <2>3 DEF AckedIsHandled
    <3>2. CASE cpc[c] \in {"ack", "ackDead"}
      <4>1. \/ entry[c] \in dead
            \/ entry[c] \in onChain \cup offChain /\ candidate'[stream[entry[c]].market] # 0
        BY <1>0, <1>a, <2>3, <3>2 DEF WorkerInv, MarketOf
      <4> QED  BY <2>1, <2>2, <3>1, <4>1 DEF AckedIsHandled
    <3>3. CASE cpc[c] \notin {"ack", "ackDead"}
      BY <2>1, <2>2, <3>1, <3>3 DEF AckedIsHandled
    <3> QED  BY <3>2, <3>3
  <2>6. CandidateIsSubmitted'
    BY <2>1, <2>2, <1>0, <1>a DEF WorkerInv, CandidateIsSubmitted, MarketOf
  <2> QED  BY <2>4, <2>5, <2>6
<1>11. CASE WorkerCrash(c)
  <2>1. WorkerInv'
    BY <1>11, <1>0 DEF WorkerCrash, WorkerInv, MarketOf
  <2> QED  BY <1>11, <1>0, <2>1 DEF WorkerCrash, AckedIsHandled, CandidateIsSubmitted
<1> QED  BY <1>1, <1>2, <1>3, <1>4, <1>5, <1>6, <1>7, <1>8, <1>9, <1>10, <1>11
         DEF WorkerStep

\* Every step.
LEMMA HandledStep ==
    ASSUME IInv, [Next]_vars
    PROVE  HandledInv'
<1> USE DEF streamVars, keyVars, enqueueVars, workerVars, workerConfig, resultVars, chainVars
<1>0. QueueTypeOK /\ Len(stream) \in Nat
  BY DEF IInv, TypeOK, QueueTypeOK
<1>1. ASSUME NEW p \in Polls, EnqueueStep(p) \/ EnqueueFails(p)
      PROVE  HandledInv'
  <2>1. UNCHANGED <<acked, cpc, entry, onChain, offChain, configured, candidate, dead,
                    group>>
    BY <1>1 DEF EnqueueStep, EnqueueFails, CheckDedup, CheckLock, Add, MarkQueued, MarkInFlight
  <2>2. stream' = stream \/ stream' = Append(stream, item[p])
    BY <1>1 DEF EnqueueStep, EnqueueFails, CheckDedup, CheckLock, Add, MarkQueued, MarkInFlight
  <2>3. \A i \in 1..Len(stream) : stream'[i] = stream[i]
    BY <1>0, <2>2, StreamGrows
  <2> QED  BY <2>1, <2>3, HandledFrame
<1>2. ASSUME acked' = acked, cpc' = cpc, entry' = entry, stream' = stream,
             onChain' = onChain, offChain' = offChain, configured' = configured,
           candidate' = candidate, dead' = dead,
             group' = group \/ (group = -1 /\ group' \in Nat)
      PROVE  HandledInv'
  BY <1>2, HandledFrame
<1>3. ASSUME QueueStep
      PROVE  HandledInv'
  <2>1. ExpireKey => UNCHANGED <<acked, cpc, entry, onChain, offChain, configured,
                                 candidate, dead, stream, group>>
    BY DEF ExpireKey
  <2> QED  BY <1>1, <1>2, <1>3, <2>1, HandledWorker DEF QueueStep
<1>4. CASE UNCHANGED queueVars
  BY <1>2, <1>4 DEF queueVars
<1>5. ASSUME NEW p \in Polls, StartPoll(p)
      PROVE  HandledInv'
  BY <1>0, <1>2, <1>5 DEF StartPoll, Initialize
<1>6. ASSUME NEW p \in Polls, StoreReport(p) \/ StoreFails(p) \/ GotResult(p)
      PROVE  HandledInv'
  BY <1>2, <1>6 DEF StoreReport, StoreFails, GotResult
<1>7. CASE OracleCrash
  BY <1>2, <1>7 DEF OracleCrash
<1> QED  BY <1>3, <1>4, <1>5, <1>6, <1>7, QueueView

-----------------------------------------------------------------------------
(* Overlapping submissions *)

\* The entries of a market that are live are finitely many.
LEMMA LiveFinite ==
    ASSUME QueueTypeOK, NEW m \in Markets
    PROVE  IsFiniteSet(Live(m)) /\ Cardinality(Live(m)) \in Nat
<1>1. Len(stream) \in Nat
  BY DEF QueueTypeOK
<1>2. IsFiniteSet(1..Len(stream))
  BY <1>1, FS_Interval
<1>3. Live(m) \in SUBSET (1..Len(stream))
  BY DEF Live
<1>4. IsFiniteSet(Live(m))
  BY <1>2, <1>3, FS_Subset
<1> QED  BY <1>4, FS_CardinalityType

\* What a set loses or gains with one element.
LEMMA OneMore ==
    ASSUME NEW S, NEW T, NEW x, IsFiniteSet(S), T \subseteq S \cup {x}
    PROVE  Cardinality(T) \in Nat /\ Cardinality(S) \in Nat /\ Cardinality(T) <= Cardinality(S) + 1
<1>1. /\ IsFiniteSet(S \cup {x}) /\ Cardinality(S) \in Nat
      /\ Cardinality(S \cup {x}) = Cardinality(S) \/ Cardinality(S \cup {x}) = Cardinality(S) + 1
  BY FS_AddElement, FS_CardinalityType
<1>2. IsFiniteSet(T) /\ Cardinality(T) <= Cardinality(S \cup {x})
  BY <1>1, FS_Subset
<1>3. Cardinality(T) \in Nat
  BY <1>2, FS_CardinalityType
<1> QED  BY <1>1, <1>2, <1>3

LEMMA OneLess ==
    ASSUME NEW S, NEW T, NEW x \in S, IsFiniteSet(S), T \subseteq S \ {x}
    PROVE  Cardinality(T) \in Nat /\ Cardinality(S) \in Nat /\ Cardinality(T) <= Cardinality(S) - 1
<1>1. /\ IsFiniteSet(S \ {x}) /\ Cardinality(S) \in Nat
      /\ Cardinality(S \ {x}) = Cardinality(S) - 1
  BY FS_RemoveElement, FS_CardinalityType
<1>2. IsFiniteSet(T) /\ Cardinality(T) <= Cardinality(S \ {x})
  BY <1>1, FS_Subset
<1>3. Cardinality(T) \in Nat
  BY <1>2, FS_CardinalityType
<1> QED  BY <1>1, <1>2, <1>3

Bounded(m) == Cardinality(Live(m)) <= faults + (IF Covered(m) THEN 1 ELSE 0)

\* The four ways a step may treat a market: nothing becomes live and the cover
\* stays; nothing becomes live and a fault is counted; one entry becomes live,
\* with a cover or a fault of its own; one live entry is over.
LEMMA BoundKeptBy ==
    ASSUME QueueTypeOK, NEW m \in Markets, Bounded(m),
           \/ Live(m)' \subseteq Live(m) /\ (Covered(m) => Covered(m)') /\ faults' = faults
           \/ Live(m)' \subseteq Live(m) /\ faults' = faults + 1
           \/ /\ \E x : Live(m)' \subseteq Live(m) \cup {x}
              /\ \/ ~ Covered(m) /\ Covered(m)' /\ faults' = faults
                 \/ (Covered(m) => Covered(m)') /\ faults' = faults + 1
           \/ (\E x \in Live(m) : Live(m)' \subseteq Live(m) \ {x}) /\ faults' = faults
    PROVE  Bounded(m)'
<1>0. IsFiniteSet(Live(m)) /\ Cardinality(Live(m)) \in Nat /\ faults \in Nat
  BY LiveFinite DEF QueueTypeOK
<1>1. CASE Live(m)' \subseteq Live(m)
  <2>1. Cardinality(Live(m)') <= Cardinality(Live(m)) /\ IsFiniteSet(Live(m)')
    BY <1>0, <1>1, FS_Subset
  <2>2. Cardinality(Live(m)') \in Nat
    BY <2>1, FS_CardinalityType
  <2>3. CASE (Covered(m) => Covered(m)') /\ faults' = faults
    BY <1>0, <2>1, <2>2, <2>3 DEF Bounded
  <2>4. CASE faults' = faults + 1
    BY <1>0, <2>1, <2>2, <2>4 DEF Bounded
  <2>5. CASE (\E x \in Live(m) : Live(m)' \subseteq Live(m) \ {x}) /\ faults' = faults
    <3>1. Cardinality(Live(m)') <= Cardinality(Live(m)) - 1
      BY <1>0, <2>5, OneLess
    <3> QED  BY <1>0, <2>2, <2>5, <3>1 DEF Bounded
  <2>6. CASE ~ Covered(m) /\ Covered(m)' /\ faults' = faults
    BY <1>0, <2>1, <2>2, <2>6 DEF Bounded
  <2> QED  BY <2>3, <2>4, <2>5, <2>6
<1>2. CASE \E x : Live(m)' \subseteq Live(m) \cup {x}
  <2>1. Cardinality(Live(m)') \in Nat /\ Cardinality(Live(m)') <= Cardinality(Live(m)) + 1
    BY <1>0, <1>2, OneMore
  <2>2. CASE ~ Covered(m) /\ Covered(m)' /\ faults' = faults
    BY <1>0, <2>1, <2>2 DEF Bounded
  <2>3. CASE (Covered(m) => Covered(m)') /\ faults' = faults + 1
    BY <1>0, <2>1, <2>3 DEF Bounded
  <2>4. CASE Live(m)' \subseteq Live(m)
    BY <1>1, <2>4
  <2>5. CASE \E x \in Live(m) : Live(m)' \subseteq Live(m) \ {x}
    BY <1>1, <2>5
  <2> QED  BY <2>2, <2>3, <2>4, <2>5
<1>3. CASE \E x \in Live(m) : Live(m)' \subseteq Live(m) \ {x}
  BY <1>1, <1>3
<1> QED  BY <1>1, <1>2, <1>3

\* With one poll at a time, an enqueue() that will set the lock finds it unset.
LockInv == \A p \in Polls : epc[p] \in {"add", "mark", "flight"} => item[p].market \notin lock

\* A step that keeps the enqueue() side as it is, or counts a fault for what
\* it loses, and adds no live entry.
LEMMA QuietStep ==
    ASSUME QueueTypeOK, LockInv, \A m \in Markets : Bounded(m),
           \A m \in Markets : Live(m)' \subseteq Live(m),
           epc' = epc, item' = item, lock' \subseteq lock,
           (lock' = lock /\ faults' = faults) \/ faults' = faults + 1
    PROVE  LockInv' /\ \A m \in Markets : Bounded(m)'
<1>1. LockInv'
  BY DEF LockInv
<1>2. ASSUME NEW m \in Markets PROVE Bounded(m)'
  <2>1. lock' = lock => (Covered(m) => Covered(m)')
    BY DEF Covered
  <2> QED  BY <2>1, BoundKeptBy
<1> QED  BY <1>1, <1>2

\* Live entries depend on the stream, the acknowledgements and the workers.
LEMMA LiveSame ==
    ASSUME stream' = stream, acked' = acked, cpc' = cpc, entry' = entry
    PROVE  \A m \in Markets : Live(m)' \subseteq Live(m)
BY DEF Live

\* What a worker does makes nothing live: an entry it takes is not yet
\* acknowledged, one it acknowledges it still works on.
LEMMA WorkerLive ==
    ASSUME QueueTypeOK, WorkerInv, NEW c \in Consumers,
           WorkerStep(c) \/ SubmissionFails(c) \/ DeadLetterFails(c) \/ WorkerCrash(c)
    PROVE  \A m \in Markets : Live(m)' \subseteq Live(m)
<1> USE DEF streamVars, workerVars, workerConfig, Goto, Leave
<1>1. /\ stream' = stream /\ acked \subseteq acked'
  BY DEF WorkerStep, Dequeue, Verify, Submit, SaveReport, SaveCandidate, Ack, Unlock,
         Retry, DeadLetter, SubmissionFails, DeadLetterFails, WorkerCrash
<1>2. CASE Dequeue(c)
  <2>1. group + 1 \notin acked
    BY <1>2 DEF Dequeue, WorkerInv, QueueTypeOK
  <2> QED  BY <1>1, <1>2, <2>1 DEF Dequeue, Live, QueueTypeOK
<1>3. ASSUME cpc[c] # "idle",
             \/ entry' = entry
             \/ cpc' = [cpc EXCEPT ![c] = "idle"] /\ entry' = [entry EXCEPT ![c] = 0],
             \E l : cpc' = [cpc EXCEPT ![c] = l]
      PROVE  \A m \in Markets : Live(m)' \subseteq Live(m)
  <2>1. \A d \in Consumers : cpc'[d] # "idle" => cpc[d] # "idle" /\ entry'[d] = entry[d]
    BY <1>3 DEF QueueTypeOK
  <2> QED  BY <1>1, <2>1 DEF Live
<1>4. ASSUME ~ Dequeue(c)
      PROVE  /\ cpc[c] # "idle"
             /\ \/ entry' = entry
                \/ cpc' = [cpc EXCEPT ![c] = "idle"] /\ entry' = [entry EXCEPT ![c] = 0]
             /\ \E l : cpc' = [cpc EXCEPT ![c] = l]
  BY <1>4 DEF WorkerStep, Verify, Submit, ResolveMarket, SkipChain, SaveReport, SaveCandidate, Ack,
              Unlock, Retry, DeadLetter, SubmissionFails, DeadLetterFails, WorkerCrash
<1> QED  BY <1>2, <1>3, <1>4

\* A worker's last step gives the lock up with the last entry it stood for.
LEMMA UnlockStep ==
    ASSUME QueueTypeOK, WorkerInv, NEW c \in Consumers, Unlock(c), NEW m \in Markets, Bounded(m)
    PROVE  Bounded(m)'
<1>0. /\ Live(m)' \subseteq Live(m) /\ faults' = faults
      /\ lock' = lock \ {MarketOf(c)} /\ epc' = epc /\ item' = item
      /\ cpc[c] \in {"unlock", "unlockDead"} /\ cpc[c] # "idle"
      /\ cpc' = [cpc EXCEPT ![c] = "idle"] /\ entry' = [entry EXCEPT ![c] = 0]
      /\ acked' = acked /\ stream' = stream
  BY WorkerLive DEF WorkerStep, Unlock, Leave, Goto, streamVars, enqueueVars
<1>1. CASE m # MarketOf(c)
  <2>1. Covered(m) => Covered(m)'
    BY <1>0, <1>1 DEF Covered
  <2> QED  BY <1>0, <2>1, BoundKeptBy
<1>2. CASE m = MarketOf(c)
  <2>1. entry[c] \in 1..Len(stream) /\ entry[c] \in acked
    BY <1>0, EntryInStream DEF WorkerInv
  <2>2. entry[c] \in Live(m)
    BY <1>0, <1>2, <2>1 DEF Live, MarketOf
  <2>3. \A d \in Consumers : cpc'[d] # "idle" => entry'[d] # entry[c]
    BY <1>0 DEF WorkerInv, QueueTypeOK
  <2>4. entry[c] \notin Live(m)'
    BY <1>0, <2>1, <2>3 DEF Live
  <2>5. Live(m)' \subseteq Live(m) \ {entry[c]}
    BY <1>0, <2>4
  <2> QED  BY <1>0, <2>2, <2>5, BoundKeptBy
<1> QED  BY <1>1, <1>2

\* A step of the only enqueue(), with keys that can be set.
LEMMA EnqueueOverlap ==
    ASSUME QueueTypeOK, WorkerInv, LockInv, \A m \in Markets : Bounded(m),
           NEW p \in Polls, Polls = {p}, setWorks, EnqueueStep(p) \/ EnqueueFails(p)
    PROVE  LockInv' /\ \A m \in Markets : Bounded(m)'
<1> USE DEF streamVars, keyVars, workerVars, workerConfig, resultVars, chainVars, AtEnqueue
<1>0. /\ item' = item /\ acked' = acked /\ cpc' = cpc /\ entry' = entry
      /\ item[p].market \in Markets /\ DOMAIN epc = Polls /\ Len(stream) \in Nat
  <2>1. item' = item /\ acked' = acked /\ cpc' = cpc /\ entry' = entry
    BY DEF EnqueueStep, EnqueueFails, CheckDedup, CheckLock, Add, MarkQueued, MarkInFlight
  <2>2. item[p] \in Item /\ DOMAIN epc = Polls /\ Len(stream) \in Nat
    BY DEF QueueTypeOK
  <2> QED  BY <2>1, <2>2 DEF Item
<1>1. CASE CheckDedup(p) \/ CheckLock(p)
  <2>1. /\ epc' = [epc EXCEPT ![p] = "idle"] \/ epc' = [epc EXCEPT ![p] = "lock"]
           \/ (epc' = [epc EXCEPT ![p] = "add"] /\ item[p].market \notin lock)
        /\ lock' = lock /\ faults' = faults /\ epc[p] \in {"dedup", "lock"} /\ stream' = stream
    BY <1>1 DEF CheckDedup, CheckLock
  <2>2. LockInv'
    BY <1>0, <2>1 DEF LockInv
  <2>3. \A m \in Markets : Covered(m) => Covered(m)'
    BY <1>0, <2>1 DEF Covered
  <2>4. \A m \in Markets : Live(m)' \subseteq Live(m)
    BY <1>0, <2>1, LiveSame
  <2> QED  BY <2>1, <2>2, <2>3, <2>4, BoundKeptBy
<1>2. CASE Add(p)
  <2>1. /\ epc[p] = "add" /\ epc' = [epc EXCEPT ![p] = "mark"]
        /\ stream' = Append(stream, item[p]) /\ lock' = lock /\ faults' = faults
    BY <1>2 DEF Add
  <2>2. LockInv'
    BY <1>0, <2>1 DEF LockInv
  <2>3. stream \in Seq(Item) /\ item[p] \in Item
    BY DEF QueueTypeOK
  <2>4. /\ Len(stream') = Len(stream) + 1 /\ stream'[Len(stream) + 1] = item[p]
        /\ \A i \in 1..Len(stream) : stream'[i] = stream[i]
    BY <2>1, <2>3
  <2>5. ASSUME NEW m \in Markets, m # item[p].market
        PROVE  Live(m)' \subseteq Live(m) /\ (Covered(m) => Covered(m)')
    <3>1. Live(m)' \subseteq Live(m)
      BY <1>0, <2>4, <2>5 DEF Live
    <3> QED  BY <1>0, <2>1, <3>1 DEF Covered
  <2>6. ASSUME NEW m \in Markets, m = item[p].market
        PROVE  /\ Live(m)' \subseteq Live(m) \cup {Len(stream) + 1}
               /\ ~ Covered(m) /\ Covered(m)'
    <3>1. Live(m)' \subseteq Live(m) \cup {Len(stream) + 1}
      BY <1>0, <2>4 DEF Live
    <3>2. ~ Covered(m)
      BY <2>1, <2>6 DEF Covered, LockInv
    <3>3. Covered(m)'
      BY <1>0, <2>1, <2>6 DEF Covered
    <3> QED  BY <3>1, <3>2, <3>3
  <2> QED  BY <2>1, <2>2, <2>5, <2>6, BoundKeptBy
<1>3. CASE MarkQueued(p)
  <2>1. /\ epc[p] = "mark" /\ epc' = [epc EXCEPT ![p] = "flight"]
        /\ lock' = lock /\ faults' = faults /\ stream' = stream
    BY <1>3 DEF MarkQueued
  <2>2. LockInv'
    BY <1>0, <2>1 DEF LockInv
  <2>3. \A m \in Markets : Covered(m) => Covered(m)'
    BY <1>0, <2>1 DEF Covered
  <2>4. \A m \in Markets : Live(m)' \subseteq Live(m)
    BY <1>0, <2>1, LiveSame
  <2> QED  BY <2>1, <2>2, <2>3, <2>4, BoundKeptBy
<1>4. CASE MarkInFlight(p)
  <2>1. /\ epc[p] = "flight" /\ epc' = [epc EXCEPT ![p] = "idle"]
        /\ lock' = lock \cup {item[p].market} /\ faults' = faults /\ stream' = stream
    BY <1>4 DEF MarkInFlight
  <2>2. LockInv'
    BY <1>0, <2>1 DEF LockInv
  <2>3. \A m \in Markets : Covered(m) => Covered(m)'
    BY <1>0, <2>1 DEF Covered
  <2>4. \A m \in Markets : Live(m)' \subseteq Live(m)
    BY <1>0, <2>1, LiveSame
  <2> QED  BY <2>1, <2>2, <2>3, <2>4, BoundKeptBy
<1>5. CASE EnqueueFails(p)
  <2>1. /\ epc' = [epc EXCEPT ![p] = "idle"] /\ faults' = faults + 1
        /\ \/ stream' = stream
           \/ /\ epc[p] = "add" /\ stream' = Append(stream, item[p])
              /\ lock' = lock
    BY <1>5 DEF EnqueueFails, Fault
  <2>2. LockInv'
    BY <1>0, <2>1 DEF LockInv
  <2>3. CASE stream' = stream
    <3>1. \A m \in Markets : Live(m)' \subseteq Live(m)
      BY <1>0, <2>3, LiveSame
    <3> QED  BY <2>1, <2>2, <3>1, BoundKeptBy
  <2>4. CASE epc[p] = "add" /\ stream' = Append(stream, item[p]) /\ lock' = lock
    <3>1. stream \in Seq(Item) /\ item[p] \in Item
      BY DEF QueueTypeOK
    <3>2. /\ Len(stream') = Len(stream) + 1
          /\ \A i \in 1..Len(stream) : stream'[i] = stream[i]
      BY <2>4, <3>1
    <3>3. \A m \in Markets : Live(m)' \subseteq Live(m) \cup {Len(stream) + 1}
      BY <1>0, <3>2 DEF Live
    <3>4. \A m \in Markets : Covered(m) => Covered(m)'
      BY <1>0, <2>1, <2>4 DEF Covered
    <3> QED  BY <2>1, <2>2, <3>3, <3>4, BoundKeptBy
  <2> QED  BY <2>1, <2>3, <2>4
<1> QED  BY <1>1, <1>2, <1>3, <1>4, <1>5 DEF EnqueueStep

\* Every step.
LEMMA OverlapStep ==
    ASSUME IInv, [Next]_vars
    PROVE  OverlapInv'
<1> USE DEF streamVars, keyVars, enqueueVars, workerVars, workerConfig, resultVars, chainVars
<1>0. setWorks' = setWorks
  <2>1. ASSUME NEW p \in Polls, EnqueueStep(p) \/ EnqueueFails(p)
        PROVE  setWorks' = setWorks
    BY <2>1 DEF EnqueueStep, EnqueueFails, CheckDedup, CheckLock, Add, MarkQueued, MarkInFlight
  <2>2. ASSUME NEW c \in Consumers,
               WorkerStep(c) \/ SubmissionFails(c) \/ DeadLetterFails(c) \/ WorkerCrash(c)
        PROVE  setWorks' = setWorks
    BY <2>2 DEF WorkerStep, Dequeue, Verify, Submit, SaveReport, SaveCandidate, Ack, Unlock,
                Retry, DeadLetter, SubmissionFails, DeadLetterFails, WorkerCrash
  <2>3. ASSUME ExpireKey \/ OracleCrash \/ UNCHANGED queueVars
        PROVE  setWorks' = setWorks
    BY <2>3 DEF ExpireKey, OracleCrash, queueVars
  <2>4. ASSUME NEW p \in Polls, StartPoll(p) \/ StoreReport(p) \/ StoreFails(p) \/ GotResult(p)
        PROVE  setWorks' = setWorks
    BY <2>4 DEF StartPoll, StoreReport, StoreFails, GotResult
  <2> QED  BY <2>1, <2>2, <2>3, <2>4, QueueView DEF QueueStep
<1> SUFFICES ASSUME Cardinality(Polls) = 1, setWorks
             PROVE  LockInv' /\ \A m \in Markets : Bounded(m)'
  BY <1>0 DEF OverlapInv, LockInv, Bounded
<1>1. PICK p : Polls = {p}
  BY QueueAssumption, FS_Singleton
<1>2. /\ QueueTypeOK /\ TypeOK /\ WorkerInv /\ EnqueueInv /\ LockInv
      /\ \A m \in Markets : Bounded(m)
  BY DEF IInv, TypeOK, OverlapInv, LockInv, Bounded
<1>3. CASE EnqueueStep(p) \/ EnqueueFails(p)
  BY <1>1, <1>2, <1>3, EnqueueOverlap
<1>4. ASSUME NEW c \in Consumers,
             WorkerStep(c) \/ SubmissionFails(c) \/ DeadLetterFails(c) \/ WorkerCrash(c)
      PROVE  LockInv' /\ \A m \in Markets : Bounded(m)'
  <2>1. CASE Unlock(c)
    <3>1. epc' = epc /\ item' = item /\ lock' \subseteq lock
      BY <2>1 DEF Unlock
    <3> QED  BY <1>2, <2>1, <3>1, UnlockStep DEF LockInv
  <2>2. CASE ~ Unlock(c)
    <3>1. \A m \in Markets : Live(m)' \subseteq Live(m)
      BY <1>2, <1>4, WorkerLive
    <3>2. epc' = epc /\ item' = item
      BY <1>4 DEF WorkerStep, Dequeue, Verify, Submit, SaveReport, SaveCandidate, Ack, Unlock,
                  Retry, DeadLetter, SubmissionFails, DeadLetterFails, WorkerCrash
    <3>3. lock' \subseteq lock /\ ((lock' = lock /\ faults' = faults) \/ faults' = faults + 1)
      BY <1>4, <2>2 DEF WorkerStep, Dequeue, Verify, Submit, SaveReport, SaveCandidate, Ack,
             Retry, DeadLetter, SubmissionFails, DeadLetterFails, WorkerCrash, Fault
    <3> QED  BY <1>2, <3>1, <3>2, <3>3, QuietStep
  <2> QED  BY <2>1, <2>2
<1>5. CASE ExpireKey
  <2>1. /\ epc' = epc /\ item' = item /\ lock' \subseteq lock /\ faults' = faults + 1
        /\ stream' = stream /\ acked' = acked /\ cpc' = cpc /\ entry' = entry
    BY <1>5 DEF ExpireKey, Fault
  <2> QED  BY <1>2, <2>1, QuietStep, LiveSame
<1>6. CASE UNCHANGED queueVars
  <2>1. /\ epc' = epc /\ item' = item /\ lock' = lock /\ faults' = faults
        /\ stream' = stream /\ acked' = acked /\ cpc' = cpc /\ entry' = entry
    BY <1>6 DEF queueVars
  <2> QED  BY <1>2, <2>1, QuietStep, LiveSame
<1>7. CASE StartPoll(p) \/ StoreFails(p)
  <2>1. /\ epc' = epc /\ item' = item /\ lock' = lock /\ (faults' = faults \/ faults' = faults + 1)
        /\ stream' = stream /\ acked' = acked /\ cpc' = cpc /\ entry' = entry
    BY <1>7 DEF StartPoll, StoreFails, Fault
  <2> QED  BY <1>2, <2>1, QuietStep, LiveSame
<1>8. CASE StoreReport(p) \/ (at[p] \in {"primary", "fallback"} /\ GotResult(p))
  <2>1. /\ lock' = lock /\ faults' = faults
        /\ stream' = stream /\ acked' = acked /\ cpc' = cpc /\ entry' = entry
    BY <1>8 DEF StoreReport, GotResult
  <2>2. epc[p] = "idle"
    BY <1>1, <1>2, <1>8 DEF StoreReport, EnqueueInv
  <2>3. epc'[p] \in {"idle", "dedup"}
    BY <1>1, <1>2, <1>8, <2>2 DEF StoreReport, GotResult, AtEnqueue, QueueTypeOK
  <2>4. LockInv'
    BY <1>1, <2>3 DEF LockInv
  <2>5. \A m \in Markets : Covered(m) => Covered(m)'
    BY <1>1, <2>1, <2>2 DEF Covered
  <2>6. \A m \in Markets : Live(m)' \subseteq Live(m)
    BY <2>1, LiveSame
  <2> QED  BY <1>2, <2>1, <2>4, <2>5, <2>6, BoundKeptBy
<1>9. CASE OracleCrash
  <2>1. /\ lock' = lock /\ faults' = faults + 1 /\ epc' = [q \in Polls |-> "idle"]
        /\ stream' = stream /\ acked' = acked /\ cpc' = cpc /\ entry' = entry
    BY <1>9 DEF OracleCrash, Fault
  <2>2. LockInv'
    BY <2>1 DEF LockInv
  <2>3. \A m \in Markets : Live(m)' \subseteq Live(m)
    BY <2>1, LiveSame
  <2> QED  BY <1>2, <2>1, <2>2, <2>3, BoundKeptBy
<1> QED  BY <1>1, <1>3, <1>4, <1>5, <1>6, <1>7, <1>8, <1>9, QueueView DEF QueueStep

-----------------------------------------------------------------------------
(* Theorems *)

\* The inductive invariant holds in every reachable state.
THEOREM InductiveInvariant == Spec => []IInv
<1>1. ASSUME IInv, [Next]_vars PROVE IInv'
  BY <1>1, TypeStep, EnqueueStepInv, HandledStep, OverlapStep DEF IInv, HandledInv
<1> QED  BY InitInv, <1>1, PTL DEF Spec

\* Every variable of the oracle and of its queue keeps its type, the retries
\* of both adapters and of the service within their limits.
THEOREM TypeCorrect == Spec => []TypeOK
<1>1. IInv => TypeOK
  BY DEF IInv
<1> QED  BY InductiveInvariant, <1>1, PTL

\* acknowledge() is called for entries that are confirmed and stored, or
\* dead-lettered, whichever calls fail and whichever workers crash.
THEOREM AcknowledgedIsHandled == Spec => []AckedIsHandled
<1>1. IInv => AckedIsHandled
  BY DEF IInv
<1> QED  BY InductiveInvariant, <1>1, PTL

\* updateOnSuccess stores a candidate only for a submission of its market that
\* was confirmed on the chain, or that a worker without a Stellar configuration
\* skipped there.
THEOREM CandidatesAreSubmitted == Spec => []CandidateIsSubmitted
<1>1. IInv => CandidateIsSubmitted
  BY DEF IInv
<1> QED  BY InductiveInvariant, <1>1, PTL

\* With one poll at a time and keys that can be set, the in-flight lock keeps
\* the submissions of a market apart but for one per fault.
THEOREM FaultsBoundOverlaps == Spec => []OverlapsNeedFaults
<1>1. IInv => OverlapsNeedFaults
  <2> SUFFICES ASSUME IInv, Cardinality(Polls) = 1, setWorks, NEW m \in Markets
               PROVE  Cardinality(InFlight(m)) <= 1 + faults
    BY DEF OverlapsNeedFaults
  <2>1. QueueTypeOK /\ faults \in Nat
    BY DEF IInv, TypeOK, QueueTypeOK
  <2>2. IsFiniteSet(Live(m)) /\ Cardinality(Live(m)) \in Nat
    BY <2>1, LiveFinite
  <2>3. InFlight(m) \subseteq Live(m)
    BY DEF InFlight, Live
  <2>4. Cardinality(InFlight(m)) <= Cardinality(Live(m)) /\ IsFiniteSet(InFlight(m))
    BY <2>2, <2>3, FS_Subset
  <2>5. Cardinality(InFlight(m)) \in Nat
    BY <2>4, FS_CardinalityType
  <2>6. Cardinality(Live(m)) <= faults + (IF Covered(m) THEN 1 ELSE 0)
    BY DEF IInv, OverlapInv
  <2> QED  BY <2>1, <2>2, <2>4, <2>5, <2>6
<1> QED  BY InductiveInvariant, <1>1, PTL
=============================================================================
