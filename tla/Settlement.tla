----------------------------- MODULE Settlement -----------------------------
(***************************************************************************)
(* Settlement of trades on the chain (apps/workers/src/settlement): BullMQ *)
(* workers take the jobs of the settlement queue, and SettlementWorker     *)
(* sends one settle_trade transaction per job, guarded by an idempotency   *)
(* key in Redis.  Workers are processes with concurrency 1.                *)
(*                                                                         *)
(* BullMQ and the Stellar network are external and modelled from how the   *)
(* workers use them.  BullMQ: an active job is locked by its worker; a job *)
(* whose lock is not renewed goes back to the queue, MaxStalled times.     *)
(* Stellar: the workers share the signer's account, a transaction is valid *)
(* for the account's next sequence number only, and the network keeps one  *)
(* pending transaction per account.                                        *)
(*                                                                         *)
(* A worker without a complete Stellar configuration records trades        *)
(* off-chain only: every worker of bullmq-consumer.ts, and those of        *)
(* consumer.ts whose environment lacks a variable.                         *)
(***************************************************************************)
EXTENDS Integers, FiniteSets

CONSTANTS
    Trades,       \* one job each
    Workers,
    MaxAttempts,  \* DEFAULT_JOB_OPTIONS.attempts and MAX_ATTEMPTS
    MaxStalled,   \* BullMQ's maxStalledCount
    MaxFaults     \* bound on crashes, lost locks, failed calls and late inclusions

ASSUME ConstantsAssumption ==
    /\ MaxAttempts \in Nat \ {0} /\ MaxStalled \in Nat /\ MaxFaults \in Nat
    /\ IsFiniteSet(Workers)

VARIABLES
    jstate,     \* state of each job: "wait" (or delayed), "active", ...
    made,       \* job.attemptsMade
    stalls,     \* how often BullMQ found the job stalled
    locks,      \* <<w, t>>: worker w holds the lock of job t
    pc,         \* per worker: where SettlementWorker.process is
    job,        \* per worker: the job it works on
    attempt,    \* per worker: QueueJob.attempts
    seqNo,      \* per worker: sequence number of its transaction
    account,    \* sequence number of the signer's account
    pool,       \* pending transactions: <<trade, sequence number>>
    confirmed,  \* transactions that succeeded
    reverted,   \* transactions that failed on chain
    keys,       \* trades with a settlement:processed key
    dead,       \* jobs handed to logDeadLetter
    configured, \* workers with a Stellar configuration
    offChain,   \* history: trades recorded off-chain only
    faults      \* faults so far

queueVars == <<jstate, made, stalls, locks>>
chainVars == <<account, pool, confirmed, reverted>>
modeVars == <<configured, offChain>>
vars == <<queueVars, pc, job, attempt, seqNo, chainVars, keys, dead, modeVars, faults>>

Init ==
    /\ jstate = [t \in Trades |-> "wait"]
    /\ made = [t \in Trades |-> 0]
    /\ stalls = [t \in Trades |-> 0]
    /\ locks = {}
    /\ pc = [w \in Workers |-> "idle"]
    /\ job \in {[w \in Workers |-> t] : t \in Trades}
    /\ attempt = [w \in Workers |-> 0]
    /\ seqNo = [w \in Workers |-> 0]
    /\ account = 0
    /\ pool = {}
    /\ confirmed = {}
    /\ reverted = {}
    /\ keys = {}
    /\ dead = {}
    /\ configured \in SUBSET Workers
    /\ offChain = {}
    /\ faults = 0

Fault == faults < MaxFaults /\ faults' = faults + 1

Goto(w, l) == pc' = [pc EXCEPT ![w] = l]

-----------------------------------------------------------------------------
(* One job in one worker *)

\* BullMQ hands the job to a worker, which builds the QueueJob.
Take(w, t) ==
    /\ pc[w] = "idle" /\ jstate[t] = "wait"
    /\ jstate' = [jstate EXCEPT ![t] = "active"]
    /\ locks' = locks \cup {<<w, t>>}
    /\ Goto(w, "check")
    /\ job' = [job EXCEPT ![w] = t]
    /\ attempt' = [attempt EXCEPT ![w] = made[t] + 1]
    /\ UNCHANGED <<made, stalls, seqNo, chainVars, keys, dead, faults, modeVars>>

AfterCheck(w) ==
    IF job[w] \in keys THEN "done" ELSE IF w \in configured THEN "build" ELSE "mark"

Recorded(w) == IF AfterCheck(w) = "mark" THEN {job[w]} ELSE {}

\* Mutant: the key is written before the trade is settled.
CheckAndMark(w) ==
    /\ pc[w] = "check"
    /\ Goto(w, AfterCheck(w))
    /\ keys' = keys \cup {job[w]}
    /\ offChain' = offChain \cup Recorded(w)
    /\ UNCHANGED <<queueVars, job, attempt, seqNo, chainVars, dead, configured, faults>>

\* EXISTS of the idempotency key; without a configuration the worker goes
\* straight on to writing the key.
Check(w) ==
    /\ pc[w] = "check"
    /\ Goto(w, AfterCheck(w))
    /\ offChain' = offChain \cup Recorded(w)
    /\ UNCHANGED <<queueVars, job, attempt, seqNo, chainVars, keys, dead, configured, faults>>

\* getAccount: the transaction takes the next sequence number.
Build(w) ==
    /\ pc[w] = "build"
    /\ seqNo' = [seqNo EXCEPT ![w] = account + 1]
    /\ Goto(w, "send")
    /\ UNCHANGED <<queueVars, job, attempt, chainVars, keys, dead, faults, modeVars>>

Tx(w) == <<job[w], seqNo[w]>>

\* sendTransaction: a used sequence number is status ERROR; a second pending
\* transaction of the account is TRY_AGAIN_LATER, which the code takes for
\* accepted.
Send(w) ==
    /\ pc[w] = "send"
    /\ Goto(w, IF seqNo[w] <= account THEN "fail" ELSE "poll")
    /\ pool' = IF seqNo[w] > account /\ pool = {} THEN {Tx(w)} ELSE pool
    /\ UNCHANGED <<queueVars, job, attempt, seqNo, account, confirmed, reverted,
                   keys, dead, faults, modeVars>>

\* Mutant: SUCCESS is not recognised.
PollInverted(w) ==
    /\ pc[w] = "poll"
    /\ \/ Tx(w) \in confirmed /\ Goto(w, "fail")
       \/ Tx(w) \in reverted /\ Goto(w, "fail")
    /\ UNCHANGED <<queueVars, job, attempt, seqNo, chainVars, keys, dead, faults, modeVars>>

\* getTransaction answers SUCCESS or FAILED.
PollAnswer(w) ==
    /\ pc[w] = "poll"
    /\ \/ Tx(w) \in confirmed /\ Goto(w, "mark")
       \/ Tx(w) \in reverted /\ Goto(w, "fail")
    /\ UNCHANGED <<queueVars, job, attempt, seqNo, chainVars, keys, dead, faults, modeVars>>

\* Mutant: the transaction is polled until there is an answer.
PollForever(w) == FALSE /\ UNCHANGED vars

\* 30 polls without an answer.  By then the transaction's time bounds (30 s)
\* should have passed; a network that includes it later, or has included it and
\* not said so yet, is a fault.
PollGiveUp(w) ==
    /\ pc[w] = "poll"
    /\ IF Tx(w) \in pool \cup confirmed THEN Fault ELSE UNCHANGED faults
    /\ Goto(w, "fail")
    /\ UNCHANGED <<queueVars, job, attempt, seqNo, chainVars, keys, dead, modeVars>>

\* SET of the idempotency key.
Mark(w) ==
    /\ pc[w] = "mark"
    /\ keys' = keys \cup {job[w]}
    /\ Goto(w, "done")
    /\ UNCHANGED <<queueVars, job, attempt, seqNo, chainVars, dead, faults, modeVars>>

\* A Redis or RPC call rejects; a write may have taken effect all the same.
CallFails(w) ==
    /\ pc[w] \in {"check", "build", "send", "poll", "mark"} /\ Fault
    /\ Goto(w, "fail")
    /\ pool' \in {pool, IF pc[w] = "send" /\ seqNo[w] > account /\ pool = {}
                        THEN {Tx(w)} ELSE pool}
    /\ keys' \in {keys, IF pc[w] = "mark" THEN keys \cup {job[w]} ELSE keys}
    /\ UNCHANGED <<queueVars, job, attempt, seqNo, account, confirmed, reverted, dead, modeVars>>

Unlock(w) == locks' = locks \ {<<w, job[w]>>}

\* The handler returns: BullMQ completes the job, unless the worker has lost
\* its lock.
Done(w) ==
    /\ pc[w] = "done"
    /\ Goto(w, "idle")
    /\ jstate' = IF <<w, job[w]>> \in locks
                 THEN [jstate EXCEPT ![job[w]] = "completed"] ELSE jstate
    /\ Unlock(w)
    /\ UNCHANGED <<made, stalls, job, attempt, seqNo, chainVars, keys, dead, faults, modeVars>>

\* Mutant: the dead letter is for attempts beyond the last.
FailOffByOne(w) ==
    LET t == job[w]
    IN  /\ pc[w] = "fail"
        /\ Goto(w, "idle")
        /\ dead' = IF attempt[w] > MaxAttempts THEN dead \cup {t} ELSE dead
        /\ IF <<w, t>> \in locks
           THEN /\ made' = [made EXCEPT ![t] = @ + 1]
                /\ jstate' = [jstate EXCEPT ![t] =
                                 IF made[t] + 1 < MaxAttempts THEN "wait" ELSE "failed"]
           ELSE UNCHANGED <<made, jstate>>
        /\ Unlock(w)
        /\ UNCHANGED <<stalls, job, attempt, seqNo, chainVars, keys, faults, modeVars>>

\* Mutant: a failed job is always retried.
FailRetry(w) ==
    LET t == job[w]
    IN  /\ pc[w] = "fail"
        /\ Goto(w, "idle")
        /\ made' = [made EXCEPT ![t] = @ + 1]
        /\ jstate' = [jstate EXCEPT ![t] = "wait"]
        /\ Unlock(w)
        /\ UNCHANGED <<stalls, job, attempt, seqNo, chainVars, keys, dead, faults, modeVars>>

\* The handler throws: the last attempt is dead-lettered, and BullMQ retries
\* or fails the job, unless the worker has lost its lock.
Fail(w) ==
    LET t == job[w]
    IN  /\ pc[w] = "fail"
        /\ Goto(w, "idle")
        /\ dead' = IF attempt[w] >= MaxAttempts THEN dead \cup {t} ELSE dead
        /\ IF <<w, t>> \in locks
           THEN /\ made' = [made EXCEPT ![t] = @ + 1]
                /\ jstate' = [jstate EXCEPT ![t] =
                                 IF made[t] + 1 < MaxAttempts THEN "wait" ELSE "failed"]
           ELSE UNCHANGED <<made, jstate>>
        /\ Unlock(w)
        /\ UNCHANGED <<stalls, job, attempt, seqNo, chainVars, keys, faults, modeVars>>

\* The worker process dies and is restarted.
Crash(w) ==
    /\ pc[w] # "idle" /\ Fault
    /\ Goto(w, "idle")
    /\ UNCHANGED <<queueVars, job, attempt, seqNo, chainVars, keys, dead, modeVars>>

-----------------------------------------------------------------------------
(* BullMQ and the network *)

Working(w, t) == pc[w] # "idle" /\ job[w] = t

\* The stalled check of BullMQ takes the job from a worker whose lock has
\* expired, ...
Stall(t) ==
    /\ jstate[t] = "active"
    /\ locks' = {x \in locks : x[2] # t}
    /\ stalls' = [stalls EXCEPT ![t] = @ + 1]
    /\ jstate' = [jstate EXCEPT ![t] = IF stalls[t] < MaxStalled THEN "wait" ELSE "failed"]
    /\ UNCHANGED <<made, pc, job, attempt, seqNo, chainVars, keys, dead, modeVars>>

Holder(t) == {w \in Workers : <<w, t>> \in locks /\ Working(w, t)}

\* ... because the worker died, ...
StallDead(t) == Holder(t) = {} /\ Stall(t) /\ UNCHANGED faults

\* ... or because it could not renew the lock in time and goes on, unaware.
LoseLock(t) == Holder(t) # {} /\ Stall(t) /\ Fault

\* A pending transaction enters a ledger and succeeds or fails, ...
Include(x) ==
    /\ x \in pool /\ x[2] = account + 1
    /\ account' = account + 1
    /\ pool' = pool \ {x}
    /\ \/ confirmed' = confirmed \cup {x} /\ UNCHANGED reverted
       \/ reverted' = reverted \cup {x} /\ UNCHANGED confirmed
    /\ UNCHANGED <<queueVars, pc, job, attempt, seqNo, keys, dead, faults, modeVars>>

\* ... or runs out of its time bounds.
Expire(x) ==
    /\ x \in pool
    /\ pool' = pool \ {x}
    /\ UNCHANGED <<queueVars, pc, job, attempt, seqNo, account, confirmed, reverted,
                   keys, dead, faults, modeVars>>

Idle ==
    /\ \A t \in Trades : jstate[t] \in {"completed", "failed"}
    /\ \A w \in Workers : pc[w] = "idle"
    /\ UNCHANGED vars

WorkerStep(w) ==
    \/ \E t \in Trades : Take(w, t)
    \/ Check(w) \/ Build(w) \/ Send(w) \/ PollAnswer(w) \/ PollGiveUp(w)
    \/ Mark(w) \/ Done(w) \/ Fail(w)

Network == \E x \in pool : Include(x) \/ Expire(x)

Next ==
    \/ \E w \in Workers : WorkerStep(w) \/ CallFails(w) \/ Crash(w)
    \/ \E t \in Trades : StallDead(t) \/ LoseLock(t)
    \/ Network
    \/ Idle

Spec == Init /\ [][Next]_vars

\* Redis, the RPC and the stalled check answer, the network closes ledgers.
FairSpec ==
    /\ Spec
    /\ \A w \in Workers : WF_vars(WorkerStep(w))
    /\ \A t \in Trades : WF_vars(StallDead(t))
    /\ WF_vars(Network)

-----------------------------------------------------------------------------
(* Properties *)

Txs == Trades \X Nat

TypeOK ==
    /\ jstate \in [Trades -> {"wait", "active", "completed", "failed"}]
    /\ made \in [Trades -> 0..MaxAttempts]
    /\ stalls \in [Trades -> 0..(MaxStalled + 1)]
    /\ locks \subseteq Workers \X Trades
    /\ pc \in [Workers -> {"idle", "check", "build", "send", "poll", "mark", "done", "fail"}]
    /\ job \in [Workers -> Trades]
    /\ attempt \in [Workers -> 0..MaxAttempts]
    /\ seqNo \in [Workers -> Nat]
    /\ account \in Nat
    /\ pool \subseteq Txs /\ confirmed \subseteq Txs /\ reverted \subseteq Txs
    /\ keys \subseteq Trades /\ dead \subseteq Trades
    /\ configured \subseteq Workers /\ offChain \subseteq Trades
    /\ faults \in 0..MaxFaults

Settlements(t) == {x \in confirmed : x[1] = t}

\* A trade is skipped as processed, or its job completed, only when it has been
\* settled on the chain or was recorded off-chain by a worker without a Stellar
\* configuration, of which there is one: no retry, lost lock or crash makes the
\* queue believe in a settlement that did not happen.
CompletedIsSettled ==
    /\ \A t \in Trades :
          t \in keys \/ jstate[t] = "completed" => Settlements(t) # {} \/ t \in offChain
    /\ configured = Workers => offChain = {}

\* Every settlement of a trade beyond the first needs a fault: concurrent
\* workers on one account, refused transactions, expired ones and retries
\* alone never settle a trade twice.  A transaction that outlives the worker's
\* 30 polls is such a fault.
DuplicatesNeedFaults ==
    \A t \in Trades : Cardinality(Settlements(t)) <= 1 + faults

\* A job that failed for good was dead-lettered, unless BullMQ failed it as
\* stalled, which SettlementWorker does not see.
FailedIsDeadLettered ==
    \A t \in Trades : jstate[t] = "failed" /\ stalls[t] <= MaxStalled => t \in dead

\* Every job ends, completed or failed.
EveryJobEnds ==
    \A t \in Trades : <>(jstate[t] \in {"completed", "failed"})

-----------------------------------------------------------------------------
(* The inductive invariant behind the theorems of SettlementProofs *)

\* Only an active job is locked, by one worker.
LockInv ==
    \A t \in Trades, w \in Workers : <<w, t>> \in locks =>
        /\ jstate[t] = "active"
        /\ \A v \in Workers : <<v, t>> \in locks => v = w

\* The holder of a job's lock makes its next attempt, and a job that is not
\* over has attempts and stalls left.
AttemptInv ==
    /\ \A w \in Workers : pc[w] # "idle" /\ <<w, job[w]>> \in locks =>
          attempt[w] = made[job[w]] + 1
    /\ \A t \in Trades : jstate[t] \in {"wait", "active"} =>
          made[t] < MaxAttempts /\ stalls[t] <= MaxStalled

\* A worker is past the settlement only when its transaction succeeded, or when
\* it has no configuration.
WorkInv ==
    \A w \in Workers : /\ pc[w] = "mark" => Tx(w) \in confirmed \/ job[w] \in offChain
                       /\ pc[w] = "done" => job[w] \in keys

\* The network has one pending transaction of the account, above its sequence
\* number, and each sequence number decided at most one transaction.
ChainInv ==
    /\ \A x, y \in pool : x = y
    /\ \A x \in pool : x[2] > account
    /\ \A x \in confirmed \cup reverted : x[2] <= account
    /\ confirmed \cap reverted = {}

\* What may still settle a trade without a further fault: workers on their way
\* to sendTransaction, a pending transaction, and a job that will be taken
\* again, because it waits, its worker is dead, or its worker is about to fail.
Senders(t) ==
    {w \in Workers : job[w] = t /\ (pc[w] \in {"build", "send"} \/ (pc[w] = "check" /\ t \notin keys))}

Pending(t) == \E x \in pool : x[1] = t

Failing(w) == pc[w] = "fail" \/ (pc[w] = "poll" /\ Tx(w) \notin pool \cup confirmed)

Retried(t) ==
    /\ t \notin keys
    /\ jstate[t] = "wait" \/ (jstate[t] = "active" /\ \A w \in Holder(t) : Failing(w))

Chances(t) ==
    Cardinality(Senders(t)) + (IF Pending(t) THEN 1 ELSE 0) + (IF Retried(t) THEN 1 ELSE 0)

\* Settlements and chances of another one are paid for by the faults.
ChanceInv ==
    \A t \in Trades : /\ IsFiniteSet(Settlements(t))
                      /\ Cardinality(Settlements(t)) + Chances(t) <= 1 + faults

IInv ==
    /\ TypeOK /\ LockInv /\ AttemptInv /\ WorkInv
    /\ CompletedIsSettled /\ FailedIsDeadLettered
    /\ ChainInv /\ ChanceInv
=============================================================================
