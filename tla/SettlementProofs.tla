-------------------------- MODULE SettlementProofs --------------------------
(***************************************************************************)
(* Proofs about Settlement: what counts as settled is settled, every       *)
(* settlement beyond the first needs a fault, and a job that runs out of   *)
(* attempts is dead-lettered.                                              *)
(***************************************************************************)
EXTENDS Settlement, FiniteSetTheorems, TLAPS

\* The initial states satisfy the invariant.
LEMMA InitInv == Init => IInv
<1> SUFFICES ASSUME Init PROVE IInv
  OBVIOUS
<1>1. TypeOK
  BY ConstantsAssumption DEF Init, TypeOK, Txs
<1>2. LockInv /\ AttemptInv /\ WorkInv
  BY ConstantsAssumption DEF Init, LockInv, AttemptInv, WorkInv
<1>3. CompletedIsSettled /\ FailedIsDeadLettered
  BY DEF Init, CompletedIsSettled, FailedIsDeadLettered
<1>4. ChainInv
  BY DEF Init, ChainInv
<1>5. ASSUME NEW t \in Trades
      PROVE  IsFiniteSet(Settlements(t)) /\ Cardinality(Settlements(t)) + Chances(t) <= 1 + faults
  <2>1. Settlements(t) = {} /\ Senders(t) = {} /\ ~ Pending(t) /\ faults = 0
    BY DEF Init, Settlements, Senders, Pending
  <2>2. Cardinality(Settlements(t)) = 0 /\ Cardinality(Senders(t)) = 0 /\ IsFiniteSet(Settlements(t))
    BY <2>1, FS_EmptySet
  <2> QED  BY <2>1, <2>2 DEF Chances
<1> QED  BY <1>1, <1>2, <1>3, <1>4, <1>5 DEF IInv, ChanceInv

\* The steps of a worker that leave the queue, the dead letters and the keys
\* alone.
Inner(w) ==
    Check(w) \/ Build(w) \/ Send(w) \/ PollAnswer(w) \/ PollGiveUp(w) \/ CallFails(w)

\* A step is one of these.
LEMMA StepCases ==
    ASSUME [Next]_vars
    PROVE  \/ \E w \in Workers, t \in Trades : Take(w, t)
           \/ \E w \in Workers : Inner(w) \/ Mark(w) \/ Done(w) \/ Fail(w) \/ Crash(w)
           \/ \E t \in Trades : StallDead(t) \/ LoseLock(t)
           \/ \E x \in pool : Include(x) \/ Expire(x)
           \/ UNCHANGED vars
BY DEF Next, WorkerStep, Inner, Network, Idle

\* Types are kept.
LEMMA TypeStep ==
    ASSUME IInv, [Next]_vars
    PROVE  TypeOK'
<1> USE ConstantsAssumption DEF IInv, TypeOK, Goto, modeVars
<1>1. ASSUME NEW w \in Workers, NEW t \in Trades, Take(w, t)
      PROVE  TypeOK'
  <2>1. made[t] + 1 \in 0..MaxAttempts
    BY <1>1 DEF AttemptInv, Take
  <2> QED  BY <1>1, <2>1 DEF Take, chainVars
<1>2. ASSUME NEW w \in Workers, Inner(w)
      PROVE  TypeOK'
  <2>1. Tx(w) \in Txs
    BY DEF Tx, Txs
  <2>2. CASE Check(w) \/ PollAnswer(w) \/ PollGiveUp(w)
    BY <2>2 DEF Check, AfterCheck, Recorded, PollAnswer, PollGiveUp, Fault, queueVars, chainVars
  <2>3. CASE Build(w)
    BY <2>3 DEF Build, queueVars, chainVars
  <2>4. CASE Send(w)
    BY <2>1, <2>4 DEF Send, queueVars
  <2>5. CASE CallFails(w)
    BY <2>1, <2>5 DEF CallFails, Fault, queueVars
  <2> QED  BY <1>2, <2>2, <2>3, <2>4, <2>5 DEF Inner
<1>3. ASSUME NEW w \in Workers, Mark(w) \/ Crash(w)
      PROVE  TypeOK'
  BY <1>3 DEF Mark, Crash, Fault, queueVars, chainVars
<1>4. ASSUME NEW w \in Workers, Done(w)
      PROVE  TypeOK'
  BY <1>4 DEF Done, Unlock, chainVars
<1>5. ASSUME NEW w \in Workers, Fail(w)
      PROVE  TypeOK'
  <2>1. <<w, job[w]>> \in locks => made[job[w]] + 1 \in 0..MaxAttempts
    BY DEF LockInv, AttemptInv
  <2> QED  BY <1>5, <2>1 DEF Fail, Unlock, chainVars
<1>6. ASSUME NEW t \in Trades, StallDead(t) \/ LoseLock(t)
      PROVE  TypeOK'
  <2>1. stalls[t] + 1 \in 0..(MaxStalled + 1)
    BY <1>6 DEF StallDead, LoseLock, Stall, AttemptInv
  <2> QED  BY <1>6, <2>1 DEF StallDead, LoseLock, Stall, Fault, chainVars
<1>7. ASSUME NEW x \in pool, Include(x) \/ Expire(x)
      PROVE  TypeOK'
  BY <1>7 DEF Include, Expire, Txs, queueVars
<1>8. CASE UNCHANGED vars
  BY <1>8 DEF vars, queueVars, chainVars
<1> QED
  BY <1>1, <1>2, <1>3, <1>4, <1>5, <1>6, <1>7, <1>8, StepCases

\* Locks and attempts stay in step.
LEMMA QueueStep ==
    ASSUME IInv, [Next]_vars
    PROVE  LockInv' /\ AttemptInv'
<1> USE DEF IInv, TypeOK, Goto
<1>1. ASSUME NEW w \in Workers, NEW t \in Trades, Take(w, t)
      PROVE  LockInv' /\ AttemptInv'
  <2>1. \A v \in Workers : <<v, t>> \notin locks
    BY <1>1 DEF Take, LockInv
  <2>2. LockInv'
    BY <1>1, <2>1 DEF Take, LockInv
  <2>3. AttemptInv'
    BY <1>1, <2>1 DEF Take, AttemptInv
  <2> QED  BY <2>2, <2>3
<1>2. ASSUME NEW w \in Workers, Inner(w) \/ Mark(w) \/ Crash(w)
      PROVE  LockInv' /\ AttemptInv'
  <2>1. UNCHANGED <<queueVars, job, attempt>> /\ \A v \in Workers : v # w => pc'[v] = pc[v]
    BY <1>2 DEF Inner, Check, Build, Send, PollAnswer, PollGiveUp, CallFails, Mark, Crash
  <2>2. pc'[w] # "idle" => pc[w] # "idle"
    BY <1>2 DEF Inner, Check, Build, Send, PollAnswer, PollGiveUp, CallFails, Mark, Crash
  <2> QED  BY <2>1, <2>2 DEF LockInv, AttemptInv, queueVars
<1>3. ASSUME NEW w \in Workers, Done(w) \/ Fail(w)
      PROVE  LockInv' /\ AttemptInv'
  <2>1. /\ locks' = locks \ {<<w, job[w]>>} /\ job' = job /\ attempt' = attempt
        /\ stalls' = stalls /\ pc' = [pc EXCEPT ![w] = "idle"]
    BY <1>3 DEF Done, Fail, Unlock
  <2>2. \A t \in Trades : t # job[w] \/ <<w, t>> \notin locks =>
            jstate'[t] = jstate[t] /\ made'[t] = made[t]
    BY <1>3 DEF Done, Fail
  <2>3. jstate'[job[w]] \in {"wait", "active"} =>
            made'[job[w]] < MaxAttempts \/ UNCHANGED <<jstate, made>>
    BY <1>3, ConstantsAssumption DEF Done, Fail
  <2>4. LockInv'
    BY <2>1, <2>2 DEF LockInv
  <2>5. (\A v \in Workers : pc[v] # "idle" /\ <<v, job[v]>> \in locks =>
            attempt[v] = made[job[v]] + 1)'
    BY <2>1, <2>2 DEF LockInv, AttemptInv
  <2>6. (\A t \in Trades : jstate[t] \in {"wait", "active"} =>
            made[t] < MaxAttempts /\ stalls[t] <= MaxStalled)'
    <3> SUFFICES ASSUME NEW t \in Trades, jstate'[t] \in {"wait", "active"}
                 PROVE  made'[t] < MaxAttempts /\ stalls'[t] <= MaxStalled
      OBVIOUS
    <3>1. CASE t # job[w] \/ <<w, t>> \notin locks
      BY <2>1, <2>2, <3>1 DEF AttemptInv
    <3>2. CASE t = job[w] /\ <<w, t>> \in locks
      <4>1. jstate[t] = "active"
        BY <3>2 DEF LockInv
      <4> QED  BY <2>1, <2>3, <3>2, <4>1 DEF AttemptInv
    <3> QED  BY <3>1, <3>2
  <2> QED  BY <2>4, <2>5, <2>6 DEF AttemptInv
<1>4. ASSUME NEW t \in Trades, StallDead(t) \/ LoseLock(t)
      PROVE  LockInv' /\ AttemptInv'
  <2>1. Stall(t)
    BY <1>4 DEF StallDead, LoseLock
  <2>2. LockInv'
    BY <2>1 DEF Stall, LockInv
  <2>3. AttemptInv'
    BY <2>1, ConstantsAssumption DEF Stall, AttemptInv
  <2> QED  BY <2>2, <2>3
<1>5. ASSUME NEW x \in pool, Include(x) \/ Expire(x)
      PROVE  LockInv' /\ AttemptInv'
  BY <1>5 DEF Include, Expire, LockInv, AttemptInv, queueVars
<1>6. CASE UNCHANGED vars
  BY <1>6 DEF vars, queueVars, LockInv, AttemptInv
<1> QED  BY <1>1, <1>2, <1>3, <1>4, <1>5, <1>6, StepCases

\* Settlements and keys are for good.
LEMMA Grows ==
    ASSUME [Next]_vars
    PROVE  /\ confirmed \subseteq confirmed' /\ keys \subseteq keys' /\ dead \subseteq dead'
           /\ offChain \subseteq offChain' /\ configured' = configured
BY StepCases DEF Take, Inner, Check, Build, Send, PollAnswer, PollGiveUp, CallFails, Mark,
   Done, Fail, Crash, StallDead, LoseLock, Stall, Include, Expire, vars, chainVars, modeVars

\* A worker that is past the settlement has a successful transaction, or none
\* to make.
LEMMA WorkStep ==
    ASSUME IInv, [Next]_vars
    PROVE  WorkInv'
<1> SUFFICES ASSUME NEW v \in Workers
             PROVE  /\ pc'[v] = "mark" => Tx(v)' \in confirmed' \/ job'[v] \in offChain'
                    /\ pc'[v] = "done" => job'[v] \in keys'
  BY DEF WorkInv
<1> USE DEF IInv, TypeOK, Goto
<1>0. confirmed \subseteq confirmed' /\ keys \subseteq keys' /\ offChain \subseteq offChain'
  BY Grows
<1>1. CASE pc'[v] = pc[v] /\ (pc[v] \in {"mark", "done"} => UNCHANGED <<job[v], seqNo[v]>>)
  BY <1>0, <1>1 DEF WorkInv, Tx
<1>2. CASE Check(v) \/ PollAnswer(v) \/ Mark(v)
  <2>1. CASE Check(v)
    BY <2>1 DEF Check, AfterCheck, Recorded
  <2>2. CASE PollAnswer(v)
    <3>1. Tx(v)' = Tx(v) /\ confirmed' = confirmed
      BY <2>2 DEF PollAnswer, Tx, chainVars
    <3>2. pc'[v] = "fail" \/ (pc'[v] = "mark" /\ Tx(v) \in confirmed)
      BY <2>2 DEF PollAnswer
    <3> QED  BY <3>1, <3>2
  <2>3. CASE Mark(v)
    BY <2>3 DEF Mark
  <2> QED  BY <1>2, <2>1, <2>2, <2>3
<1>3. CASE pc'[v] \notin {"mark", "done"}
  BY <1>3
<1>4. ASSUME NEW w \in Workers, NEW t \in Trades, Take(w, t)
      PROVE  \/ pc'[v] = pc[v] /\ (pc[v] \in {"mark", "done"} => UNCHANGED <<job[v], seqNo[v]>>)
             \/ pc'[v] \notin {"mark", "done"}
  BY <1>4 DEF Take
<1>5. ASSUME NEW w \in Workers,
             Inner(w) \/ Mark(w) \/ Done(w) \/ Fail(w) \/ Crash(w)
      PROVE  \/ pc'[v] = pc[v] /\ (pc[v] \in {"mark", "done"} => UNCHANGED <<job[v], seqNo[v]>>)
             \/ Check(v) \/ PollAnswer(v) \/ Mark(v)
             \/ pc'[v] \notin {"mark", "done"}
  <2>1. job' = job /\ \A u \in Workers : u # w => pc'[u] = pc[u] /\ seqNo'[u] = seqNo[u]
    BY <1>5 DEF Inner, Check, Build, Send, PollAnswer, PollGiveUp, CallFails, Mark, Done,
       Fail, Crash
  <2>2. CASE v # w
    BY <2>1, <2>2
  <2>3. CASE v = w /\ (Check(w) \/ PollAnswer(w) \/ Mark(w))
    BY <2>3
  <2>4. CASE v = w /\ (Build(w) \/ Send(w) \/ PollGiveUp(w) \/ CallFails(w))
    BY <2>4 DEF Build, Send, PollGiveUp, CallFails
  <2>5. CASE v = w /\ (Done(w) \/ Fail(w) \/ Crash(w))
    BY <2>5 DEF Done, Fail, Crash
  <2> QED  BY <1>5, <2>2, <2>3, <2>4, <2>5 DEF Inner
<1>6. ASSUME NEW t \in Trades, StallDead(t) \/ LoseLock(t)
      PROVE  UNCHANGED <<pc, job, seqNo>>
  BY <1>6 DEF StallDead, LoseLock, Stall
<1>7. ASSUME NEW x \in pool, Include(x) \/ Expire(x)
      PROVE  UNCHANGED <<pc, job, seqNo>>
  BY <1>7 DEF Include, Expire
<1>8. CASE UNCHANGED vars
  BY <1>1, <1>8 DEF vars
<1> QED
  BY <1>1, <1>2, <1>3, <1>4, <1>5, <1>6, <1>7, <1>8, StepCases

\* A key is set, or a job completed, only past a settlement or a record
\* off-chain.
LEMMA SettledStep ==
    ASSUME IInv, [Next]_vars
    PROVE  CompletedIsSettled'
<1>0. configured' = Workers => offChain' = {}
  <2>1. CASE \E w \in Workers : Check(w)
    BY <2>1 DEF Check, AfterCheck, Recorded, IInv, CompletedIsSettled
  <2>2. CASE ~ \E w \in Workers : Check(w)
    <3>1. UNCHANGED modeVars
      BY <2>2, StepCases DEF Take, Inner, Build, Send, PollAnswer, PollGiveUp, CallFails, Mark,
         Done, Fail, Crash, StallDead, LoseLock, Stall, Include, Expire, vars
    <3> QED  BY <3>1 DEF modeVars, IInv, CompletedIsSettled
  <2> QED  BY <2>1, <2>2
<1> SUFFICES ASSUME NEW t \in Trades, t \in keys' \/ jstate'[t] = "completed"
             PROVE  Settlements(t)' # {} \/ t \in offChain'
  BY <1>0 DEF CompletedIsSettled
<1> USE DEF IInv, TypeOK, Goto
<1>1. Settlements(t) # {} \/ t \in offChain
  <2>1. CASE t \in keys \/ jstate[t] = "completed"
    BY <2>1 DEF CompletedIsSettled
  <2>2. ASSUME NEW w \in Workers, pc[w] = "mark", job[w] = t
        PROVE  Settlements(t) # {} \/ t \in offChain
    <3>1. Tx(w) \in confirmed \/ t \in offChain
      BY <2>2 DEF WorkInv
    <3>2. Tx(w)[1] = t
      BY <2>2 DEF Tx
    <3>3. Tx(w) \in Settlements(t) \/ t \in offChain
      BY <3>1, <3>2 DEF Settlements
    <3> QED  BY <3>3
  <2>3. ASSUME NEW w \in Workers, pc[w] = "done", job[w] = t
        PROVE  Settlements(t) # {} \/ t \in offChain
    BY <2>3 DEF WorkInv, CompletedIsSettled
  <2>4. ASSUME NEW w \in Workers, NEW u \in Trades, Take(w, u)
        PROVE  t \in keys \/ jstate[t] = "completed"
    BY <2>4 DEF Take
  <2>5. ASSUME NEW w \in Workers,
               Inner(w) \/ Mark(w) \/ Done(w) \/ Fail(w) \/ Crash(w)
        PROVE  \/ t \in keys \/ jstate[t] = "completed"
               \/ pc[w] = "mark" /\ job[w] = t
               \/ pc[w] = "done" /\ job[w] = t
    <3>1. CASE Inner(w) \/ Crash(w)
      BY <2>5, <3>1 DEF Inner, Check, Build, Send, PollAnswer, PollGiveUp, CallFails, Crash,
         queueVars
    <3>2. CASE Mark(w)
      BY <3>2 DEF Mark, queueVars
    <3>3. CASE Done(w)
      BY <3>3 DEF Done
    <3>4. CASE Fail(w)
      BY <3>4 DEF Fail
    <3> QED  BY <2>5, <3>1, <3>2, <3>3, <3>4
  <2>6. ASSUME NEW u \in Trades, StallDead(u) \/ LoseLock(u)
        PROVE  t \in keys \/ jstate[t] = "completed"
    BY <2>6 DEF StallDead, LoseLock, Stall
  <2>7. ASSUME NEW x \in pool, Include(x) \/ Expire(x)
        PROVE  t \in keys \/ jstate[t] = "completed"
    BY <2>7 DEF Include, Expire, queueVars
  <2>8. CASE UNCHANGED vars
    BY <2>1, <2>8 DEF vars, queueVars
  <2> QED
    BY <2>1, <2>2, <2>3, <2>4, <2>5, <2>6, <2>7, <2>8, StepCases
<1> QED  BY <1>1, Grows DEF Settlements

\* The attempt that fails a job is the one that dead-letters it.
LEMMA DeadStep ==
    ASSUME IInv, [Next]_vars
    PROVE  FailedIsDeadLettered'
<1> SUFFICES ASSUME NEW t \in Trades, jstate'[t] = "failed", stalls'[t] <= MaxStalled
             PROVE  t \in dead'
  BY DEF FailedIsDeadLettered
<1> USE DEF IInv, TypeOK, Goto
<1>1. CASE jstate[t] = "failed" /\ stalls[t] = stalls'[t]
  BY <1>1, Grows DEF FailedIsDeadLettered
<1>2. ASSUME NEW w \in Workers, NEW u \in Trades, Take(w, u)
      PROVE  jstate[t] = "failed" /\ stalls[t] = stalls'[t]
  BY <1>2 DEF Take
<1>3. ASSUME NEW w \in Workers, Inner(w) \/ Mark(w) \/ Done(w) \/ Crash(w)
      PROVE  jstate[t] = "failed" /\ stalls[t] = stalls'[t]
  BY <1>3 DEF Inner, Check, Build, Send, PollAnswer, PollGiveUp, CallFails, Mark, Done,
     Crash, queueVars
<1>4. ASSUME NEW w \in Workers, Fail(w)
      PROVE  t \in dead' \/ (jstate[t] = "failed" /\ stalls[t] = stalls'[t])
  <2>1. CASE job[w] # t \/ <<w, t>> \notin locks
    BY <1>4, <2>1 DEF Fail
  <2>2. CASE job[w] = t /\ <<w, t>> \in locks
    <3>1. attempt[w] = made[t] + 1 /\ made[t] \in Nat /\ pc[w] = "fail"
      BY <1>4, <2>2 DEF AttemptInv, Fail
    <3>2. ~ (made[t] + 1 < MaxAttempts)
      BY <1>4, <2>2 DEF Fail
    <3>3. attempt[w] >= MaxAttempts
      BY <3>1, <3>2, ConstantsAssumption
    <3> QED  BY <1>4, <2>2, <3>3 DEF Fail
  <2> QED  BY <2>1, <2>2
<1>5. ASSUME NEW u \in Trades, StallDead(u) \/ LoseLock(u)
      PROVE  jstate[t] = "failed" /\ stalls[t] = stalls'[t]
  <2>1. Stall(u)
    BY <1>5 DEF StallDead, LoseLock
  <2>2. t # u
    BY <2>1, ConstantsAssumption DEF Stall
  <2> QED  BY <2>1, <2>2 DEF Stall
<1>6. ASSUME NEW x \in pool, Include(x) \/ Expire(x)
      PROVE  jstate[t] = "failed" /\ stalls[t] = stalls'[t]
  BY <1>6 DEF Include, Expire, queueVars
<1>7. CASE UNCHANGED vars
  BY <1>1, <1>7 DEF vars, queueVars
<1> QED
  BY <1>1, <1>2, <1>3, <1>4, <1>5, <1>6, <1>7, StepCases

-----------------------------------------------------------------------------
(* Settlements of one trade *)

\* One pending transaction, and no sequence number is used twice.
LEMMA ChainStep ==
    ASSUME IInv, [Next]_vars
    PROVE  ChainInv'
<1> USE DEF IInv, TypeOK
<1>1. ASSUME NEW w \in Workers, Send(w) \/ CallFails(w)
      PROVE  ChainInv'
  <2>1. account' = account /\ confirmed' = confirmed /\ reverted' = reverted
    BY <1>1 DEF Send, CallFails
  <2>2. pool' = pool \/ (pool' = {Tx(w)} /\ seqNo[w] > account)
    BY <1>1 DEF Send, CallFails
  <2>3. Tx(w)[2] = seqNo[w]
    BY DEF Tx
  <2> QED  BY <2>1, <2>2, <2>3 DEF ChainInv
<1>2. ASSUME NEW x \in pool, Include(x)
      PROVE  ChainInv'
  <2>1. x[2] = account + 1 /\ account' = account + 1 /\ pool' = {}
    BY <1>2 DEF Include, ChainInv
  <2>2. \A y \in confirmed \cup reverted : y[2] <= account /\ y[2] \in Nat /\ y # x
    BY <2>1 DEF ChainInv, Txs
  <2>3. \/ confirmed' = confirmed \cup {x} /\ reverted' = reverted
        \/ reverted' = reverted \cup {x} /\ confirmed' = confirmed
    BY <1>2 DEF Include
  <2> QED  BY <2>1, <2>2, <2>3 DEF ChainInv
<1>3. ASSUME NEW x \in pool, Expire(x)
      PROVE  ChainInv'
  BY <1>3 DEF Expire, ChainInv
<1>4. CASE UNCHANGED chainVars
  BY <1>4 DEF chainVars, ChainInv
<1>5. ASSUME NEW w \in Workers,
             \/ \E t \in Trades : Take(w, t)
             \/ Check(w) \/ Build(w) \/ PollAnswer(w) \/ PollGiveUp(w) \/ Mark(w) \/ Done(w) \/ Fail(w) \/ Crash(w)
      PROVE  UNCHANGED chainVars
  BY <1>5 DEF Take, Check, Build, PollAnswer, PollGiveUp, Mark, Done, Fail, Crash
<1>6. ASSUME NEW t \in Trades, StallDead(t) \/ LoseLock(t)
      PROVE  UNCHANGED chainVars
  BY <1>6 DEF StallDead, LoseLock, Stall
<1>7. UNCHANGED vars => UNCHANGED chainVars
  BY DEF vars
<1> QED  BY <1>1, <1>2, <1>3, <1>4, <1>5, <1>6, <1>7, StepCases DEF Inner

\* A finite set loses or gains an element.
LEMMA Counts ==
    ASSUME NEW A, NEW B, NEW w, IsFiniteSet(A)
    PROVE  /\ Cardinality(A) \in Nat
           /\ B \subseteq A => IsFiniteSet(B) /\ Cardinality(B) \in Nat /\ Cardinality(B) <= Cardinality(A)
           /\ w \in A /\ B \subseteq A \ {w} => Cardinality(B) \in Nat /\ Cardinality(B) + 1 <= Cardinality(A)
           /\ B \subseteq A \cup {w} =>
                 IsFiniteSet(B) /\ Cardinality(B) \in Nat /\ Cardinality(B) <= Cardinality(A) + 1
<1>1. Cardinality(A) \in Nat
  BY FS_CardinalityType
<1>2. ASSUME NEW D, IsFiniteSet(D), B \subseteq D
      PROVE  IsFiniteSet(B) /\ Cardinality(B) \in Nat /\ Cardinality(B) <= Cardinality(D) /\ Cardinality(D) \in Nat
  <2>1. IsFiniteSet(B) /\ Cardinality(B) <= Cardinality(D)
    BY <1>2, FS_Subset
  <2> QED  BY <1>2, <2>1, FS_CardinalityType
<1>3. /\ IsFiniteSet(A \ {w}) /\ (w \in A => Cardinality(A \ {w}) = Cardinality(A) - 1)
      /\ IsFiniteSet(A \cup {w}) /\ Cardinality(A \cup {w}) <= Cardinality(A) + 1
  <2>1. /\ IsFiniteSet(A \ {w})
        /\ Cardinality(A \ {w}) = IF w \in A THEN Cardinality(A) - 1 ELSE Cardinality(A)
    BY FS_RemoveElement, Zenon
  <2>2. /\ IsFiniteSet(A \cup {w})
        /\ Cardinality(A \cup {w}) = IF w \in A THEN Cardinality(A) ELSE Cardinality(A) + 1
    BY FS_AddElement, Zenon
  <2> QED  BY <1>1, <2>1, <2>2
<1>4. w \in A /\ B \subseteq A \ {w} => Cardinality(B) \in Nat /\ Cardinality(B) + 1 <= Cardinality(A)
  <2> SUFFICES ASSUME w \in A, B \subseteq A \ {w}
               PROVE  Cardinality(B) \in Nat /\ Cardinality(B) + 1 <= Cardinality(A)
    OBVIOUS
  <2>1. PICK D : D = A \ {w}
    OBVIOUS
  <2>2. Cardinality(B) \in Nat /\ Cardinality(B) <= Cardinality(D) /\ Cardinality(D) = Cardinality(A) - 1
    BY <1>2, <1>3, <2>1
  <2> QED  BY <1>1, <2>2
<1>5. B \subseteq A \cup {w} =>
          IsFiniteSet(B) /\ Cardinality(B) \in Nat /\ Cardinality(B) <= Cardinality(A) + 1
  <2> SUFFICES ASSUME B \subseteq A \cup {w}
               PROVE  IsFiniteSet(B) /\ Cardinality(B) \in Nat /\ Cardinality(B) <= Cardinality(A) + 1
    OBVIOUS
  <2>1. PICK D : D = A \cup {w}
    OBVIOUS
  <2>2. /\ IsFiniteSet(B) /\ Cardinality(B) \in Nat /\ Cardinality(B) <= Cardinality(D)
        /\ Cardinality(D) <= Cardinality(A) + 1 /\ Cardinality(D) \in Nat
    BY <1>2, <1>3, <2>1
  <2> QED  BY <1>1, <2>2
<1> QED  BY <1>1, <1>2, <1>4, <1>5

\* The account of one trade, in numbers.
LEMMA Balance ==
    ASSUME IInv, NEW t \in Trades
    PROVE  /\ IsFiniteSet(Settlements(t)) /\ IsFiniteSet(Senders(t)) /\ faults \in Nat
           /\ Cardinality(Settlements(t)) \in Nat /\ Cardinality(Senders(t)) \in Nat
           /\ Cardinality(Settlements(t)) + Cardinality(Senders(t)) + (IF Pending(t) THEN 1 ELSE 0)
                 + (IF Retried(t) THEN 1 ELSE 0) <= 1 + faults
<1>1. Senders(t) \subseteq Workers /\ IsFiniteSet(Workers)
  BY ConstantsAssumption DEF Senders
<1>2. IsFiniteSet(Senders(t))
  BY <1>1, FS_Subset
<1>3. IsFiniteSet(Settlements(t)) /\ Cardinality(Settlements(t)) + Chances(t) <= 1 + faults
  BY DEF IInv, ChanceInv
<1>4. Cardinality(Settlements(t)) \in Nat /\ Cardinality(Senders(t)) \in Nat
  BY <1>2, <1>3, FS_CardinalityType
<1>5. faults \in 0..MaxFaults
  BY DEF IInv, TypeOK
<1> QED  BY <1>2, <1>3, <1>4, <1>5, ConstantsAssumption DEF Chances

\* Steps that settle nothing keep the account in balance when they take a
\* chance away, turn one into another, or are a fault.
LEMMA Balanced ==
    ASSUME IInv, NEW t \in Trades, NEW w, confirmed' = confirmed,
           \/ /\ faults' = faults /\ Senders(t)' \subseteq Senders(t)
              /\ Pending(t)' => Pending(t)
              /\ Retried(t)' => Retried(t)
           \/ /\ faults' = faults /\ w \in Senders(t) /\ Senders(t)' \subseteq Senders(t) \ {w}
              /\ (Pending(t)' => Pending(t)) \/ (Retried(t)' => Retried(t))
           \/ /\ faults' = faults /\ Senders(t)' \subseteq Senders(t) \cup {w}
              /\ Pending(t)' => Pending(t)
              /\ Retried(t) /\ ~ Retried(t)'
           \/ /\ faults' = faults /\ Senders(t)' \subseteq Senders(t)
              /\ Pending(t) /\ ~ Pending(t)'
           \/ /\ faults' = faults + 1 /\ Senders(t)' \subseteq Senders(t)
              /\ Pending(t)' => Pending(t)
           \/ faults' = faults + 1 /\ w \in Senders(t) /\ Senders(t)' \subseteq Senders(t) \ {w}
    PROVE  IsFiniteSet(Settlements(t)') /\ (Cardinality(Settlements(t)) + Chances(t) <= 1 + faults)'
<1>1. PICK A, B, S : A = Senders(t) /\ B = Senders(t)' /\ S = Settlements(t)
  OBVIOUS
<1>2. Settlements(t)' = S
  BY <1>1 DEF Settlements
<1>3. /\ IsFiniteSet(S) /\ IsFiniteSet(A) /\ faults \in Nat /\ Cardinality(S) \in Nat /\ Cardinality(A) \in Nat
      /\ Cardinality(S) + Cardinality(A) + (IF Pending(t) THEN 1 ELSE 0)
            + (IF Retried(t) THEN 1 ELSE 0) <= 1 + faults
  BY <1>1, Balance
<1>4. /\ B \subseteq A => Cardinality(B) \in Nat /\ Cardinality(B) <= Cardinality(A)
      /\ w \in A /\ B \subseteq A \ {w} => Cardinality(B) \in Nat /\ Cardinality(B) + 1 <= Cardinality(A)
      /\ B \subseteq A \cup {w} => Cardinality(B) \in Nat /\ Cardinality(B) <= Cardinality(A) + 1
  BY <1>3, Counts
<1>5. PICK a, b, s, p, q, r, z :
          /\ a = Cardinality(A) /\ b = Cardinality(B) /\ s = Cardinality(S)
          /\ p = (IF Pending(t) THEN 1 ELSE 0) /\ q = (IF Pending(t)' THEN 1 ELSE 0)
          /\ r = (IF Retried(t) THEN 1 ELSE 0) /\ z = (IF Retried(t)' THEN 1 ELSE 0)
  OBVIOUS
<1>6. /\ p \in {0, 1} /\ q \in {0, 1} /\ r \in {0, 1} /\ z \in {0, 1}
      /\ ((Pending(t)' => Pending(t)) => q <= p) /\ ((Retried(t)' => Retried(t)) => z <= r)
      /\ (Pending(t) /\ ~ Pending(t)' => p = 1 /\ q = 0) /\ (Retried(t) /\ ~ Retried(t)' => r = 1 /\ z = 0)
  BY <1>5
<1>7. b \in Nat /\ s + b + q + z <= 1 + faults'
  <2>1. s \in Nat /\ a \in Nat /\ faults \in Nat /\ s + a + p + r <= 1 + faults
    BY <1>3, <1>5
  <2>2. CASE faults' = faults /\ B \subseteq A /\ q <= p /\ z <= r
    BY <1>4, <1>5, <1>6, <2>1, <2>2
  <2>3. CASE faults' = faults /\ w \in A /\ B \subseteq A \ {w} /\ (q <= p \/ z <= r)
    BY <1>4, <1>5, <1>6, <2>1, <2>3
  <2>4. CASE faults' = faults /\ B \subseteq A \cup {w} /\ q <= p /\ r = 1 /\ z = 0
    BY <1>4, <1>5, <1>6, <2>1, <2>4
  <2>5. CASE faults' = faults /\ B \subseteq A /\ p = 1 /\ q = 0
    BY <1>4, <1>5, <1>6, <2>1, <2>5
  <2>6. CASE faults' = faults + 1 /\ B \subseteq A /\ q <= p
    BY <1>4, <1>5, <1>6, <2>1, <2>6
  <2>7. CASE faults' = faults + 1 /\ w \in A /\ B \subseteq A \ {w}
    BY <1>4, <1>5, <1>6, <2>1, <2>7
  <2> QED  BY <1>1, <1>6, <2>2, <2>3, <2>4, <2>5, <2>6, <2>7
<1>8. Chances(t)' = b + q + z
  BY <1>1, <1>5 DEF Chances
<1>9. q \in Nat /\ z \in Nat /\ s \in Nat
  BY <1>3, <1>5, <1>6
<1> QED  BY <1>2, <1>3, <1>5, <1>7, <1>8, <1>9

\* The pending transaction of a trade succeeds.
LEMMA BalancedInclude ==
    ASSUME IInv, NEW t \in Trades, NEW x, Settlements(t)' \subseteq Settlements(t) \cup {x}, faults' = faults,
           Senders(t)' = Senders(t), Pending(t), ~ Pending(t)', Retried(t)' => Retried(t)
    PROVE  IsFiniteSet(Settlements(t)') /\ (Cardinality(Settlements(t)) + Chances(t) <= 1 + faults)'
<1>1. PICK A, S, T : A = Senders(t) /\ S = Settlements(t) /\ T = Settlements(t)'
  OBVIOUS
<1>2. /\ IsFiniteSet(S) /\ IsFiniteSet(A) /\ faults \in Nat /\ Cardinality(S) \in Nat /\ Cardinality(A) \in Nat
      /\ Cardinality(S) + Cardinality(A) + (IF Pending(t) THEN 1 ELSE 0)
            + (IF Retried(t) THEN 1 ELSE 0) <= 1 + faults
  BY <1>1, Balance
<1>3. IsFiniteSet(T) /\ Cardinality(T) \in Nat /\ Cardinality(T) <= Cardinality(S) + 1
  BY <1>1, <1>2, Counts
<1>4. PICK r, z : r = (IF Retried(t) THEN 1 ELSE 0) /\ z = (IF Retried(t)' THEN 1 ELSE 0)
  OBVIOUS
<1>5. r \in {0, 1} /\ z \in {0, 1} /\ z <= r
  BY <1>4
<1>6. Chances(t)' = Cardinality(A) + 0 + z
  BY <1>1, <1>4 DEF Chances
<1>7. Cardinality(S) + Cardinality(A) + 1 + r <= 1 + faults
  BY <1>2, <1>4
<1> QED  BY <1>1, <1>2, <1>3, <1>5, <1>6, <1>7

\* A step of worker w makes no other worker a sender, ...
LEMMA SendersFrame ==
    ASSUME NEW t, NEW w, keys \subseteq keys',
           \A v \in Workers : v # w => pc'[v] = pc[v] /\ job'[v] = job[v]
    PROVE  /\ Senders(t)' \subseteq Senders(t) \cup {w}
           /\ w \notin Senders(t)' => Senders(t)' \subseteq Senders(t) \ {w}
           /\ w \in Senders(t) => Senders(t)' \subseteq Senders(t)
BY DEF Senders

\* ... and makes its job one to be retried only if it holds its lock and is
\* about to fail, or dies.
LEMMA RetriedFrame ==
    ASSUME TypeOK, NEW t \in Trades, NEW w, keys \subseteq keys', pool \subseteq pool', confirmed' = confirmed,
           jstate'[t] = jstate[t], \A v \in Workers : <<v, t>> \in locks' <=> <<v, t>> \in locks,
           \A v \in Workers : v # w => pc'[v] = pc[v] /\ job'[v] = job[v] /\ seqNo'[v] = seqNo[v],
           Retried(t)', ~ Retried(t)
    PROVE  w \in Holder(t) /\ ~ Failing(w) /\ (~ Working(w, t)' \/ Failing(w)')
<1>1. t \notin keys /\ jstate[t] = "active"
  BY DEF Retried
<1>2. PICK v \in Holder(t) : ~ Failing(v)
  BY <1>1 DEF Retried
<1>3. v \in Workers /\ <<v, t>> \in locks /\ Working(v, t)
  BY <1>2 DEF Holder
<1>4. \A u \in Holder(t)' : Failing(u)'
  BY <1>1 DEF Retried
<1>5. v = w
  <2> SUFFICES ASSUME v # w PROVE FALSE
    OBVIOUS
  <2>1. pc'[v] = pc[v] /\ job'[v] = job[v] /\ seqNo'[v] = seqNo[v]
    BY <1>3
  <2>2. v \in Holder(t)'
    BY <1>3, <2>1 DEF Holder, Working
  <2>3. Failing(v)'
    BY <1>4, <2>2
  <2>4. Tx(v)' = Tx(v)
    BY <2>1 DEF Tx
  <2> QED  BY <1>2, <2>1, <2>3, <2>4 DEF Failing
<1>6. CASE ~ Working(w, t)'
  BY <1>2, <1>5, <1>6
<1>7. CASE Working(w, t)'
  <2>1. w \in Holder(t)'
    BY <1>3, <1>5, <1>7 DEF Holder
  <2>2. Failing(w)'
    BY <1>4, <2>1
  <2> QED  BY <1>2, <1>5, <2>2
<1> QED  BY <1>6, <1>7

\* The claim of ChanceInv about one trade.
ChanceOf(t) == IsFiniteSet(Settlements(t)) /\ Cardinality(Settlements(t)) + Chances(t) <= 1 + faults

\* The steps of a worker on its job.
LEMMA InnerChance ==
    ASSUME IInv, NEW w \in Workers, Inner(w) \/ Mark(w) \/ Crash(w), NEW t \in Trades
    PROVE  ChanceOf(t)'
<1> USE DEF IInv, TypeOK, Goto
<1>1. /\ job' = job /\ jstate' = jstate /\ locks' = locks /\ confirmed' = confirmed /\ reverted' = reverted
      /\ \A v \in Workers : v # w => pc'[v] = pc[v] /\ seqNo'[v] = seqNo[v]
      /\ keys \subseteq keys'
  BY DEF Inner, Check, Build, Send, PollAnswer, PollGiveUp, CallFails, Mark, Crash, queueVars, chainVars
<1>2. /\ pool' = pool \/ (pool = {} /\ pool' = {Tx(w)} /\ pc[w] = "send")
      /\ Tx(w)[1] = job[w]
  BY DEF Inner, Check, Build, Send, PollAnswer, PollGiveUp, CallFails, Mark, Crash, chainVars, Tx
<1>3. pool \subseteq pool'
  BY <1>2
<1>4. /\ Senders(t)' \subseteq Senders(t) \cup {w}
      /\ w \notin Senders(t)' => Senders(t)' \subseteq Senders(t) \ {w}
      /\ w \in Senders(t) => Senders(t)' \subseteq Senders(t)
  BY <1>1, SendersFrame
<1>5. Retried(t)' /\ ~ Retried(t) => w \in Holder(t) /\ ~ Failing(w) /\ (~ Working(w, t)' \/ Failing(w)')
  <2>1. /\ TypeOK /\ jstate'[t] = jstate[t] /\ \A v \in Workers : <<v, t>> \in locks' <=> <<v, t>> \in locks
        /\ \A v \in Workers : v # w => pc'[v] = pc[v] /\ job'[v] = job[v] /\ seqNo'[v] = seqNo[v]
    BY <1>1
  <2> HIDE DEF IInv, TypeOK
  <2> QED  BY <1>1, <1>3, <2>1, RetriedFrame
<1>6. faults' = faults \/ (faults' = faults + 1 /\ (CallFails(w) \/ Crash(w) \/ PollGiveUp(w)))
  BY DEF Inner, Check, Build, Send, PollAnswer, PollGiveUp, CallFails, Mark, Crash, Fault
<1>7. CASE job[w] # t
  <2>1. w \notin Senders(t)' /\ w \notin Senders(t)
    BY <1>1, <1>7 DEF Senders
  <2>2. Senders(t)' \subseteq Senders(t)
    BY <1>4, <2>1
  <2>3. Pending(t)' => Pending(t)
    BY <1>2, <1>7 DEF Pending
  <2>4. Retried(t)' => Retried(t)
    BY <1>5, <1>7 DEF Holder, Working
  <2> HIDE DEF IInv, TypeOK
  <2> QED  BY <1>1, <1>6, <2>2, <2>3, <2>4, Balanced DEF ChanceOf
<1>8. CASE job[w] = t /\ (Check(w) \/ Build(w) \/ Mark(w))
  <2>1. pool' = pool /\ faults' = faults
    BY <1>8 DEF Check, Build, Mark, chainVars
  <2>2. pc'[w] \in {"done", "mark", "build", "send"}
    BY <1>8 DEF Check, AfterCheck, Build, Mark
  <2>3. Senders(t)' \subseteq Senders(t)
    <3>1. CASE pc'[w] \in {"done", "mark"}
      <4>1. w \notin Senders(t)'
        BY <3>1 DEF Senders
      <4> QED  BY <1>4, <4>1
    <3>2. CASE pc'[w] \notin {"done", "mark"}
      <4>1. w \in Senders(t)
        BY <1>8, <3>2 DEF Check, AfterCheck, Build, Mark, Senders
      <4> QED  BY <1>4, <4>1
    <3> QED  BY <3>1, <3>2
  <2>4. Working(w, t)' /\ ~ Failing(w)'
    BY <1>1, <1>8, <2>2 DEF Working, Failing
  <2>5. Retried(t)' => Retried(t)
    BY <1>5, <2>4
  <2>6. Pending(t)' => Pending(t)
    BY <2>1 DEF Pending
  <2> HIDE DEF IInv, TypeOK
  <2> QED  BY <1>1, <2>1, <2>3, <2>5, <2>6, Balanced DEF ChanceOf
<1>9. CASE job[w] = t /\ Send(w)
  <2>1. /\ pc[w] = "send" /\ faults' = faults /\ seqNo' = seqNo
        /\ pc'[w] = IF seqNo[w] <= account THEN "fail" ELSE "poll"
        /\ pool' = IF seqNo[w] > account /\ pool = {} THEN {Tx(w)} ELSE pool
    BY <1>9 DEF Send
  <2>2. w \in Senders(t) /\ w \notin Senders(t)'
    BY <1>9, <2>1 DEF Senders
  <2>3. Senders(t)' \subseteq Senders(t) \ {w}
    BY <1>4, <2>2
  <2>4. CASE pool' = pool
    <3>1. Pending(t)' => Pending(t)
      BY <2>4 DEF Pending
    <3> HIDE DEF IInv, TypeOK
    <3> QED  BY <1>1, <2>1, <2>2, <2>3, <3>1, Balanced DEF ChanceOf
  <2>5. CASE pool' # pool
    <3>1. pc'[w] = "poll" /\ pool' = {Tx(w)}
      BY <2>1, <2>5
    <3>2. Tx(w)' = Tx(w)
      BY <1>1, <2>1 DEF Tx
    <3>3. Working(w, t)' /\ ~ Failing(w)'
      BY <1>1, <1>9, <3>1, <3>2 DEF Working, Failing
    <3>4. Retried(t)' => Retried(t)
      BY <1>5, <3>3
    <3> HIDE DEF IInv, TypeOK
    <3> QED  BY <1>1, <2>1, <2>2, <2>3, <3>4, Balanced DEF ChanceOf
  <2> QED  BY <2>4, <2>5
<1>10. CASE job[w] = t /\ (PollAnswer(w) \/ PollGiveUp(w))
  <2>1. pool' = pool /\ pc[w] = "poll" /\ pc'[w] \in {"mark", "fail"}
    BY <1>10 DEF PollAnswer, PollGiveUp, chainVars
  <2>2. w \notin Senders(t)'
    BY <2>1 DEF Senders
  <2>3. Senders(t)' \subseteq Senders(t)
    BY <1>4, <2>2
  <2>0. CASE faults' = faults + 1
    <3>1. Pending(t)' => Pending(t)
      BY <2>1 DEF Pending
    <3> HIDE DEF IInv, TypeOK
    <3> QED  BY <1>1, <2>0, <2>3, <3>1, Balanced DEF ChanceOf
  <2> SUFFICES ASSUME faults' # faults + 1 PROVE ChanceOf(t)'
    BY <2>0
  <2>7. faults' = faults
    BY <1>6
  <2>4. Failing(w) \/ (Working(w, t)' /\ ~ Failing(w)')
    <3>1. CASE pc'[w] = "mark"
      BY <1>1, <1>10, <3>1 DEF Working, Failing
    <3>2. CASE pc'[w] = "fail"
      <4>1. Tx(w) \in reverted \/ Tx(w) \notin pool \cup confirmed
        BY <1>10, <2>7, <3>2 DEF PollAnswer, PollGiveUp, Fault
      <4>2. Tx(w) \in reverted => Tx(w) \notin pool \cup confirmed
        <5>1. Tx(w) \in Txs
          BY DEF Tx, Txs
        <5>2. Tx(w)[2] \in Nat
          BY <5>1 DEF Txs
        <5> QED  BY <5>2 DEF ChainInv
      <4> QED  BY <2>1, <4>1, <4>2 DEF Failing
    <3> QED  BY <2>1, <3>1, <3>2
  <2>5. Retried(t)' => Retried(t)
    BY <1>5, <2>4
  <2>6. Pending(t)' => Pending(t)
    BY <2>1 DEF Pending
  <2> HIDE DEF IInv, TypeOK
  <2> QED  BY <1>1, <2>1, <2>3, <2>5, <2>6, <2>7, Balanced DEF ChanceOf
<1>11. CASE job[w] = t /\ (CallFails(w) \/ Crash(w))
  <2>1. faults' = faults + 1 /\ pc'[w] \in {"fail", "idle"}
    BY <1>11 DEF CallFails, Crash, Fault
  <2>2. w \notin Senders(t)'
    BY <2>1 DEF Senders
  <2>3. Senders(t)' \subseteq Senders(t) \ {w}
    BY <1>4, <2>2
  <2>4. CASE pool' = pool
    <3>1. Pending(t)' => Pending(t)
      BY <2>4 DEF Pending
    <3>2. Senders(t)' \subseteq Senders(t)
      BY <2>3
    <3> HIDE DEF IInv, TypeOK
    <3> QED  BY <1>1, <2>1, <3>1, <3>2, Balanced DEF ChanceOf
  <2>5. CASE pool' # pool
    <3>1. w \in Senders(t)
      BY <1>2, <1>11, <2>5 DEF Senders
    <3> HIDE DEF IInv, TypeOK
    <3> QED  BY <1>1, <2>1, <2>3, <3>1, Balanced DEF ChanceOf
  <2> QED  BY <2>4, <2>5
<1> QED  BY <1>7, <1>8, <1>9, <1>10, <1>11 DEF Inner

\* A worker takes a job: the chance that it is taken becomes that it is sent.
LEMMA TakeChance ==
    ASSUME IInv, NEW w \in Workers, NEW u \in Trades, Take(w, u), NEW t \in Trades
    PROVE  ChanceOf(t)'
<1> USE DEF IInv, TypeOK, Goto
<1>1. /\ pc[w] = "idle" /\ jstate[u] = "wait" /\ pc' = [pc EXCEPT ![w] = "check"] /\ job' = [job EXCEPT ![w] = u]
      /\ jstate' = [jstate EXCEPT ![u] = "active"] /\ locks' = locks \cup {<<w, u>>} /\ seqNo' = seqNo
      /\ pool' = pool /\ confirmed' = confirmed /\ keys' = keys /\ faults' = faults
  BY DEF Take, chainVars
<1>2. \A v \in Workers : v # w => pc'[v] = pc[v] /\ job'[v] = job[v] /\ seqNo'[v] = seqNo[v]
  BY <1>1
<1>3. /\ Senders(t)' \subseteq Senders(t) \cup {w}
      /\ w \notin Senders(t)' => Senders(t)' \subseteq Senders(t) \ {w}
  BY <1>1, <1>2, SendersFrame
<1>4. Pending(t)' => Pending(t)
  BY <1>1 DEF Pending
<1>5. CASE u # t
  <2>1. w \notin Senders(t)' /\ w \notin Holder(t)
    BY <1>1, <1>5 DEF Senders, Holder, Working
  <2>2. jstate'[t] = jstate[t] /\ \A v \in Workers : <<v, t>> \in locks' <=> <<v, t>> \in locks
    BY <1>1, <1>5
  <2>3. Senders(t)' \subseteq Senders(t)
    BY <1>3, <2>1
  <2>4. TypeOK /\ keys \subseteq keys' /\ pool \subseteq pool'
    BY <1>1
  <2> HIDE DEF IInv, TypeOK
  <2>5. Retried(t)' => Retried(t)
    BY <1>1, <1>2, <2>1, <2>2, <2>4, RetriedFrame
  <2> QED  BY <1>1, <1>4, <2>3, <2>5, Balanced DEF ChanceOf
<1>6. CASE u = t
  <2>1. <<w, t>> \in locks' /\ pc'[w] = "check" /\ job'[w] = t /\ jstate'[t] = "active"
    BY <1>1, <1>6
  <2>2. w \in Holder(t)' /\ ~ Failing(w)'
    BY <2>1 DEF Holder, Working, Failing
  <2>3. ~ Retried(t)'
    BY <2>1, <2>2 DEF Retried
  <2>4. CASE t \in keys
    <3>1. w \notin Senders(t)'
      BY <1>1, <2>1, <2>4 DEF Senders
    <3>2. Senders(t)' \subseteq Senders(t)
      BY <1>3, <3>1
    <3> HIDE DEF IInv, TypeOK
    <3> QED  BY <1>1, <1>4, <2>3, <3>2, Balanced DEF ChanceOf
  <2>5. CASE t \notin keys
    <3>1. Retried(t)
      BY <1>1, <1>6, <2>5 DEF Retried
    <3> HIDE DEF IInv, TypeOK
    <3> QED  BY <1>1, <1>3, <1>4, <2>3, <3>1, Balanced DEF ChanceOf
  <2> QED  BY <2>4, <2>5
<1> QED  BY <1>5, <1>6

\* The handler ends: a completed job has its key, a failed one was to be
\* retried already, and one that was taken from the worker stays as it is.
LEMMA EndChance ==
    ASSUME IInv, NEW w \in Workers, Done(w) \/ Fail(w), NEW t \in Trades
    PROVE  ChanceOf(t)'
<1> USE DEF IInv, TypeOK, Goto
<1>1. /\ pc[w] \in {"done", "fail"} /\ pc' = [pc EXCEPT ![w] = "idle"] /\ job' = job /\ seqNo' = seqNo
      /\ locks' = locks \ {<<w, job[w]>>}
      /\ pool' = pool /\ confirmed' = confirmed /\ keys' = keys /\ faults' = faults
  BY DEF Done, Fail, Unlock, chainVars
<1>2. \A v \in Workers : v # w => pc'[v] = pc[v] /\ job'[v] = job[v] /\ seqNo'[v] = seqNo[v]
  BY <1>1
<1>3. w \notin Senders(t)'
  BY <1>1 DEF Senders
<1>4. Senders(t)' \subseteq Senders(t)
  BY <1>1, <1>2, <1>3, SendersFrame
<1>5. Pending(t)' => Pending(t)
  BY <1>1 DEF Pending
<1>6. Retried(t)' => Retried(t)
  <2>1. CASE job[w] # t \/ <<w, t>> \notin locks
    <3>1. w \notin Holder(t)
      BY <2>1 DEF Holder, Working
    <3>2. jstate'[t] = jstate[t] /\ \A v \in Workers : <<v, t>> \in locks' <=> <<v, t>> \in locks
      BY <1>1, <2>1 DEF Done, Fail
    <3>3. TypeOK /\ keys \subseteq keys' /\ pool \subseteq pool'
      BY <1>1
    <3> HIDE DEF IInv, TypeOK
    <3> QED  BY <1>1, <1>2, <3>1, <3>2, <3>3, RetriedFrame
  <2>2. CASE job[w] = t /\ <<w, t>> \in locks /\ Done(w)
    <3>1. t \in keys
      BY <2>2 DEF WorkInv, Done
    <3> QED  BY <1>1, <3>1 DEF Retried
  <2>3. CASE job[w] = t /\ <<w, t>> \in locks /\ Fail(w)
    <3>1. jstate[t] = "active" /\ \A v \in Workers : <<v, t>> \in locks => v = w
      BY <2>3 DEF LockInv
    <3>2. \A v \in Holder(t) : Failing(v)
      BY <2>3, <3>1 DEF Holder, Failing, Fail
    <3> QED  BY <1>1, <3>1, <3>2 DEF Retried
  <2> QED  BY <2>1, <2>2, <2>3
<1> HIDE DEF IInv, TypeOK
<1> QED  BY <1>1, <1>4, <1>5, <1>6, Balanced DEF ChanceOf

\* A stalled job whose worker is dead was to be retried already; taking it from
\* a worker that goes on is a fault.
LEMMA StallChance ==
    ASSUME IInv, NEW u \in Trades, StallDead(u) \/ LoseLock(u), NEW t \in Trades
    PROVE  ChanceOf(t)'
<1> USE DEF IInv, TypeOK
<1>1. /\ jstate[u] = "active" /\ locks' = {x \in locks : x[2] # u} /\ pc' = pc /\ job' = job /\ seqNo' = seqNo
      /\ pool' = pool /\ confirmed' = confirmed /\ keys' = keys
      /\ \A z \in Trades : z # u => jstate'[z] = jstate[z]
  BY DEF StallDead, LoseLock, Stall, chainVars
<1>2. Senders(t)' \subseteq Senders(t) /\ (Pending(t)' => Pending(t))
  BY <1>1 DEF Senders, Pending
<1>3. CASE LoseLock(u)
  <2>1. faults' = faults + 1
    BY <1>3 DEF LoseLock, Fault
  <2> HIDE DEF IInv, TypeOK
  <2> QED  BY <1>1, <1>2, <2>1, Balanced DEF ChanceOf
<1>4. CASE StallDead(u)
  <2>1. faults' = faults /\ Holder(u) = {}
    BY <1>4 DEF StallDead
  <2>2. Retried(t)' => Retried(t)
    <3>1. CASE u = t
      BY <1>1, <2>1, <3>1 DEF Retried
    <3>2. CASE u # t
      <4>1. jstate'[t] = jstate[t] /\ \A v \in Workers : <<v, t>> \in locks' <=> <<v, t>> \in locks
        BY <1>1, <3>2
      <4>2. Holder(t)' = Holder(t)
        BY <1>1, <4>1 DEF Holder, Working
      <4>3. \A v \in Workers : Failing(v)' <=> Failing(v)
        BY <1>1 DEF Failing, Tx
      <4> QED  BY <1>1, <4>1, <4>2, <4>3 DEF Retried, Holder
    <3> QED  BY <3>1, <3>2
  <2> HIDE DEF IInv, TypeOK
  <2> QED  BY <1>1, <1>2, <2>1, <2>2, Balanced DEF ChanceOf
<1> QED  BY <1>3, <1>4

\* The network decides the pending transaction.
LEMMA NetworkChance ==
    ASSUME IInv, NEW x \in pool, Include(x) \/ Expire(x), NEW t \in Trades
    PROVE  ChanceOf(t)'
<1> USE DEF IInv, TypeOK
<1>1. /\ jstate' = jstate /\ locks' = locks /\ pc' = pc /\ job' = job /\ seqNo' = seqNo
      /\ keys' = keys /\ faults' = faults /\ pool' = {} /\ pool = {x}
      /\ confirmed' = confirmed \/ confirmed' = confirmed \cup {x}
  BY DEF Include, Expire, ChainInv, queueVars
<1>2. Senders(t)' = Senders(t) /\ ~ Pending(t)' /\ (Pending(t) <=> x[1] = t)
  BY <1>1 DEF Senders, Pending
<1>3. ASSUME x[1] # t \/ confirmed' = confirmed \cup {x}
      PROVE  Retried(t)' => Retried(t)
  <2>1. Holder(t)' = Holder(t)
    BY <1>1 DEF Holder, Working
  <2>2. ASSUME NEW v \in Holder(t), Failing(v)' PROVE Failing(v)
    <3>1. Tx(v)' = Tx(v) /\ job[v] = t
      BY <1>1 DEF Tx, Holder, Working
    <3>2. Tx(v)[1] = t
      BY <3>1 DEF Tx
    <3>3. pc[v] = "poll" => Tx(v) \notin pool' \cup confirmed'
      BY <1>1, <2>2, <3>1 DEF Failing
    <3>4. pc[v] = "poll" => Tx(v) # x /\ Tx(v) \notin confirmed
      BY <1>1, <1>3, <3>2, <3>3
    <3> QED  BY <1>1, <2>2, <3>4 DEF Failing
  <2> QED  BY <1>1, <2>1, <2>2 DEF Retried
<1>4. CASE confirmed' = confirmed
  <2>1. CASE x[1] = t
    <3> HIDE DEF IInv, TypeOK
    <3> QED  BY <1>1, <1>2, <1>4, <2>1, Balanced DEF ChanceOf
  <2>2. CASE x[1] # t
    <3> HIDE DEF IInv, TypeOK
    <3> QED  BY <1>1, <1>2, <1>3, <1>4, <2>2, Balanced DEF ChanceOf
  <2> QED  BY <2>1, <2>2
<1>5. CASE confirmed' = confirmed \cup {x} /\ x[1] = t
  <2>1. Settlements(t)' \subseteq Settlements(t) \cup {x}
    BY <1>5 DEF Settlements
  <2>2. Retried(t)' => Retried(t)
    BY <1>3, <1>5
  <2> HIDE DEF IInv, TypeOK
  <2> QED  BY <1>1, <1>2, <1>5, <2>1, <2>2, BalancedInclude DEF ChanceOf
<1>6. CASE confirmed' = confirmed \cup {x} /\ x[1] # t
  <2>1. Settlements(t)' = Settlements(t)
    BY <1>6 DEF Settlements
  <2>2. (Retried(t)' => Retried(t)) /\ ~ Pending(t) /\ ~ Pending(t)'
    BY <1>2, <1>3, <1>6
  <2> HIDE DEF IInv, TypeOK
  <2>3. IsFiniteSet(Settlements(t)) /\ Cardinality(Settlements(t)) \in Nat /\ Cardinality(Senders(t)) \in Nat
    BY Balance
  <2>4. Cardinality(Settlements(t)) + Cardinality(Senders(t)) + (IF Pending(t) THEN 1 ELSE 0)
            + (IF Retried(t) THEN 1 ELSE 0) <= 1 + faults /\ faults \in Nat
    BY Balance
  <2>5. Chances(t)' = Cardinality(Senders(t)) + 0 + (IF Retried(t)' THEN 1 ELSE 0)
    BY <1>2, <2>2 DEF Chances
  <2>6. PICK s, n, r, z : /\ s = Cardinality(Settlements(t)) /\ n = Cardinality(Senders(t))
                          /\ r = (IF Retried(t) THEN 1 ELSE 0) /\ z = (IF Retried(t)' THEN 1 ELSE 0)
    OBVIOUS
  <2>7. r \in {0, 1} /\ z \in {0, 1} /\ z <= r /\ s \in Nat /\ n \in Nat /\ s + n + 0 + r <= 1 + faults
    BY <2>2, <2>3, <2>4, <2>6
  <2>8. s + (n + 0 + z) <= 1 + faults
    BY <2>4, <2>7
  <2> QED  BY <1>1, <2>1, <2>3, <2>5, <2>6, <2>8 DEF ChanceOf
<1> QED  BY <1>1, <1>4, <1>5, <1>6

LEMMA ChanceStep ==
    ASSUME IInv, [Next]_vars
    PROVE  ChanceInv'
<1>1. ASSUME NEW t \in Trades PROVE ChanceOf(t)'
  <2>1. CASE UNCHANGED vars
    <3>1. Senders(t)' = Senders(t) /\ (Pending(t)' <=> Pending(t)) /\ (Retried(t)' <=> Retried(t))
      BY <2>1 DEF vars, queueVars, chainVars, Senders, Pending, Retried, Holder, Working, Failing, Tx
    <3>2. confirmed' = confirmed /\ faults' = faults
      BY <2>1 DEF vars, chainVars
    <3> QED  BY <3>1, <3>2, Balanced DEF ChanceOf
  <2> QED  BY <2>1, StepCases, InnerChance, TakeChance, EndChance, StallChance, NetworkChance
<1> QED  BY <1>1 DEF ChanceInv, ChanceOf

-----------------------------------------------------------------------------

\* The invariant is inductive, for any trades, workers and limits.
THEOREM InductiveInvariant == Spec => []IInv
<1>1. IInv /\ [Next]_vars => IInv'
  BY TypeStep, QueueStep, WorkStep, SettledStep, DeadStep, ChainStep, ChanceStep DEF IInv
<1> QED  BY <1>1, InitInv, PTL DEF Spec

\* Types are kept; in particular no job gets more than MaxAttempts attempts.
THEOREM TypeCorrect == Spec => []TypeOK
<1>1. IInv => TypeOK
  BY DEF IInv
<1> QED  BY <1>1, InductiveInvariant, PTL

\* An idempotency key or a completed job always stands for a settlement, or for
\* a trade that a worker without a Stellar configuration recorded off-chain; when
\* all workers have one, for a settlement.
THEOREM CompletedTradesAreSettled == Spec => []CompletedIsSettled
<1>1. IInv => CompletedIsSettled
  BY DEF IInv
<1> QED  BY <1>1, InductiveInvariant, PTL

\* A job that runs out of attempts has been dead-lettered.
THEOREM FailedJobsAreDeadLettered == Spec => []FailedIsDeadLettered
<1>1. IInv => FailedIsDeadLettered
  BY DEF IInv
<1> QED  BY <1>1, InductiveInvariant, PTL

\* Every settlement of a trade beyond the first was paid for by a fault: without
\* one, the ways in which a trade may still be settled (a worker on its way to
\* sendTransaction, the pending transaction, the job that is tried again) turn
\* into each other, and a settlement uses one up.
THEOREM NoDuplicateWithoutFault == Spec => []DuplicatesNeedFaults
<1>1. ASSUME IInv PROVE DuplicatesNeedFaults
  <2> SUFFICES ASSUME NEW t \in Trades PROVE Cardinality(Settlements(t)) <= 1 + faults
    BY DEF DuplicatesNeedFaults
  <2> QED  BY <1>1, Balance
<1> QED  BY <1>1, InductiveInvariant, PTL
=============================================================================
