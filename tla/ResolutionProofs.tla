-------------------------- MODULE ResolutionProofs --------------------------
(***************************************************************************)
(* Proofs about Resolution: one final resolution per market, and none      *)
(* before its candidate's challenge window is over.                        *)
(***************************************************************************)
EXTENDS Resolution, TLAPS

\* The initial states satisfy the invariant.
LEMMA InitInv == Init => IInv
<1> SUFFICES ASSUME Init PROVE IInv
  OBVIOUS
<1>1. TypeOK
  BY ConstantsAssumption DEF Init, TypeOK, Outcomes
<1>2. ResolvedOnce /\ WindowRespected /\ BatchInv
  BY DEF Init, ResolvedOnce, Unresolved, WindowRespected, BatchInv
<1> QED  BY <1>1, <1>2 DEF IInv

\* What findMany returns is of the right type and old enough.
LEMMA Selected ==
    ASSUME IInv, NEW S,
           S = {[id |-> c, market |-> marketOf[c], outcome |-> proposed[c]] :
                   c \in {d \in Candidates : Eligible(d)}}
    PROVE  /\ S \subseteq Snapshot
           /\ \A s \in S : cstatus[s.id] # "none" /\ createdAt[s.id] + Window <= clock
<1>1. ASSUME NEW s \in S
      PROVE  s \in Snapshot /\ cstatus[s.id] # "none" /\ createdAt[s.id] + Window <= clock
  <2>1. PICK c \in {d \in Candidates : Eligible(d)} :
            s = [id |-> c, market |-> marketOf[c], outcome |-> proposed[c]]
    BY <1>1
  <2>2. marketOf[c] \in Markets /\ proposed[c] \in Outcomes
    BY DEF IInv, TypeOK
  <2>3. s \in Snapshot /\ s.id = c
    BY <2>1, <2>2 DEF Snapshot
  <2> QED  BY <2>1, <2>3 DEF Eligible
<1> QED  BY <1>1

\* Types are kept.
LEMMA TypeStep ==
    ASSUME IInv, [Next]_vars
    PROVE  TypeOK'
<1> USE DEF IInv, TypeOK
<1>1. CASE Tick
  BY <1>1, ConstantsAssumption DEF Tick, candVars, marketVars
<1>2. CASE \E c \in Candidates : IndexCandidate(c) \/ RejectCandidate(c)
  BY <1>2, ConstantsAssumption
     DEF IndexCandidate, RejectCandidate, Create, Fault, candVars, marketVars
<1>3. CASE \E c \in Candidates, o \in Outcomes : ProposeNew(c, o) \/ ProposeAgain(c, o)
  BY <1>3, ConstantsAssumption DEF ProposeNew, ProposeAgain, Create, candVars, marketVars
<1>4. CASE \E w \in Workers : SelectCandidates(w)
  <2>1. PICK w \in Workers : SelectCandidates(w)
    BY <1>4
  <2>2. DEFINE S == {[id |-> c, market |-> marketOf[c], outcome |-> proposed[c]] :
                        c \in {d \in Candidates : Eligible(d)}}
  <2>3. S \subseteq Snapshot
    BY Selected
  <2>4. batch' = [batch EXCEPT ![w] = S]
    BY <2>1 DEF SelectCandidates
  <2> HIDE DEF S
  <2>5. batch' \in [Workers -> SUBSET Snapshot]
    BY <2>3, <2>4
  <2> QED  BY <2>1, <2>5 DEF SelectCandidates, candVars, marketVars
<1>5. CASE \E w \in Workers : \E s \in batch[w] : Finalize(w, s)
  <2>0. PICK w \in Workers : \E s \in batch[w] : Finalize(w, s)
    BY <1>5
  <2>1. PICK s \in batch[w] : Finalize(w, s)
    BY <2>0
  <2>2. s \in Snapshot
    OBVIOUS
  <2>3. s.id \in Candidates /\ s.market \in Markets /\ s.outcome \in Outcomes
    BY <2>2 DEF Snapshot
  <2> QED  BY <2>1, <2>2, <2>3 DEF Finalize, Drop
<1>6. CASE \E w \in Workers : \E s \in batch[w] : FinalizeConflict(w, s) \/ FinalizeFail(w, s)
  BY <1>6, ConstantsAssumption
     DEF FinalizeConflict, FinalizeFail, Drop, Fault, candVars, marketVars
<1>7. CASE \E w \in Workers : StopWorker(w)
  BY <1>7, ConstantsAssumption DEF StopWorker, Fault, candVars, marketVars
<1>8. CASE \E m \in Markets, s \in {"ACTIVE", "RESOLVED", "CANCELLED"} : SetStatus(m, s)
  BY <1>8, ConstantsAssumption DEF SetStatus, Fault, candVars
<1>9. CASE \E m \in Markets : OpenPosition(m)
  BY <1>9 DEF OpenPosition, candVars
<1>10. CASE UNCHANGED vars
  BY <1>10 DEF vars, candVars, marketVars
<1> QED
  BY <1>1, <1>2, <1>3, <1>4, <1>5, <1>6, <1>7, <1>8, <1>9, <1>10 DEF Next, Poll

\* Only Finalize touches resolutions and outcomes, and settles positions.
LEMMA OnlyFinalize ==
    ASSUME IInv, [Next]_vars, ~ \E w \in Workers : \E s \in batch[w] : Finalize(w, s)
    PROVE  /\ UNCHANGED <<resolutions, moutcome>>
           /\ \A m \in Markets : settled'[m] = "no" <=> settled[m] = "no"
<1>1. UNCHANGED <<resolutions, moutcome>>
  BY DEF Next, Poll, Tick, IndexCandidate, RejectCandidate, ProposeNew, ProposeAgain, Create,
       SelectCandidates, FinalizeConflict, FinalizeFail, StopWorker, SetStatus,
       OpenPosition, vars, marketVars
<1>2. UNCHANGED settled \/ \E m \in Markets : OpenPosition(m)
  BY DEF Next, Poll, Tick, IndexCandidate, RejectCandidate, ProposeNew, ProposeAgain, Create,
       SelectCandidates, FinalizeConflict, FinalizeFail, StopWorker, SetStatus,
       vars, marketVars
<1>3. ASSUME NEW m \in Markets, OpenPosition(m)
      PROVE  \A n \in Markets : settled'[n] = "no" <=> settled[n] = "no"
  BY <1>3 DEF OpenPosition, IInv, TypeOK
<1> QED  BY <1>1, <1>2, <1>3

\* One resolution per market, in step with its outcome and its positions.
LEMMA ResolvedOnceStep ==
    ASSUME IInv, [Next]_vars
    PROVE  ResolvedOnce'
<1>1. CASE ~ \E w \in Workers : \E s \in batch[w] : Finalize(w, s)
  <2>1. /\ UNCHANGED <<resolutions, moutcome>>
        /\ \A m \in Markets : settled'[m] = "no" <=> settled[m] = "no"
    BY <1>1, OnlyFinalize
  <2> QED  BY <2>1 DEF IInv, ResolvedOnce, Unresolved
<1>2. CASE \E w \in Workers : \E s \in batch[w] : Finalize(w, s)
  <2>0. PICK w \in Workers : \E s \in batch[w] : Finalize(w, s)
    BY <1>2
  <2>1. PICK s \in batch[w] : Finalize(w, s)
    BY <2>0
  <2>2. s.market \in Markets /\ s.outcome \in Outcomes
    <3>1. s \in Snapshot
      BY DEF IInv, TypeOK
    <3> QED  BY <3>1 DEF Snapshot
  <2>3. Unresolved(s.market) /\ resolutions' = resolutions \cup {s}
    BY <2>1 DEF Finalize
  <2>4. \A m \in Markets :
           /\ moutcome'[m] = IF m = s.market THEN s.outcome ELSE moutcome[m]
           /\ settled'[m] = IF m = s.market THEN "all" ELSE settled[m]
    BY <2>1, <2>2 DEF Finalize, IInv, TypeOK
  <2>5. \A m \in Markets : Unresolved(m)' <=> Unresolved(m) /\ m # s.market
    BY <2>3 DEF Unresolved
  <2>6. (\A r, t \in resolutions : r.market = t.market => r = t)'
    BY <2>3 DEF IInv, ResolvedOnce, Unresolved
  <2>7. (\A r \in resolutions : moutcome[r.market] = r.outcome)'
    <3>1. \A r \in resolutions : r.market \in Markets /\ r.market # s.market
                                    /\ moutcome[r.market] = r.outcome
      BY <2>3 DEF IInv, TypeOK, ResolvedOnce, Unresolved, Snapshot
    <3> QED  BY <2>2, <2>3, <2>4, <3>1
  <2>8. (\A m \in Markets : settled[m] = "no" <=> Unresolved(m))'
    BY <2>4, <2>5 DEF IInv, ResolvedOnce
  <2>9. (\A m \in Markets : moutcome[m] # "none" <=> ~ Unresolved(m))'
    <3>1. s.outcome # "none"
      BY <2>2 DEF Outcomes
    <3> QED  BY <2>4, <2>5, <3>1 DEF IInv, ResolvedOnce
  <2> QED  BY <2>6, <2>7, <2>8, <2>9 DEF ResolvedOnce
<1> QED  BY <1>1, <1>2

\* Nothing but SelectCandidates adds to a batch.
LEMMA BatchesShrink ==
    ASSUME IInv, [Next]_vars, ~ \E w \in Workers : SelectCandidates(w)
    PROVE  \A w \in Workers : batch'[w] \subseteq batch[w]
BY DEF Next, Poll, Tick, IndexCandidate, RejectCandidate, ProposeNew, ProposeAgain, Create,
       Finalize, FinalizeConflict, FinalizeFail, StopWorker, SetStatus, OpenPosition, Drop, vars,
       IInv, TypeOK

\* The rows of candidates stay, keep their age once they exist, and time does
\* not go back.
LEMMA RowsStay ==
    ASSUME IInv, [Next]_vars
    PROVE  /\ clock <= clock'
           /\ \A c \in Candidates : cstatus[c] # "none" =>
                 cstatus'[c] # "none" /\ createdAt'[c] = createdAt[c]
<1> USE DEF IInv, TypeOK
<1>1. CASE Tick
  BY <1>1 DEF Tick, candVars
<1>2. CASE \E c \in Candidates : IndexCandidate(c) \/ RejectCandidate(c)
  BY <1>2 DEF IndexCandidate, RejectCandidate, Create
<1>3. CASE \E c \in Candidates, o \in Outcomes : ProposeNew(c, o) \/ ProposeAgain(c, o)
  BY <1>3 DEF ProposeNew, ProposeAgain, Create
<1>4. CASE \E w \in Workers : SelectCandidates(w) \/ StopWorker(w)
  BY <1>4 DEF SelectCandidates, StopWorker, candVars
<1>5. CASE \E w \in Workers : \E s \in batch[w] : Finalize(w, s)
  BY <1>5 DEF Finalize
<1>6. CASE \E w \in Workers : \E s \in batch[w] : FinalizeConflict(w, s) \/ FinalizeFail(w, s)
  BY <1>6 DEF FinalizeConflict, FinalizeFail, candVars
<1>7. CASE \E m \in Markets, s \in {"ACTIVE", "RESOLVED", "CANCELLED"} : SetStatus(m, s)
  BY <1>7 DEF SetStatus, candVars
<1>8. CASE \E m \in Markets : OpenPosition(m)
  BY <1>8 DEF OpenPosition, candVars
<1>9. CASE UNCHANGED vars
  BY <1>9 DEF vars, candVars
<1> QED
  BY <1>1, <1>2, <1>3, <1>4, <1>5, <1>6, <1>7, <1>8, <1>9 DEF Next, Poll

\* What a worker works from stays old enough while it waits.
LEMMA BatchStep ==
    ASSUME IInv, [Next]_vars
    PROVE  BatchInv'
<1> SUFFICES ASSUME NEW v \in Workers, NEW s \in batch'[v]
             PROVE  cstatus'[s.id] # "none" /\ createdAt'[s.id] + Window <= clock'
  BY DEF BatchInv
<1>1. /\ s \in Snapshot
      /\ cstatus[s.id] # "none" /\ createdAt[s.id] + Window <= clock
  <2>1. CASE ~ \E w \in Workers : SelectCandidates(w)
    <3>1. s \in batch[v]
      BY <2>1, BatchesShrink
    <3> QED  BY <3>1 DEF IInv, TypeOK, BatchInv
  <2>2. CASE \E w \in Workers : SelectCandidates(w)
    <3>1. PICK w \in Workers : SelectCandidates(w)
      BY <2>2
    <3>2. DEFINE S == {[id |-> c, market |-> marketOf[c], outcome |-> proposed[c]] :
                          c \in {d \in Candidates : Eligible(d)}}
    <3>3. /\ S \subseteq Snapshot
          /\ \A t \in S : cstatus[t.id] # "none" /\ createdAt[t.id] + Window <= clock
      BY Selected
    <3>4. batch' = [batch EXCEPT ![w] = S]
      BY <3>1 DEF SelectCandidates
    <3> HIDE DEF S
    <3>5. s \in S \/ s \in batch[v]
      BY <3>4 DEF IInv, TypeOK
    <3> QED  BY <3>3, <3>5 DEF IInv, TypeOK, BatchInv
  <2> QED  BY <2>1, <2>2
<1>2. s.id \in Candidates
  BY <1>1 DEF Snapshot
<1>3. cstatus'[s.id] # "none" /\ createdAt'[s.id] = createdAt[s.id] /\ clock <= clock'
  BY <1>1, <1>2, RowsStay
<1>4. clock \in Nat /\ clock' \in Nat /\ createdAt[s.id] \in Nat /\ Window \in Nat
  BY <1>2, TypeStep, ConstantsAssumption DEF IInv, TypeOK
<1> QED  BY <1>1, <1>3, <1>4

\* A candidate becomes ACCEPTED only from a batch.
LEMMA WindowStep ==
    ASSUME IInv, [Next]_vars
    PROVE  WindowRespected'
<1> SUFFICES ASSUME NEW c \in Candidates, cstatus'[c] = "ACCEPTED"
             PROVE  createdAt'[c] + Window <= clock'
  BY DEF WindowRespected
<1>1. cstatus[c] # "none" /\ createdAt[c] + Window <= clock
  <2>1. CASE \E w \in Workers : \E s \in batch[w] : Finalize(w, s)
    <3>0. PICK w \in Workers : \E s \in batch[w] : Finalize(w, s)
      BY <2>1
    <3>1. PICK s \in batch[w] : Finalize(w, s)
      BY <3>0
    <3>2. c = s.id \/ cstatus[c] = "ACCEPTED"
      BY <3>1 DEF Finalize, IInv, TypeOK
    <3> QED  BY <3>2 DEF IInv, BatchInv, WindowRespected
  <2>2. CASE ~ \E w \in Workers : \E s \in batch[w] : Finalize(w, s)
    <3>1. cstatus[c] = "ACCEPTED"
      BY <2>2 DEF Next, Poll, Tick, IndexCandidate, RejectCandidate, ProposeNew,
             ProposeAgain, Create, SelectCandidates, FinalizeConflict, FinalizeFail,
             StopWorker, SetStatus, OpenPosition, vars, candVars, IInv, TypeOK
    <3> QED  BY <3>1 DEF IInv, WindowRespected
  <2> QED  BY <2>1, <2>2
<1>2. createdAt'[c] = createdAt[c] /\ clock <= clock'
  BY <1>1, RowsStay
<1>3. clock \in Nat /\ clock' \in Nat /\ createdAt[c] \in Nat /\ Window \in Nat
  BY TypeStep, ConstantsAssumption DEF IInv, TypeOK
<1> QED  BY <1>1, <1>2, <1>3

-----------------------------------------------------------------------------

\* The invariant is inductive: it holds in every reachable state, for any
\* markets, candidates, finalization workers and challenge window.
THEOREM InductiveInvariant == Spec => []IInv
<1>1. IInv /\ [Next]_vars => IInv'
  BY TypeStep, ResolvedOnceStep, WindowStep, BatchStep DEF IInv
<1> QED  BY <1>1, InitInv, PTL DEF Spec

\* The tables, the batches and the clock keep their types.
THEOREM TypeCorrect == Spec => []TypeOK
<1>1. IInv => TypeOK
  BY DEF IInv
<1> QED  BY <1>1, InductiveInvariant, PTL

\* Concurrent finalization workers leave one resolution per market, and its
\* positions are settled exactly when it exists, by the step that writes it;
\* positions opened afterwards change neither.
THEOREM MarketsResolvedOnce == Spec => []ResolvedOnce
<1>1. IInv => ResolvedOnce
  BY DEF IInv
<1> QED  BY <1>1, InductiveInvariant, PTL

\* No candidate is accepted inside its challenge window.
THEOREM WindowsRespected == Spec => []WindowRespected
<1>1. IInv => WindowRespected
  BY DEF IInv
<1> QED  BY <1>1, InductiveInvariant, PTL

\* No step of the system takes back or changes a resolution or an outcome.
THEOREM ResolutionsAreFinal == Spec => FinalIsFinal
<1>1. ASSUME IInv, [Next]_vars
      PROVE  [/\ resolutions \subseteq resolutions'
              /\ \A m \in Markets : moutcome[m] # "none" => moutcome'[m] = moutcome[m]]_vars
  <2>1. CASE ~ \E w \in Workers : \E s \in batch[w] : Finalize(w, s)
    BY <1>1, <2>1, OnlyFinalize
  <2>2. CASE \E w \in Workers : \E s \in batch[w] : Finalize(w, s)
    <3>0. PICK w \in Workers : \E s \in batch[w] : Finalize(w, s)
      BY <2>2
    <3>1. PICK s \in batch[w] : Finalize(w, s)
      BY <3>0
    <3>2. \A m \in Markets : moutcome[m] # "none" => m # s.market
      BY <1>1, <3>1 DEF Finalize, IInv, ResolvedOnce
    <3> QED  BY <1>1, <3>1, <3>2 DEF Finalize, IInv, TypeOK
  <2> QED  BY <2>1, <2>2
<1> QED  BY <1>1, InductiveInvariant, PTL DEF Spec, FinalIsFinal
=============================================================================
