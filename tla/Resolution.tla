----------------------------- MODULE Resolution -----------------------------
(***************************************************************************)
(* From resolution candidates to final resolutions: the oracle worker and  *)
(* the indexer write candidates, FinalizationJob                           *)
(* (apps/workers/src/finalization/job.ts) accepts those whose challenge    *)
(* window is over, the admin route changes market statuses, and the        *)
(* matching service and the indexer open positions at any time.  Several   *)
(* finalization workers may run, a restarted one beside its predecessor.   *)
(***************************************************************************)
EXTENDS Integers

CONSTANTS
    Markets,
    Candidates,   \* ids of resolution_candidates rows
    Oracle,       \* those keyed `${marketId}:${oracleAddress}` by the oracle worker
    Workers,      \* finalization workers
    Window,       \* challengeWindowSeconds
    MaxClock,     \* bound on the time modelled
    MaxFaults     \* bound on failed calls, crashes and admin requests

ASSUME ConstantsAssumption ==
    /\ Oracle \subseteq Candidates
    /\ Window \in Nat /\ MaxClock \in Nat /\ MaxFaults \in Nat

Outcomes == {"YES", "NO"}

VARIABLES
    clock,
    marketOf,     \* resolution_candidates.market_id
    cstatus,      \* resolution_candidates.status, "none" when there is no row
    proposed,     \* resolution_candidates.proposed_outcome
    createdAt,    \* resolution_candidates.created_at
    resolutions,  \* rows of resolutions, all ACTIVE
    mstatus,      \* markets.status
    moutcome,     \* markets.outcome, "none" for null
    settled,      \* the market's user_positions are settled: "no", "all", or
                  \* "partly", when rows were created after the settlement
    batch,        \* per worker: the rows of findMany still to be finalized
    faults        \* faults so far

candVars == <<cstatus, proposed, createdAt>>
marketVars == <<resolutions, mstatus, moutcome, settled>>
vars == <<clock, marketOf, candVars, marketVars, batch, faults>>

Snapshot == [id: Candidates, market: Markets, outcome: Outcomes]

Init ==
    /\ clock = 0
    /\ marketOf \in [Candidates -> Markets]
    /\ cstatus = [c \in Candidates |-> "none"]
    /\ proposed \in [Candidates -> Outcomes]
    /\ createdAt = [c \in Candidates |-> 0]
    /\ resolutions = {}
    /\ mstatus = [m \in Markets |-> "ACTIVE"]
    /\ moutcome = [m \in Markets |-> "none"]
    /\ settled = [m \in Markets |-> "no"]
    /\ batch = [w \in Workers |-> {}]
    /\ faults = 0

Fault == faults < MaxFaults /\ faults' = faults + 1

Tick ==
    /\ clock < MaxClock
    /\ clock' = clock + 1
    /\ UNCHANGED <<marketOf, candVars, marketVars, batch, faults>>

-----------------------------------------------------------------------------
(* Candidates *)

Create(c) ==
    /\ cstatus[c] = "none"
    /\ cstatus' = [cstatus EXCEPT ![c] = "PROPOSED"]
    /\ createdAt' = [createdAt EXCEPT ![c] = clock]
    /\ UNCHANGED <<clock, marketOf, marketVars, batch, faults>>

\* The indexer writes the candidate of a resolution event, once per event.
IndexCandidate(c) ==
    /\ c \in Candidates \ Oracle
    /\ Create(c)
    /\ UNCHANGED proposed

\* The upsert of the oracle worker: a new row, or a new proposedOutcome in
\* the row that is there, whatever its status and age.  The handler gets this
\* far when the report verifies; it verifies the signature against a timestamp
\* of its own, so that depends on the timestamp the provider gave the result,
\* and the model lets it happen at any time.
ProposeNew(c, o) ==
    /\ c \in Oracle
    /\ Create(c)
    /\ proposed' = [proposed EXCEPT ![c] = o]

ProposeAgain(c, o) ==
    /\ c \in Oracle /\ cstatus[c] # "none"
    /\ proposed' = [proposed EXCEPT ![c] = o]
    /\ UNCHANGED <<clock, marketOf, cstatus, createdAt, marketVars, batch, faults>>

\* updateOnFailure: a submission of the oracle ran out of attempts.
RejectCandidate(c) ==
    /\ c \in Oracle /\ cstatus[c] # "none" /\ Fault
    /\ cstatus' = [cstatus EXCEPT ![c] = "REJECTED"]
    /\ UNCHANGED <<clock, marketOf, proposed, createdAt, marketVars, batch>>

-----------------------------------------------------------------------------
(* FinalizationJob.run *)


\* Mutant: the window is measured from the wrong end.
EligibleAtOnce(c) == cstatus[c] = "PROPOSED" /\ createdAt[c] <= clock

\* createdAt <= now - window.
Eligible(c) == cstatus[c] = "PROPOSED" /\ createdAt[c] + Window <= clock


\* Mutant: only candidates of active markets are selected.
SelectActive(w) ==
    /\ batch[w] = {}
    /\ batch' = [batch EXCEPT ![w] =
                    {[id |-> c, market |-> marketOf[c], outcome |-> proposed[c]] :
                        c \in {d \in Candidates : Eligible(d) /\ mstatus[marketOf[d]] = "ACTIVE"}}]
    /\ UNCHANGED <<clock, marketOf, candVars, marketVars, faults>>

\* findMany answers: the candidates are finalized from this snapshot.
SelectCandidates(w) ==
    /\ batch[w] = {}
    /\ batch' = [batch EXCEPT ![w] =
                    {[id |-> c, market |-> marketOf[c], outcome |-> proposed[c]] :
                        c \in {d \in Candidates : Eligible(d)}}]
    /\ UNCHANGED <<clock, marketOf, candVars, marketVars, faults>>

\* Mutant: no unique index on the active resolution of a market.
NoUniqueIndex(m) == TRUE

\* The partial unique index: no ACTIVE resolution of the market yet.
Unresolved(m) == \A r \in resolutions : r.market # m

Drop(w, s) == batch' = [batch EXCEPT ![w] = @ \ {s}]


\* Mutant: the market keeps the outcome it has.
FinalizeKeepOutcome(w, s) ==
    /\ s \in batch[w] /\ Unresolved(s.market)
    /\ Drop(w, s)
    /\ resolutions' = resolutions \cup {s}
    /\ mstatus' = [mstatus EXCEPT ![s.market] = "RESOLVED"]
    /\ cstatus' = [cstatus EXCEPT ![s.id] = "ACCEPTED"]
    /\ settled' = [settled EXCEPT ![s.market] = "all"]
    /\ UNCHANGED <<clock, marketOf, proposed, createdAt, moutcome, faults>>

\* The transaction of one candidate.  Neither the candidate nor the market is
\* read again.
Finalize(w, s) ==
    /\ s \in batch[w] /\ Unresolved(s.market)
    /\ Drop(w, s)
    /\ resolutions' = resolutions \cup {s}
    /\ mstatus' = [mstatus EXCEPT ![s.market] = "RESOLVED"]
    /\ moutcome' = [moutcome EXCEPT ![s.market] = s.outcome]
    /\ cstatus' = [cstatus EXCEPT ![s.id] = "ACCEPTED"]
    /\ settled' = [settled EXCEPT ![s.market] = "all"]
    /\ UNCHANGED <<clock, marketOf, proposed, createdAt, faults>>

\* resolution.create violates the unique index: the transaction rolls back,
\* the candidate is counted as errored, the loop goes on.
FinalizeConflict(w, s) ==
    /\ s \in batch[w] /\ ~ Unresolved(s.market)
    /\ Drop(w, s)
    /\ UNCHANGED <<clock, marketOf, candVars, marketVars, faults>>

\* The transaction fails for another reason.
FinalizeFail(w, s) ==
    /\ s \in batch[w] /\ Fault
    /\ Drop(w, s)
    /\ UNCHANGED <<clock, marketOf, candVars, marketVars>>

\* The worker stops: a crash, or a shutdown, which does not wait for the poll.
StopWorker(w) ==
    /\ batch[w] # {} /\ Fault
    /\ batch' = [batch EXCEPT ![w] = {}]
    /\ UNCHANGED <<clock, marketOf, candVars, marketVars>>

-----------------------------------------------------------------------------

\* PATCH /admin/markets/:id/status.
SetStatus(m, s) ==
    /\ Fault
    /\ mstatus' = [mstatus EXCEPT ![m] = s]
    /\ UNCHANGED <<clock, marketOf, candVars, resolutions, moutcome, settled, batch>>

\* The position upserts of placeOrder and of the indexer's batch writer look at
\* no market status: they create rows, which are unsettled, at any time.  In a
\* market that is not settled such a row changes nothing of this state.
OpenPosition(m) ==
    /\ settled[m] = "all"
    /\ settled' = [settled EXCEPT ![m] = "partly"]
    /\ UNCHANGED <<clock, marketOf, candVars, resolutions, mstatus, moutcome, batch, faults>>

Poll(w) ==
    \/ SelectCandidates(w)
    \/ \E s \in batch[w] : Finalize(w, s) \/ FinalizeConflict(w, s)

Next ==
    \/ Tick
    \/ \E c \in Candidates :
          \/ IndexCandidate(c) \/ RejectCandidate(c)
          \/ \E o \in Outcomes : ProposeNew(c, o) \/ ProposeAgain(c, o)
    \/ \E w \in Workers :
          \/ Poll(w) \/ StopWorker(w)
          \/ \E s \in batch[w] : FinalizeFail(w, s)
    \/ \E m \in Markets :
          \/ OpenPosition(m)
          \/ \E s \in {"ACTIVE", "RESOLVED", "CANCELLED"} : SetStatus(m, s)

Spec == Init /\ [][Next]_vars

\* Time passes and the poll timer of a running worker fires.
FairSpec == Spec /\ WF_vars(Tick) /\ \A w \in Workers : WF_vars(Poll(w))

-----------------------------------------------------------------------------
(* Properties *)

TypeOK ==
    /\ clock \in 0..MaxClock
    /\ marketOf \in [Candidates -> Markets]
    /\ cstatus \in [Candidates -> {"none", "PROPOSED", "ACCEPTED", "REJECTED"}]
    /\ proposed \in [Candidates -> Outcomes]
    /\ createdAt \in [Candidates -> Nat]
    /\ resolutions \subseteq Snapshot
    /\ mstatus \in [Markets -> {"ACTIVE", "RESOLVED", "CANCELLED"}]
    /\ moutcome \in [Markets -> Outcomes \cup {"none"}]
    /\ settled \in [Markets -> {"no", "all", "partly"}]
    /\ batch \in [Workers -> SUBSET Snapshot]
    /\ faults \in 0..MaxFaults

\* However many candidates, workers and retries compete, a market gets one
\* resolution, and its outcome, the one settlement of its positions and its
\* resolution go together.  Positions opened later are nobody's to settle.
ResolvedOnce ==
    /\ \A r, s \in resolutions : r.market = s.market => r = s
    /\ \A m \in Markets : settled[m] = "no" <=> Unresolved(m)
    /\ \A m \in Markets : moutcome[m] # "none" <=> ~ Unresolved(m)
    /\ \A r \in resolutions : moutcome[r.market] = r.outcome

\* A resolution and its outcome are final, whatever is proposed, rejected or
\* set by an admin later.
FinalIsFinal ==
    [][/\ resolutions \subseteq resolutions'
       /\ \A m \in Markets : moutcome[m] # "none" => moutcome'[m] = moutcome[m]]_vars

\* No candidate is accepted before its row is a challenge window old, however
\* long its snapshot waited.
WindowRespected ==
    \A c \in Candidates : cstatus[c] = "ACCEPTED" => createdAt[c] + Window <= clock

\* A market with an old enough candidate is resolved in the end, unless the
\* candidate is rejected first.
EligibleIsFinalized ==
    \A c \in Candidates : Eligible(c) ~> ~ Unresolved(marketOf[c]) \/ cstatus[c] = "REJECTED"

-----------------------------------------------------------------------------
(* The inductive invariant behind the theorems of ResolutionProofs *)

\* What a worker works from was eligible when it was read.
BatchInv ==
    \A w \in Workers : \A s \in batch[w] :
        /\ cstatus[s.id] # "none"
        /\ createdAt[s.id] + Window <= clock

IInv == TypeOK /\ ResolvedOnce /\ WindowRespected /\ BatchInv
=============================================================================
