------------------------- MODULE DshExecution_proofs -------------------------
(***************************************************************************)
(* The coordinator implements the ledger's protocol, for every set of      *)
(* tasks, every graph of dependencies, every policy, capacity and bound:   *)
(* whatever the schedule and the failures, an event it writes is an event  *)
(* of Assignments.                                                         *)
(***************************************************************************)
EXTENDS DshExecution, SequenceTheorems, FiniteSetTheorems, WellFoundedInduction, TLAPS

\* A handoff intent names a worker and a runtime.
Bound(r) == r.intent # L!NoIntent => r.intent.worker \in Id /\ r.intent.runtime \in Id

\* What Replace reads from an intent is an identity the ledger knows.
LedgerOK ==
    /\ records \in Seq(L!Attempt) /\ Len(records) <= MaxAttempts
    /\ \A i \in Attempts : Bound(records[i])

\* The operation in progress is about attempts of the ledger.
AtOK == at.cur \in 0..Len(records) /\ at.todo \subseteq Attempts

\* The inductive invariant of the type theorem and of the refinement.
IInv == TypeOK /\ LedgerOK /\ AtOK

\* What every action does to the ledger: nothing, or one event of it.
LedgerStep == records' = records \/ (L!Next /\ LedgerOK' /\ Len(records') >= Len(records))

\* A record of the ledger is an attempt.
LEMMA RecordType ==
    ASSUME LedgerOK, NEW i \in Attempts
    PROVE  records[i] \in L!Attempt
BY DEF LedgerOK, Attempts, L!Attempts

\* The ledger's instance counts as this module does.
LEMMA SameCount == \A S : L!Cardinality(S) = Cardinality(S)
BY DEF L!Cardinality, Cardinality

\* The attempts of a lineage can be counted.
LEMMA LineageCount ==
    ASSUME LedgerOK, NEW t, NEW S \in SUBSET L!Lineage(t)
    PROVE  L!Cardinality(S) \in Nat
<1>1. Len(records) \in Nat
  BY DEF LedgerOK
<1>2. IsFiniteSet(1..Len(records))
  BY <1>1, FS_Interval
<1>3. S \in SUBSET (1..Len(records))
  BY DEF L!Lineage, L!LineageOf
<1>4. Cardinality(S) \in Nat
  BY <1>2, <1>3, FS_Subset, FS_CardinalityType
<1>. QED  BY <1>4, SameCount

\* A lineage has a number of failed provisionings ...
LEMMA FailuresCount ==
    ASSUME LedgerOK, NEW t
    PROVE  L!Failures(t) \in Nat
BY LineageCount DEF L!Failures

\* ... and a number of handoffs.
LEMMA HandoffsCount ==
    ASSUME LedgerOK, NEW t
    PROVE  L!Handoffs(t) \in Nat
BY LineageCount DEF L!Handoffs

\* A commit of a well formed record keeps the ledger well formed.
LEMMA CommitKeeps ==
    ASSUME LedgerOK, NEW i, NEW next \in L!Attempt, Bound(next), L!Commit(C, i, next)
    PROVE  LedgerOK' /\ Len(records') >= Len(records)
<1>. DEFINE x == [next EXCEPT !.revision = records[i].revision + 1]
<1>1. i \in Attempts
  BY DEF L!Commit, L!TokenCurrent, Attempts, L!Attempts, C
<1>2. records[i].revision \in Nat
  BY <1>1, RecordType DEF L!Attempt
<1>3. x \in L!Attempt /\ Bound(x)
  BY <1>2 DEF L!Attempt, Bound
<1>4. records' = [records EXCEPT ![i] = x]
  BY DEF L!Commit
<1>5. records' \in Seq(L!Attempt) /\ Len(records') = Len(records)
  BY <1>1, <1>3, <1>4 DEF LedgerOK, Attempts, L!Attempts
<1>6. \A j \in Attempts : records'[j] = IF j = i THEN x ELSE records[j]
  BY <1>1, <1>4 DEF LedgerOK, Attempts, L!Attempts
<1>7. Attempts' = Attempts
  BY <1>5 DEF Attempts, L!Attempts
<1>8. \A j \in Attempts : Bound(records'[j])
  BY <1>3, <1>6 DEF LedgerOK
<1>9. Len(records) \in Nat
  BY DEF LedgerOK
<1>. QED  BY <1>5, <1>7, <1>8, <1>9 DEF LedgerOK, Bound

\* The events the coordinator writes for one attempt are events of the ledger.
LEMMA EventIsLedgerStep ==
    ASSUME LedgerOK, NEW i,
           \/ L!Recover(C, i)
           \/ L!Activate(C, i)
           \/ L!Report(C, i)
           \/ L!Stop(C, i)
           \/ \E kind \in {"stopped", "never-started"} : L!Retire(C, i, kind)
           \/ \E worker \in Id, runtimeId \in Id : L!HandoffIntent(C, i, worker, runtimeId)
           \/ \E retryable \in BOOLEAN : L!ProvisionFailed(C, i, "stopped", retryable)
    PROVE  LedgerStep
<1>1. i \in Attempts
  BY DEF L!Recover, L!Activate, L!Report, L!Stop, L!Retire, L!HandoffIntent, L!ProvisionFailed,
         L!Commit, L!TokenCurrent, Attempts, L!Attempts, C
<1>2. L!AttemptEvent(C, i)
  BY DEF L!AttemptEvent, L!Kinds
<1>3. L!Next
  BY <1>1, <1>2 DEF L!Next, C, Attempts
<1>4. records[i] \in L!Attempt /\ Bound(records[i])
  BY <1>1, RecordType DEF LedgerOK
<1>5. LedgerOK' /\ Len(records') >= Len(records)
  <2>1. CASE L!Recover(C, i)
    <3>. DEFINE x == [records[i] EXCEPT !.recoveries = @ + 1]
    <3>1. x \in L!Attempt /\ Bound(x)
      BY <1>4 DEF L!Attempt, Bound
    <3>2. L!Commit(C, i, x)
      BY <2>1 DEF L!Recover
    <3>. QED  BY <3>1, <3>2, CommitKeeps
  <2>2. CASE L!Activate(C, i)
    <3>. DEFINE x == [records[i] EXCEPT !.phase = "active"]
    <3>1. x \in L!Attempt /\ Bound(x)
      BY <1>4 DEF L!Attempt, L!Phases, Bound
    <3>2. L!Commit(C, i, x)
      BY <2>2 DEF L!Activate
    <3>. QED  BY <3>1, <3>2, CommitKeeps
  <2>3. CASE L!Report(C, i)
    <3>. DEFINE x == [records[i] EXCEPT !.result = TRUE]
    <3>1. x \in L!Attempt /\ Bound(x)
      BY <1>4 DEF L!Attempt, Bound
    <3>2. L!Commit(C, i, x)
      BY <2>3 DEF L!Report
    <3>. QED  BY <3>1, <3>2, CommitKeeps
  <2>4. CASE L!Stop(C, i)
    <3>. DEFINE x == [records[i] EXCEPT !.phase = "stopping", !.stopReason = TRUE]
    <3>1. x \in L!Attempt /\ Bound(x)
      BY <1>4 DEF L!Attempt, L!Phases, Bound
    <3>2. L!Commit(C, i, x)
      BY <2>4 DEF L!Stop
    <3>. QED  BY <3>1, <3>2, CommitKeeps
  <2>5. ASSUME NEW kind \in {"stopped", "never-started"}, L!Retire(C, i, kind)
        PROVE  LedgerOK' /\ Len(records') >= Len(records)
    <3>. DEFINE x == [records[i] EXCEPT !.phase = "terminal", !.evidence = kind]
    <3>1. x \in L!Attempt /\ Bound(x)
      BY <1>4 DEF L!Attempt, L!Phases, Bound
    <3>2. L!Commit(C, i, x)
      BY <2>5 DEF L!Retire
    <3>. QED  BY <3>1, <3>2, CommitKeeps
  <2>6. ASSUME NEW worker \in Id, NEW runtimeId \in Id, L!HandoffIntent(C, i, worker, runtimeId)
        PROVE  LedgerOK' /\ Len(records') >= Len(records)
    <3>. DEFINE round == L!Handoffs(records[i].task) + 1
                x == [records[i] EXCEPT !.intent = [round |-> round, worker |-> worker, runtime |-> runtimeId]]
    <3>1. round \in Nat
      BY HandoffsCount
    <3>2. x \in L!Attempt /\ Bound(x)
      BY <1>4, <3>1 DEF L!Attempt, Bound
    <3>3. L!Commit(C, i, x)
      BY <2>6 DEF L!HandoffIntent
    <3>. QED  BY <3>2, <3>3, CommitKeeps
  <2>7. ASSUME NEW retryable \in BOOLEAN, L!ProvisionFailed(C, i, "stopped", retryable)
        PROVE  LedgerOK' /\ Len(records') >= Len(records)
    <3>. DEFINE count == L!Failures(records[i].task) + 1
                x == [records[i] EXCEPT !.phase = "terminal", !.evidence = "stopped", !.stopReason = TRUE,
                                        !.provisioning = [count |-> count, retryable |-> retryable]]
    <3>1. count \in Nat
      BY FailuresCount
    <3>2. x \in L!Attempt /\ Bound(x)
      BY <1>4, <3>1 DEF L!Attempt, L!Phases, Bound
    <3>3. L!Commit(C, i, x)
      BY <2>7 DEF L!ProvisionFailed
    <3>. QED  BY <3>2, <3>3, CommitKeeps
  <2>. QED  BY <2>1, <2>2, <2>3, <2>4, <2>5, <2>6, <2>7
<1>. QED  BY <1>3, <1>5 DEF LedgerStep

\* The identity a reservation takes next is an identity.
LEMMA FreshIdType == Room => FreshId \in Id
BY DEF Room, FreshId, UsedIds

\* A reservation of a known identity under the pinned policy is a step of the
\* ledger.
LEMMA ReserveIsLedgerStep ==
    ASSUME LedgerOK, NEW t \in Tasks, NEW p, NEW worker \in Id, NEW runtimeId \in Id,
           NEW repair, NEW handoff,
           p \in 0..Len(records) => repair \in L!RepairChoices(p) /\ handoff \in L!HandoffChoices(p),
           L!Reserve(C, t, p, worker, runtimeId, "spawn", Pinned, repair, handoff)
    PROVE  LedgerStep
<1>1. L!IsPrior(records, t, p) /\ p \in 0..Len(records)
  BY DEF L!Reserve, L!Admissible, L!IsPrior
<1>2. L!Reservation(C, t)
  BY <1>1 DEF L!Reservation
<1>3. L!Next
  BY <1>2 DEF L!Next, C
<1>4. p \in Nat /\ Len(records) \in Nat /\ (p # 0 => p \in Attempts)
  BY <1>1 DEF LedgerOK, Attempts, L!Attempts
<1>5. p # 0 => records[p] \in L!Attempt
  BY <1>4, RecordType
<1>6. L!GenerationAt(records, p) \in Nat
  BY <1>5 DEF L!GenerationAt, L!Attempt
<1>7. p # 0 => /\ records[p].repair \in [previous : Nat, round : Nat]
               /\ records[p].repair.round + 1 \in Nat
               /\ records[p].intent.round \in Nat
  BY <1>5 DEF L!Attempt
<1>8. repair \in [previous : Nat, round : Nat] /\ handoff \in [previous : Nat, round : Nat]
  BY <1>1, <1>4, <1>7 DEF L!RepairChoices, L!HandoffChoices, L!NoRepair, L!NoHandoff
<1>. DEFINE r == L!NewAttempt(t, p, worker, runtimeId, "spawn", Pinned, repair, handoff)
<1>9. r \in L!Attempt
  BY <1>6, <1>8 DEF L!NewAttempt, L!Attempt, L!Phases, L!NoIntent, L!NoProvisioning
<1>10. Bound(r)
  BY DEF L!NewAttempt, Bound
<1>11. records' = Append(records, r)
  BY DEF L!Reserve
<1>12. records' \in Seq(L!Attempt) /\ Len(records') = Len(records) + 1
  BY <1>9, <1>11 DEF LedgerOK
<1>13. \A j \in 1..Len(records') : records'[j] = IF j = Len(records) + 1 THEN r ELSE records[j]
  BY <1>4, <1>11, <1>12 DEF LedgerOK
<1>14. Attempts' = 1..Len(records') /\ \A j \in Attempts' : j = Len(records) + 1 \/ j \in Attempts
  BY <1>4, <1>12 DEF Attempts, L!Attempts
<1>15. \A j \in Attempts' : Bound(records'[j])
  BY <1>4, <1>10, <1>13, <1>14 DEF LedgerOK
<1>16. Len(records) < MaxAttempts
  BY DEF L!Reserve
<1>17. LedgerOK'
  BY <1>4, <1>12, <1>15, <1>16, ExecutionAssumption DEF LedgerOK, Bound, ExecutionAssumption
<1>18. Len(records') >= Len(records)
  BY <1>4, <1>12
<1>. QED  BY <1>3, <1>17, <1>18 DEF LedgerStep

\* A new attempt of the dispatch loop and of a retry.
LEMMA ReserveNewIsLedgerStep ==
    ASSUME LedgerOK, NEW t \in Tasks, Room, ReserveNew(t)
    PROVE  LedgerStep
<1>1. FreshId \in Id
  BY FreshIdType
<1>2. L!Reserve(C, t, Last(t), FreshId, FreshId, "spawn", Pinned, L!NoRepair, L!NoHandoff)
  BY DEF ReserveNew
<1>3. \A p \in 0..Len(records) : L!NoRepair \in L!RepairChoices(p) /\ L!NoHandoff \in L!HandoffChoices(p)
  BY DEF L!RepairChoices, L!HandoffChoices
<1>. DEFINE p == Last(t) fresh == FreshId
<1>4. L!Reserve(C, t, p, fresh, fresh, "spawn", Pinned, L!NoRepair, L!NoHandoff) /\ fresh \in Id
  BY <1>1, <1>2
<1>. HIDE DEF p, fresh
<1>. QED  BY <1>3, <1>4, ReserveIsLedgerStep

\* The replacement of a handoff: its identities are those of the intent, which
\* the ledger demands to be there.
LEMMA ReplaceIsLedgerStep ==
    ASSUME LedgerOK, Replace
    PROVE  LedgerStep
<1>1. CASE UNCHANGED ledger
  BY <1>1 DEF ledger, LedgerStep
<1>. DEFINE p == records[at.cur]
            handoff == [previous |-> at.cur, round |-> p.intent.round]
<1>2. CASE L!Reserve(C, p.task, at.cur, p.intent.worker, p.intent.runtime, p.provider, p.policy, p.repair, handoff)
  <2>1. at.cur # 0 /\ handoff # L!NoHandoff
    BY DEF Replace, At, L!NoHandoff
  <2>2. at.cur \in 0..Len(records) /\ Len(records) \in Nat
    BY <1>2 DEF L!Reserve, L!Admissible, L!IsPrior, LedgerOK
  <2>3. at.cur \in Attempts
    BY <2>1, <2>2 DEF Attempts, L!Attempts
  <2>4. p \in L!Attempt /\ Bound(p)
    BY <2>3, RecordType DEF LedgerOK
  <2>5. p.task \in Tasks /\ p.provider = "spawn" /\ p.policy = Pinned
    BY <2>4 DEF L!Attempt
  <2>6. p.intent # L!NoIntent
    BY <1>2, <2>1 DEF L!Reserve, L!Admissible, L!HandoffLineage
  <2>7. p.intent.worker \in Id /\ p.intent.runtime \in Id
    BY <2>4, <2>6 DEF Bound
  <2>8. p.repair \in L!RepairChoices(at.cur) /\ handoff \in L!HandoffChoices(at.cur)
    BY <2>1 DEF L!RepairChoices, L!HandoffChoices
  <2>9. L!Reserve(C, p.task, at.cur, p.intent.worker, p.intent.runtime, "spawn", Pinned, p.repair, handoff)
    BY <1>2, <2>5
  <2>. DEFINE t == p.task cur == at.cur worker == p.intent.worker runtimeId == p.intent.runtime repair == p.repair
              binding == handoff
  <2>10. /\ t \in Tasks /\ worker \in Id /\ runtimeId \in Id
         /\ repair \in L!RepairChoices(cur) /\ binding \in L!HandoffChoices(cur)
         /\ L!Reserve(C, t, cur, worker, runtimeId, "spawn", Pinned, repair, binding)
    BY <2>5, <2>7, <2>8, <2>9
  <2>. HIDE DEF t, cur, worker, runtimeId, repair, binding, handoff, p
  <2>. QED  BY <2>10, ReserveIsLedgerStep
<1>. QED  BY <1>1, <1>2 DEF Replace

\* Every step of the system is a step of the ledger, or leaves it alone.
LEMMA StepIsLedgerStep ==
    ASSUME LedgerOK, TypeOK, [Next]_vars
    PROVE  LedgerStep
<1>1. CASE UNCHANGED vars
  BY <1>1 DEF vars, ledger, LedgerStep
<1>2. CASE \E t \in Tasks : Dispatch(t) \/ Retry(t)
  <2>1. PICK t \in Tasks : ReserveNew(t) /\ Room
    BY <1>2 DEF Dispatch, Retry, Ready
  <2>. QED  BY <2>1, ReserveNewIsLedgerStep
<1>3. CASE \E i : \/ L!Recover(C, i) \/ L!Activate(C, i) \/ L!Report(C, i) \/ L!Stop(C, i)
                  \/ \E kind \in {"stopped", "never-started"} : L!Retire(C, i, kind)
                  \/ \E worker \in Id, runtimeId \in Id : L!HandoffIntent(C, i, worker, runtimeId)
                  \/ \E retryable \in BOOLEAN : L!ProvisionFailed(C, i, "stopped", retryable)
  BY <1>3, EventIsLedgerStep
<1>4. CASE UNCHANGED ledger
  BY <1>4 DEF ledger, LedgerStep
<1>5. CASE Scan
  BY <1>2, <1>3, <1>4, <1>5 DEF Scan, BeginScan, NextLoop, Take, AdmitDispatch, DispatchUnadmitted, EndScan
<1>6. CASE Adopt \/ ActivateStarted
  BY <1>3, <1>4, <1>6 DEF Adopt, ActivateStarted
<1>7. CASE Provision \/ ChildStarts \/ SpawnFails \/ ChildSettles \/ Classify
  BY <1>4, <1>7 DEF Provision, ChildStarts, SpawnFails, ChildSettles, Classify
<1>8. CASE Observe
  BY <1>3, <1>4, <1>8 DEF Observe, Inspect, ReportWork, StopSilent, RecoverWork, DeliverRecovery
<1>9. CASE Stopping
  BY <1>3, <1>4, <1>9 DEF Stopping, StopCancelled, JoinDrain, DrainTimesOut, Undrained, ConfirmAbsent, RetireDrained
<1>10. CASE Replace
  BY <1>10, ReplaceIsLedgerStep
<1>11. CASE Intend
  <2>1. Room /\ (UNCHANGED ledger \/ L!HandoffIntent(C, at.cur, FreshId, FreshId))
    BY <1>11 DEF Intend
  <2>. QED  BY <1>3, <1>4, <2>1, FreshIdType
<1>12. CASE ResumeHandoff
  <2>1. UNCHANGED ledger \/ L!Stop(C, at.cur)
    BY <1>12 DEF ResumeHandoff
  <2>. QED  BY <1>3, <1>4, <2>1
<1>13. CASE Accepting
  BY <1>4, <1>13 DEF Accepting, ApplyReport, SettleReport
<1>14. CASE Pause \/ Closing
  BY <1>4, <1>14 DEF Pause, Closing, BeginClose, CloseDrains, CloseDrained, Release
<1>15. CASE Lead
  BY <1>2, <1>4, <1>15 DEF Lead, Cancel, AcceptReport, Handoff
<1>16. CASE Crash \/ Reopen
  BY <1>4, <1>16 DEF Crash, Reopen, Restart
<1>17. CASE \E i \in Id : Session(i) \/ Provider(i) \/ Reconcile(i)
  BY <1>4, <1>17 DEF Session, TurnEnds, SessionEnds, Message, AdmitWake, Resume, Deliver,
                     Provider, DrainSettles, DrainFails, Reconcile
<1>18. CASE RecordProvisionFailure
  <2>1. at.retryable \in BOOLEAN
    BY DEF TypeOK
  <2>2. UNCHANGED ledger \/ L!ProvisionFailed(C, at.cur, "stopped", at.retryable)
    BY <1>18 DEF RecordProvisionFailure
  <2>. QED  BY <1>3, <1>4, <2>1, <2>2
<1>. QED  BY <1>1, <1>5, <1>6, <1>7, <1>8, <1>9, <1>10, <1>11, <1>12, <1>13, <1>14, <1>15, <1>16, <1>17, <1>18
          DEF Next, Coordinator, Start, HandingOff

\* The two halves of the type invariant: the operation in progress, in a
\* ledger of n attempts, and the stores and sessions beside it.
OpOK(a, n) ==
    /\ a \in [op : Ops, loop : Loops, todo : SUBSET Id, cur : 0..MaxAttempts, step : Steps, turn : Turns,
              runs : Nat, retryable : BOOLEAN, seen : SUBSET Tasks, tried : SUBSET Tasks]
    /\ a.op = "scan" => a.loop # "none"
    /\ a.cur \in 0..n
    /\ a.todo \subseteq 1..n

IntakeOK ==
    /\ request \in [Tasks -> {"none", "queued", "cancelled"}]
    /\ report \in [Id -> {"none", "pending", "accepted"}]
    /\ receipts \in [Tasks -> 0..MaxAttempts]

TeamOK ==
    /\ member \in [Id -> {"none", "provisioning", "active", "failed"}]
    /\ turn \in [Id -> Turns]
    /\ runs \in [Id -> Nat] /\ seenRun \in [Id -> Nat]
    /\ mail \subseteq Id

RuntimeOK == resident \subseteq Id /\ waking \subseteq Id /\ drains \subseteq Id

ControlOK ==
    /\ shutdown \in BOOLEAN /\ rooted \in BOOLEAN /\ paused \in BOOLEAN
    /\ faults \in 0..MaxFaults

StoresOK == IntakeOK /\ TeamOK /\ RuntimeOK /\ ControlOK /\ blocked \subseteq Tasks

\* They make up the inductive invariant.
LEMMA Halves == IInv <=> LedgerOK /\ OpOK(at, Len(records)) /\ StoresOK
BY DEF IInv, TypeOK, AtOK, LedgerOK, OpOK, StoresOK, IntakeOK, TeamOK, RuntimeOK, ControlOK, Attempts, L!Attempts

\* The ledger only grows, and the operation stays within it.
LEMMA OpGrows ==
    ASSUME NEW a, NEW n \in Nat, NEW m \in Nat, n <= m, OpOK(a, n)
    PROVE  OpOK(a, m)
BY DEF OpOK

\* A set of numbers has a least one.
LEMMA LeastNumber ==
    ASSUME NEW S \in SUBSET Nat, S # {}
    PROVE  \E x \in S : \A y \in S : x <= y
<1>. DEFINE R == {ss \in Nat \X Nat : ss[1] < ss[2]}
<1>1. IsWellFoundedOn(R, Nat)
  BY NatLessThanWellFounded DEF OpToRel
<1>2. PICK x \in S : \A y \in S : ~(<<y, x>> \in R)
  <2>. HIDE DEF R
  <2>. QED  BY <1>1, WFMin
<1>3. ASSUME NEW y \in S
      PROVE  x <= y
  <2>1. x \in Nat /\ y \in Nat
    OBVIOUS
  <2>2. ~(<<y, x>> \in R)
    BY <1>2
  <2>3. ~(y < x)
    BY <2>1, <2>2
  <2>. QED  BY <2>1, <2>3
<1>. QED  BY <1>3

\* The attempt a loop visits next is one it has to visit.
LEMMA MinOfSet ==
    ASSUME NEW S \in SUBSET Nat, S # {}
    PROVE  Min(S) \in S
<1>1. \E x \in S : \A y \in S : x <= y
  BY LeastNumber
<1>. QED  BY <1>1 DEF Min

\* The last of some attempts is one of them.
LEMMA MaxOfSet ==
    ASSUME NEW n \in Nat, NEW S \in SUBSET (1..n), S # {}
    PROVE  Max(S) \in S
<1>. DEFINE Mirror == {n - x : x \in S}
<1>1. Mirror \in SUBSET Nat /\ Mirror # {}
  <2>1. \A x \in S : n - x \in Nat
    OBVIOUS
  <2>. QED  BY <2>1
<1>2. PICK m \in Mirror : \A k \in Mirror : m <= k
  BY <1>1, LeastNumber
<1>3. PICK x \in S : m = n - x
  BY <1>2
<1>4. ASSUME NEW y \in S
      PROVE  x >= y
  <2>1. n - y \in Mirror
    OBVIOUS
  <2>2. n - x <= n - y
    BY <1>2, <1>3, <2>1
  <2>3. x \in Nat /\ y \in Nat
    OBVIOUS
  <2>. QED  BY <2>2, <2>3
<1>. QED  BY <1>4 DEF Max

\* The latest attempt of a task, if any, is an attempt.
LEMMA LastType ==
    ASSUME LedgerOK, NEW t
    PROVE  Last(t) \in 0..Len(records)
<1>1. Len(records) \in Nat /\ L!Lineage(t) \in SUBSET (1..Len(records))
  BY DEF LedgerOK, L!Lineage, L!LineageOf
<1>2. CASE L!Lineage(t) = {}
  BY <1>1, <1>2 DEF Last
<1>3. CASE L!Lineage(t) # {}
  <2>. DEFINE S == L!Lineage(t)
              n == Len(records)
  <2>1. n \in Nat /\ S \in SUBSET (1..n) /\ S # {}
    BY <1>1, <1>3
  <2>2. Last(t) = Max(S)
    BY <1>3 DEF Last
  <2>. HIDE DEF S, n
  <2>3. PICK m \in S : m = Max(S)
    BY <2>1, MaxOfSet
  <2>4. m \in 0..n
    BY <2>1, <2>3
  <2>. QED  BY <2>2, <2>3, <2>4 DEF n
<1>. QED  BY <1>2, <1>3

\* The ways most actions move the operation on.
LEMMA Moves ==
    ASSUME IInv,
           \/ \E step \in Steps : Goto(step)
           \/ at' = Resting \/ at' = Idle \/ at' = at
    PROVE  OpOK(at', Len(records))
<1>1. OpOK(at, Len(records)) /\ Len(records) \in Nat
  BY Halves DEF IInv, LedgerOK
<1>2. OpOK(Idle, Len(records))
  BY <1>1, ExecutionAssumption DEF ExecutionAssumption, Ops, Loops, Steps, Turns, OpOK, Idle
<1>3. \A step \in Steps : OpOK([at EXCEPT !.step = step], Len(records))
  BY <1>1 DEF OpOK
<1>4. OpOK([at EXCEPT !.cur = 0, !.step = "next", !.turn = "none", !.runs = 0, !.retryable = FALSE], Len(records))
  <2>1. "next" \in Steps /\ "none" \in Turns /\ 0 \in 0..MaxAttempts /\ 0 \in 0..Len(records)
    BY <1>1, ExecutionAssumption DEF ExecutionAssumption, Steps, Turns
  <2>. QED  BY <1>1, <2>1 DEF OpOK
<1>. QED  BY <1>1, <1>2, <1>3, <1>4 DEF Goto, Resting

\* A loop visits attempts, and enters them at a step.
LEMMA VisitType == \A loop : Visit(loop) \subseteq Attempts /\ \A i : Entry(loop, i) \in Steps
<1>1. {"ownership", "stop", "apply", "handoff", "start", "observe"} \subseteq Steps
  BY DEF Steps
<1>2. \A loop : Visit(loop) \subseteq Attempts
  BY DEF Visit
<1>3. \A loop, i : Entry(loop, i) \in {"ownership", "stop", "apply", "handoff", "start", "observe"}
  BY DEF Entry
<1>. QED  BY <1>1, <1>2, <1>3

\* A reservation appends one attempt.
LEMMA ReserveGrows ==
    ASSUME LedgerOK, LedgerOK', NEW t, NEW p, NEW worker, NEW runtimeId, NEW provider, NEW policy, NEW repair,
           NEW handoff, L!Reserve(C, t, p, worker, runtimeId, provider, policy, repair, handoff)
    PROVE  Len(records') = Len(records) + 1 /\ Len(records') <= MaxAttempts
<1>1. PICK r : records' = Append(records, r)
  BY DEF L!Reserve
<1>2. Len(records') = Len(records) + 1
  BY <1>1 DEF LedgerOK
<1>. QED  BY <1>2 DEF LedgerOK

\* A step leaves the operation in progress well formed.
LEMMA OpStep ==
    ASSUME IInv, [Next]_vars, LedgerStep
    PROVE  OpOK(at', Len(records'))
<1>. DEFINE n == Len(records)
<1>1. LedgerOK'
  BY DEF IInv, LedgerStep, LedgerOK, Attempts, L!Attempts, Bound
<1>2. n \in Nat /\ Len(records') \in Nat /\ n <= Len(records') /\ n <= MaxAttempts /\ MaxAttempts \in Nat
  <2>1. n \in Nat /\ Len(records') \in Nat /\ n <= MaxAttempts
    BY <1>1 DEF IInv, LedgerOK
  <2>2. n <= Len(records')
    BY <2>1 DEF LedgerStep
  <2>. QED  BY <2>1, <2>2, ExecutionAssumption DEF ExecutionAssumption
<1>3. SUFFICES \/ OpOK(at', n)
               \/ Len(records') = n + 1 /\ OpOK(at', n + 1)
  BY <1>2, OpGrows
<1>4. OpOK(at, n) /\ OpOK(Idle, n)
  <2>1. OpOK(Idle, n)
    BY <1>2, ExecutionAssumption DEF ExecutionAssumption, Ops, Loops, Steps, Turns, OpOK, Idle
  <2>. QED  BY <2>1, Halves
<1>5. {"ownership", "settle", "start", "spawning", "started", "activate", "failing", "draining", "drained",
       "undrained", "retire", "replace", "deliver", "handoff", "decide", "admit", "apply"} \subseteq Steps
  BY DEF Steps
<1>6. CASE \/ \E step \in Steps : Goto(step)
           \/ at' = Resting \/ at' = Idle \/ at' = at
  BY <1>6, Moves
<1>. HIDE DEF n
<1>7. CASE UNCHANGED vars
  BY <1>6, <1>7 DEF vars
<1>8. CASE AdmitDispatch \/ DispatchUnadmitted \/ EndScan
  BY <1>5, <1>6, <1>8 DEF AdmitDispatch, DispatchUnadmitted, EndScan, Throw
<1>9. CASE Adopt \/ Provision \/ ChildStarts \/ SpawnFails \/ ChildSettles \/ ActivateStarted \/ RecordProvisionFailure
  BY <1>5, <1>6, <1>9 DEF Adopt, Provision, ChildStarts, SpawnFails, ChildSettles, ActivateStarted,
                          RecordProvisionFailure, Leave, Throw
<1>10. CASE ReportWork \/ StopSilent \/ RecoverWork \/ DeliverRecovery \/ Stopping
  BY <1>5, <1>6, <1>10 DEF ReportWork, StopSilent, RecoverWork, DeliverRecovery, Leave, Throw, Stopping,
                          StopCancelled, JoinDrain, DrainTimesOut, Undrained, ConfirmAbsent, RetireDrained
<1>11. CASE Intend \/ ResumeHandoff \/ Accepting \/ Pause \/ CloseDrained \/ Crash \/ Reopen
  BY <1>5, <1>6, <1>11 DEF Intend, ResumeHandoff, Leave, Throw, Accepting, ApplyReport, SettleReport, Pause,
                          CloseDrained, Crash, Reopen, Restart
<1>12. CASE \E i \in Id : Session(i) \/ Reconcile(i)
  BY <1>6, <1>12 DEF Session, TurnEnds, SessionEnds, Message, AdmitWake, Resume, Deliver, Reconcile
<1>13. CASE \E i \in Id : Provider(i)
  <2>1. PICK i : DrainEnds(i, TRUE) \/ DrainEnds(i, FALSE)
    BY <1>13 DEF Provider, DrainSettles, DrainFails
  <2>2. \/ at' = at \/ Goto("drained") \/ Goto("undrained")
    BY <2>1 DEF DrainEnds, Goto
  <2>. QED  BY <1>5, <1>6, <2>2
<1>14. Visit("cancel") \subseteq 1..n /\ \A loop : Visit(loop) \subseteq 1..n
  BY VisitType DEF n, Attempts, L!Attempts
<1>15. ASSUME NEW i \in Attempts, NEW op \in Ops, NEW step \in Steps,
              at' = [Idle EXCEPT !.op = op, !.cur = i, !.step = step], op # "scan"
       PROVE  OpOK(at', n)
  <2>1. i \in 0..MaxAttempts /\ i \in 0..n
    BY <1>2 DEF n, Attempts, L!Attempts
  <2>. QED  BY <1>4, <1>15, <2>1 DEF OpOK
<1>16. CASE BeginScan
  <2>1. {t \in Tasks : receipts[t] # 0} \subseteq Tasks /\ "scan" \in Ops /\ "cancel" \in Loops /\ "none" # "cancel"
    BY DEF Ops, Loops
  <2>2. 1..n \subseteq Id
    BY <1>2, ExecutionAssumption DEF Id, ExecutionAssumption
  <2>. QED  BY <1>4, <1>14, <1>16, <2>1, <2>2 DEF BeginScan, OpOK
<1>17. CASE NextLoop
  <2>1. at.loop \in {"cancel", "reports", "handoff", "observe"}
    BY <1>4, <1>17 DEF NextLoop, OpOK, Loops
  <2>2. Following[at.loop] \in Loops /\ Following[at.loop] # "none"
    BY <2>1 DEF Following, Loops
  <2>3. 1..n \subseteq Id
    BY <1>2, ExecutionAssumption DEF Id, ExecutionAssumption
  <2>. QED  BY <1>4, <1>14, <1>17, <2>2, <2>3 DEF NextLoop, OpOK
<1>18. CASE Take
  <2>1. at.todo \in SUBSET Nat /\ at.todo # {} /\ at.todo \subseteq 1..n
    BY <1>4, <1>18 DEF Take, OpOK
  <2>. DEFINE i == Min(at.todo)
  <2>2. i \in at.todo
    BY <2>1, MinOfSet
  <2>3. Entry(at.loop, i) \in Steps
    BY VisitType
  <2>4. \/ at' = [at EXCEPT !.todo = @ \ {i}, !.cur = i, !.step = Entry(at.loop, i)]
        \/ at' = [at EXCEPT !.todo = @ \ {i}]
    BY <1>18 DEF Take
  <2>. HIDE DEF i
  <2>5. i \in 0..n /\ i \in 0..MaxAttempts
    BY <1>2, <2>1, <2>2
  <2>. QED  BY <1>4, <2>3, <2>4, <2>5 DEF OpOK
<1>19. CASE \E t \in Tasks : Dispatch(t) \/ Retry(t)
  <2>1. PICK t \in Tasks : Dispatch(t) \/ Retry(t)
    BY <1>19
  <2>2. Len(records') = n + 1 /\ n + 1 <= MaxAttempts
    BY <1>1, <2>1, ReserveGrows DEF IInv, Dispatch, Retry, ReserveNew, n
  <2>3. n + 1 \in 0..MaxAttempts /\ n + 1 \in 0..(n + 1)
    BY <1>2, <2>2
  <2>4. "admit" \in Steps /\ "start" \in Steps /\ "retry" \in Ops /\ "retry" # "scan"
    BY DEF Steps, Ops
  <2>5. OpOK(at, n + 1) /\ OpOK(Idle, n + 1)
    BY <1>2, <1>4, OpGrows
  <2>6. \/ at' = [at EXCEPT !.tried = @ \cup {t}, !.cur = n + 1, !.step = "admit"]
        \/ at' = [Idle EXCEPT !.op = "retry", !.cur = n + 1, !.step = "start"]
    BY <2>1 DEF Dispatch, Retry, n
  <2>7. OpOK([at EXCEPT !.tried = @ \cup {t}, !.cur = n + 1, !.step = "admit"], n + 1)
    <3>1. at.tried \cup {t} \in SUBSET Tasks
      BY <2>5 DEF OpOK
    <3>. QED  BY <2>3, <2>4, <2>5, <3>1 DEF OpOK
  <2>8. OpOK([Idle EXCEPT !.op = "retry", !.cur = n + 1, !.step = "start"], n + 1)
    BY <2>3, <2>4, <2>5 DEF OpOK
  <2>. QED  BY <2>2, <2>6, <2>7, <2>8
<1>20. CASE Classify
  <2>1. \/ at' = Resting
        \/ \E retryable \in BOOLEAN : at' = [at EXCEPT !.step = "draining", !.retryable = retryable]
    BY <1>20 DEF Classify, Throw
  <2>. QED  BY <1>4, <1>5, <1>6, <2>1 DEF OpOK
<1>21. CASE Inspect
  <2>1. at' = Resting \/ at' = [at EXCEPT !.step = "decide", !.turn = turn[at.cur], !.runs = runs[at.cur]]
    BY <1>21 DEF Inspect, Leave
  <2>2. at.cur \in Id
    BY <1>4, <1>21 DEF Inspect, At, OpOK, Id
  <2>3. turn[at.cur] \in Turns /\ runs[at.cur] \in Nat
    BY <2>2 DEF IInv, TypeOK
  <2>. QED  BY <1>4, <1>5, <1>6, <2>1, <2>3 DEF OpOK
<1>22. CASE Replace
  <2>1. \/ at' = Resting
        \/ at' = [at EXCEPT !.cur = n + 1, !.step = "start"] /\ Len(records') = n + 1 /\ n + 1 <= MaxAttempts
    BY <1>1, <1>22, ReserveGrows DEF IInv, Replace, Leave, Throw, n
  <2>2. OpOK(at, n + 1)
    BY <1>2, <1>4, OpGrows
  <2>3. CASE Len(records') = n + 1 /\ n + 1 <= MaxAttempts /\ at' = [at EXCEPT !.cur = n + 1, !.step = "start"]
    <3>1. n + 1 \in 0..MaxAttempts /\ n + 1 \in 0..(n + 1)
      BY <1>2, <2>3
    <3>. QED  BY <1>5, <2>2, <2>3, <3>1 DEF OpOK
  <2>. QED  BY <1>6, <2>1, <2>3
<1>23. CASE \E t \in Tasks : Cancel(t)
  <2>1. PICK t \in Tasks :
          \/ at' = Idle
          \/ /\ Last(t) # 0
             /\ at' = [Idle EXCEPT !.op = "cancel", !.cur = Last(t), !.step = Entry("cancel", Last(t))]
    BY <1>23 DEF Cancel
  <2>. DEFINE i == Last(t)
  <2>2. CASE i # 0 /\ at' = [Idle EXCEPT !.op = "cancel", !.cur = i, !.step = Entry("cancel", i)]
    <3>1. i \in Attempts
      BY <2>2, LastType DEF IInv, Attempts, L!Attempts, LedgerOK
    <3>2. "cancel" \in Ops /\ "cancel" # "scan" /\ Entry("cancel", i) \in Steps
      BY VisitType DEF Ops
    <3>. HIDE DEF i
    <3>. QED  BY <1>15, <2>2, <3>1, <3>2
  <2>. QED  BY <1>6, <2>1, <2>2
<1>24. CASE \E i \in Attempts : AcceptReport(i) \/ Handoff(i)
  <2>1. "accept" \in Ops /\ "handoff" \in Ops /\ "accept" # "scan" /\ "handoff" # "scan"
    BY DEF Ops
  <2>. QED  BY <1>5, <1>15, <1>24, <2>1 DEF AcceptReport, Handoff
<1>25. CASE BeginClose \/ Release
  <2>1. "close" \in Ops /\ "down" \in Ops /\ "close" # "scan" /\ "down" # "scan"
    BY DEF Ops
  <2>2. Attempts = 1..n /\ 1..n \subseteq Id
    BY <1>2, ExecutionAssumption DEF Id, ExecutionAssumption, Attempts, L!Attempts, n
  <2>3. \/ at' = [Idle EXCEPT !.op = "close", !.todo = IF rooted THEN Attempts ELSE {}]
        \/ at' = [Idle EXCEPT !.op = "down"]
    BY <1>25 DEF BeginClose, Release
  <2>. QED  BY <1>4, <2>1, <2>2, <2>3 DEF OpOK
<1>26. CASE CloseDrains
  <2>1. at.todo \in SUBSET Nat /\ at.todo # {} /\ at.todo \subseteq 1..n
    BY <1>4, <1>26 DEF CloseDrains, OpOK
  <2>. DEFINE i == Min(at.todo)
  <2>2. i \in at.todo
    BY <2>1, MinOfSet
  <2>3. at' = [at EXCEPT !.todo = @ \ {i}, !.cur = i, !.step = "draining"]
    BY <1>26 DEF CloseDrains
  <2>. HIDE DEF i
  <2>4. i \in 0..n /\ i \in 0..MaxAttempts
    BY <1>2, <2>1, <2>2
  <2>. QED  BY <1>4, <1>5, <2>3, <2>4 DEF OpOK
<1>. QED  BY <1>7, <1>8, <1>9, <1>10, <1>11, <1>12, <1>13, <1>16, <1>17, <1>18, <1>19, <1>20, <1>21, <1>22, <1>23,
             <1>24, <1>25, <1>26
          DEF Next, Coordinator, Scan, Start, Observe, HandingOff, Lead, Closing

\* The attempt at hand is an attempt of a task.
LEMMA AtHand ==
    ASSUME IInv, at.cur # 0
    PROVE  at.cur \in Attempts /\ at.cur \in Id /\ TaskOf(at.cur) \in Tasks
<1>1. at.cur \in Attempts
  BY DEF IInv, AtOK, LedgerOK, Attempts, L!Attempts
<1>2. at.cur \in Id
  BY <1>1 DEF IInv, TypeOK, Id
<1>3. records[at.cur] \in L!Attempt
  BY <1>1, RecordType DEF IInv
<1>. QED  BY <1>1, <1>2, <1>3 DEF L!Attempt, TaskOf

\* Execution failures are recorded for tasks.
LEMMA BlockedStep ==
    ASSUME IInv, [Next]_vars
    PROVE  blocked' \subseteq Tasks
<1>1. blocked \subseteq Tasks
  BY DEF IInv, TypeOK
<1>2. CASE UNCHANGED blocked
  BY <1>1, <1>2
<1>3. CASE at.cur # 0 /\ (Leave \/ \E classified : Throw(classified))
  BY <1>1, <1>3, AtHand DEF Leave, Throw
<1>4. CASE Take
  <2>1. PICK i \in at.todo : blocked' = blocked \/ blocked' = blocked \cup {TaskOf(i)}
    <3>1. at.todo \in SUBSET Nat /\ at.todo # {}
      BY <1>4 DEF Take, IInv, TypeOK, Id
    <3>2. Min(at.todo) \in at.todo
      BY <3>1, MinOfSet
    <3>. QED  BY <1>4, <3>2 DEF Take
  <2>2. records[i] \in L!Attempt
    BY RecordType DEF IInv, AtOK
  <2>. QED  BY <1>1, <2>1, <2>2 DEF L!Attempt, TaskOf
<1>5. CASE BeginScan \/ NextLoop \/ AdmitDispatch \/ DispatchUnadmitted \/ EndScan \/ \E t \in Tasks : Dispatch(t)
  BY <1>2, <1>3, <1>5 DEF BeginScan, NextLoop, AdmitDispatch, DispatchUnadmitted, EndScan, Dispatch, At
<1>6. CASE Start
  BY <1>2, <1>3, <1>6 DEF Start, Adopt, Provision, ChildStarts, SpawnFails, ChildSettles, ActivateStarted, Classify,
                          RecordProvisionFailure, At
<1>7. CASE Observe
  BY <1>2, <1>3, <1>7 DEF Observe, Inspect, ReportWork, StopSilent, RecoverWork, DeliverRecovery, At
<1>8. CASE Stopping
  BY <1>2, <1>3, <1>8 DEF Stopping, StopCancelled, JoinDrain, DrainTimesOut, Undrained, ConfirmAbsent, RetireDrained, At
<1>9. CASE HandingOff \/ Accepting
  BY <1>2, <1>3, <1>9 DEF HandingOff, Intend, ResumeHandoff, Replace, Accepting, ApplyReport, SettleReport, At
<1>10. CASE Lead \/ Pause \/ Closing
  BY <1>2, <1>3, <1>10 DEF Lead, Cancel, Retry, AcceptReport, Handoff, Pause, Closing, BeginClose, CloseDrains,
                           CloseDrained, Release, At
<1>11. CASE Crash \/ Reopen
  BY <1>2, <1>11 DEF Crash, Reopen, Restart
<1>12. CASE \E i \in Id : Session(i) \/ Provider(i) \/ Reconcile(i)
  BY <1>2, <1>12 DEF Session, TurnEnds, SessionEnds, Message, AdmitWake, Resume, Deliver, Provider, DrainSettles,
                     DrainFails, Reconcile
<1>13. CASE UNCHANGED vars
  BY <1>2, <1>13 DEF vars
<1>. QED  BY <1>4, <1>5, <1>6, <1>7, <1>8, <1>9, <1>10, <1>11, <1>12, <1>13 DEF Next, Coordinator, Scan

\* Requests, acceptance records and receipts stay well formed.
LEMMA IntakeStep ==
    ASSUME IInv, [Next]_vars
    PROVE  IntakeOK'
<1>1. IntakeOK
  BY Halves DEF StoresOK
<1>2. CASE UNCHANGED intake
  BY <1>1, <1>2 DEF intake, IntakeOK
<1>3. CASE BeginScan
  BY <1>1, <1>3 DEF BeginScan, IntakeOK
<1>4. CASE ApplyReport
  <2>1. at.cur \in 0..MaxAttempts
    BY DEF IInv, TypeOK
  <2>2. \/ receipts' = [receipts EXCEPT ![TaskOf(at.cur)] = at.cur]
        \/ UNCHANGED receipts
    BY <1>4 DEF ApplyReport
  <2>3. UNCHANGED <<request, report>>
    BY <1>4 DEF ApplyReport
  <2>. QED  BY <1>1, <2>1, <2>2, <2>3 DEF IntakeOK
<1>5. CASE SettleReport
  BY <1>1, <1>5, AtHand DEF SettleReport, At, IntakeOK
<1>6. CASE \E t \in Tasks : Cancel(t)
  BY <1>1, <1>6 DEF Cancel, IntakeOK
<1>7. CASE \E i \in Attempts : AcceptReport(i)
  BY <1>1, <1>7 DEF AcceptReport, IntakeOK
<1>8. CASE \/ NextLoop \/ Take \/ AdmitDispatch \/ DispatchUnadmitted \/ EndScan
           \/ \E t \in Tasks : Dispatch(t) \/ Retry(t)
  BY <1>2, <1>8 DEF NextLoop, Take, AdmitDispatch, DispatchUnadmitted, EndScan, Dispatch, Retry
<1>9. CASE Start
  BY <1>2, <1>9 DEF Start, Adopt, Provision, ChildStarts, SpawnFails, ChildSettles, ActivateStarted, Classify,
                    RecordProvisionFailure
<1>10. CASE Observe \/ Stopping
  BY <1>2, <1>10 DEF Observe, Inspect, ReportWork, StopSilent, RecoverWork, DeliverRecovery, Stopping, StopCancelled,
                     JoinDrain, DrainTimesOut, Undrained, ConfirmAbsent, RetireDrained
<1>11. CASE HandingOff \/ Pause \/ Closing \/ \E i \in Attempts : Handoff(i)
  BY <1>2, <1>11 DEF HandingOff, Intend, ResumeHandoff, Replace, Handoff, Pause, Closing, BeginClose, CloseDrains,
                     CloseDrained, Release
<1>12. CASE Crash \/ Reopen \/ UNCHANGED vars
  BY <1>2, <1>12 DEF Crash, Reopen, Restart, vars
<1>13. CASE \E i \in Id : Session(i) \/ Provider(i) \/ Reconcile(i)
  BY <1>2, <1>13 DEF Session, TurnEnds, SessionEnds, Message, AdmitWake, Resume, Deliver, Provider, DrainSettles,
                     DrainFails, Reconcile
<1>. QED  BY <1>3, <1>4, <1>5, <1>6, <1>7, <1>8, <1>9, <1>10, <1>11, <1>12, <1>13
          DEF Next, Coordinator, Scan, Lead, Accepting

\* The roster, the sessions' turns and the mailbox stay well formed.
LEMMA TeamStep ==
    ASSUME IInv, [Next]_vars
    PROVE  TeamOK'
<1>1. TeamOK /\ at.runs \in Nat
  BY Halves DEF StoresOK, IInv, TypeOK
<1>2. CASE UNCHANGED team
  BY <1>1, <1>2 DEF team, TeamOK
<1>3. at.cur # 0 => at.cur \in Id
  BY AtHand
<1>4. "running" \in Turns /\ "interrupted" \in Turns /\ "reported" \in Turns /\ "silent" \in Turns
  BY DEF Turns
<1>5. CASE Provision \/ ChildStarts \/ SpawnFails \/ ChildSettles
  BY <1>1, <1>3, <1>4, <1>5 DEF Provision, ChildStarts, SpawnFails, ChildSettles, At, TeamOK
<1>6. CASE RecoverWork
  BY <1>1, <1>3, <1>6 DEF RecoverWork, At, TeamOK
<1>7. CASE DeliverRecovery
  BY <1>1, <1>3, <1>7 DEF DeliverRecovery, At, TeamOK
<1>8. CASE Crash \/ Reopen
  BY <1>1, <1>4, <1>8 DEF Crash, Reopen, Restart, TeamOK
<1>9. CASE \E i \in Id : TurnEnds(i) \/ Message(i) \/ Reconcile(i) \/ DrainSettles(i)
  <2>1. CASE \E i \in Id : TurnEnds(i)
    BY <1>1, <1>4, <2>1 DEF TurnEnds, TeamOK
  <2>2. CASE \E i \in Id : Message(i) \/ Reconcile(i)
    BY <1>1, <2>2 DEF Message, Reconcile, TeamOK
  <2>3. CASE \E i \in Id : DrainSettles(i)
    BY <1>1, <1>4, <2>3 DEF DrainSettles, TeamOK
  <2>. QED  BY <1>9, <2>1, <2>2, <2>3
<1>10. CASE \E i \in Id : Resume(i) \/ Deliver(i)
  BY <1>1, <1>4, <1>10 DEF Resume, Deliver, TeamOK
<1>11. CASE \E i \in Id : SessionEnds(i) \/ AdmitWake(i) \/ DrainFails(i)
  BY <1>2, <1>11 DEF SessionEnds, AdmitWake, DrainFails
<1>12. CASE Scan \/ Pause \/ Closing \/ Lead
  BY <1>2, <1>12 DEF Scan, BeginScan, NextLoop, Take, AdmitDispatch, DispatchUnadmitted, EndScan, Dispatch, Pause,
                     Closing, BeginClose, CloseDrains, CloseDrained, Release, Lead, Cancel, Retry, AcceptReport, Handoff
<1>13. CASE Adopt \/ ActivateStarted \/ Classify \/ RecordProvisionFailure \/ Inspect \/ ReportWork \/ StopSilent
  BY <1>2, <1>13 DEF Adopt, ActivateStarted, Classify, RecordProvisionFailure, Inspect, ReportWork, StopSilent
<1>14. CASE Stopping \/ HandingOff \/ Accepting \/ UNCHANGED vars
  BY <1>2, <1>14 DEF Stopping, StopCancelled, JoinDrain, DrainTimesOut, Undrained, ConfirmAbsent, RetireDrained,
                     HandingOff, Intend, ResumeHandoff, Replace, Accepting, ApplyReport, SettleReport, vars
<1>. QED  BY <1>5, <1>6, <1>7, <1>8, <1>9, <1>10, <1>11, <1>12, <1>13, <1>14
          DEF Next, Coordinator, Start, Observe, Session, Provider

\* Sessions, resumptions and drains are those of known identities.
LEMMA RuntimeStep ==
    ASSUME IInv, [Next]_vars
    PROVE  RuntimeOK'
<1>1. RuntimeOK
  BY Halves DEF StoresOK
<1>2. CASE UNCHANGED runtime
  BY <1>1, <1>2 DEF runtime, RuntimeOK
<1>3. at.cur # 0 => at.cur \in Id
  BY AtHand
<1>4. CASE ChildStarts \/ SpawnFails \/ Classify \/ JoinDrain
  BY <1>1, <1>3, <1>4 DEF ChildStarts, SpawnFails, Classify, JoinDrain, At, RuntimeOK
<1>5. CASE CloseDrains
  <2>1. at.todo \in SUBSET Nat /\ at.todo \subseteq Id /\ at.todo # {}
    BY <1>5 DEF CloseDrains, IInv, TypeOK, Id
  <2>2. Min(at.todo) \in Id
    BY <2>1, MinOfSet
  <2>. QED  BY <1>1, <1>5, <2>2 DEF CloseDrains, RuntimeOK
<1>6. CASE Crash \/ Reopen
  BY <1>1, <1>6 DEF Crash, Reopen, Restart, RuntimeOK
<1>7. CASE \E i \in Id : SessionEnds(i) \/ AdmitWake(i) \/ Resume(i) \/ DrainSettles(i) \/ DrainFails(i)
  BY <1>1, <1>7 DEF SessionEnds, AdmitWake, Resume, DrainSettles, DrainFails, RuntimeOK
<1>8. CASE \E i \in Id : TurnEnds(i) \/ Message(i) \/ Deliver(i) \/ Reconcile(i)
  BY <1>2, <1>8 DEF TurnEnds, Message, Deliver, Reconcile
<1>9. CASE Scan \/ Pause \/ BeginClose \/ CloseDrained \/ Release \/ Lead
  BY <1>2, <1>9 DEF Scan, BeginScan, NextLoop, Take, AdmitDispatch, DispatchUnadmitted, EndScan, Dispatch, Pause,
                    BeginClose, CloseDrained, Release, Lead, Cancel, Retry, AcceptReport, Handoff
<1>10. CASE Adopt \/ Provision \/ ChildSettles \/ ActivateStarted \/ RecordProvisionFailure \/ Observe
  BY <1>2, <1>10 DEF Adopt, Provision, ChildSettles, ActivateStarted, RecordProvisionFailure, Observe, Inspect,
                     ReportWork, StopSilent, RecoverWork, DeliverRecovery
<1>11. CASE \/ StopCancelled \/ DrainTimesOut \/ Undrained \/ ConfirmAbsent \/ RetireDrained
            \/ HandingOff \/ Accepting \/ UNCHANGED vars
  BY <1>2, <1>11 DEF StopCancelled, DrainTimesOut, Undrained, ConfirmAbsent, RetireDrained, HandingOff, Intend,
                     ResumeHandoff, Replace, Accepting, ApplyReport, SettleReport, vars
<1>. QED  BY <1>4, <1>5, <1>6, <1>7, <1>8, <1>9, <1>10, <1>11
          DEF Next, Coordinator, Start, Stopping, Closing, Session, Provider

\* A fault is one of those the bound allows.
LEMMA FaultStep ==
    ASSUME ControlOK, UNCHANGED faults \/ Fault
    PROVE  faults' \in 0..MaxFaults
BY ExecutionAssumption DEF ControlOK, Fault, ExecutionAssumption

\* The controls stay well formed, and the faults within their bound.
LEMMA ControlStep ==
    ASSUME IInv, [Next]_vars
    PROVE  ControlOK'
<1>1. ControlOK
  BY Halves DEF StoresOK
<1>2. CASE UNCHANGED <<shutdown, rooted, paused>> /\ (UNCHANGED faults \/ Fault)
  BY <1>1, <1>2, FaultStep DEF ControlOK
<1>3. CASE UNCHANGED control
  BY <1>2, <1>3 DEF control
<1>4. CASE Take \/ AdmitDispatch \/ Pause \/ BeginClose \/ Crash \/ Reopen
  <2>1. UNCHANGED faults \/ Fault
    BY <1>4 DEF Take, AdmitDispatch, Pause, BeginClose, Crash, Reopen
  <2>2. shutdown' \in BOOLEAN /\ rooted' \in BOOLEAN /\ paused' \in BOOLEAN
    BY <1>1, <1>4 DEF Take, AdmitDispatch, Pause, BeginClose, Crash, Reopen, Restart, ControlOK
  <2>. QED  BY <1>1, <2>1, <2>2, FaultStep DEF ControlOK
<1>5. CASE BeginScan \/ NextLoop \/ EndScan \/ Lead \/ CloseDrains \/ CloseDrained \/ Release \/ \E t \in Tasks : Dispatch(t)
  BY <1>3, <1>5 DEF BeginScan, NextLoop, EndScan, Dispatch, Lead, Cancel, Retry, AcceptReport, Handoff, CloseDrains,
                    CloseDrained, Release
<1>6. CASE DispatchUnadmitted \/ Provision \/ SpawnFails \/ DeliverRecovery \/ DrainTimesOut \/ ApplyReport
  BY <1>2, <1>6 DEF DispatchUnadmitted, Provision, SpawnFails, DeliverRecovery, DrainTimesOut, ApplyReport
<1>7. CASE Adopt \/ ChildStarts \/ ChildSettles \/ ActivateStarted \/ Classify \/ RecordProvisionFailure
  BY <1>3, <1>7 DEF Adopt, ChildStarts, ChildSettles, ActivateStarted, Classify, RecordProvisionFailure
<1>8. CASE Inspect \/ ReportWork \/ StopSilent \/ RecoverWork \/ HandingOff \/ SettleReport
  BY <1>3, <1>8 DEF Inspect, ReportWork, StopSilent, RecoverWork, HandingOff, Intend, ResumeHandoff, Replace, SettleReport
<1>9. CASE StopCancelled \/ JoinDrain \/ Undrained \/ ConfirmAbsent \/ RetireDrained \/ UNCHANGED vars
  BY <1>3, <1>9 DEF StopCancelled, JoinDrain, Undrained, ConfirmAbsent, RetireDrained, vars
<1>10. CASE \E i \in Id : Session(i) \/ Provider(i) \/ Reconcile(i)
  BY <1>2, <1>3, <1>10 DEF Session, TurnEnds, SessionEnds, Message, AdmitWake, Resume, Deliver, Provider,
                           DrainSettles, DrainFails, Reconcile
<1>. QED  BY <1>4, <1>5, <1>6, <1>7, <1>8, <1>9, <1>10
          DEF Next, Coordinator, Scan, Start, Observe, Stopping, Accepting, Closing

\* The type invariant is inductive, with what is known of the ledger and of the
\* operation in progress.
LEMMA InvariantStep ==
    ASSUME IInv, [Next]_vars
    PROVE  IInv'
<1>1. LedgerStep
  BY StepIsLedgerStep DEF IInv
<1>2. LedgerOK'
  BY <1>1 DEF IInv, LedgerStep, LedgerOK, Attempts, L!Attempts, Bound
<1>3. OpOK(at', Len(records'))
  BY <1>1, OpStep
<1>4. StoresOK'
  BY BlockedStep, IntakeStep, TeamStep, RuntimeStep, ControlStep DEF StoresOK
<1>. QED  BY <1>2, <1>3, <1>4 DEF IInv, TypeOK, AtOK, LedgerOK, OpOK, StoresOK, IntakeOK, TeamOK, RuntimeOK, ControlOK,
                                  Attempts, L!Attempts

\* Initially nothing is recorded and nothing runs.
LEMMA InitInvariant == Init => IInv
<1>. SUFFICES ASSUME Init PROVE IInv
  OBVIOUS
<1>1. LedgerOK
  BY ExecutionAssumption DEF Init, LedgerOK, Attempts, L!Attempts, ExecutionAssumption
<1>2. OpOK(at, Len(records))
  <2>1. at = Idle /\ Len(records) = 0
    BY DEF Init
  <2>. QED  BY <2>1, ExecutionAssumption DEF OpOK, Idle, Ops, Loops, Steps, Turns, ExecutionAssumption
<1>3. IntakeOK /\ blocked \subseteq Tasks
  BY ExecutionAssumption DEF Init, IntakeOK, ExecutionAssumption
<1>4. TeamOK
  BY DEF Init, TeamOK, Turns
<1>5. RuntimeOK
  BY DEF Init, RuntimeOK
<1>6. ControlOK
  <2>1. 0 \in 0..MaxFaults
    BY ExecutionAssumption DEF ExecutionAssumption
  <2>2. shutdown = FALSE /\ rooted = FALSE /\ paused = FALSE /\ faults = 0
    BY DEF Init
  <2>. QED  BY <2>1, <2>2 DEF ControlOK
<1>. QED  BY <1>1, <1>2, <1>3, <1>4, <1>5, <1>6, Halves DEF StoresOK

\* Every store, every session and the operation in progress is well formed in
\* every reachable state.
THEOREM TypeCorrect == Spec => []TypeOK
<1>1. Init => IInv
  BY InitInvariant
<1>2. IInv /\ [Next]_vars => IInv'
  BY InvariantStep
<1>3. IInv => TypeOK
  BY DEF IInv
<1>. QED  BY <1>1, <1>2, <1>3, PTL DEF Spec

\* The coordinator implements the ledger's protocol: it writes only events the
\* ledger accepts, whatever the schedule and the failures.
THEOREM CoordinatorFollowsLedger == Spec => FollowsLedger
<1>1. Init => L!Init
  BY DEF Init, L!Init
<1>2. IInv /\ [Next]_vars => [L!Next]_(L!vars)
  BY StepIsLedgerStep DEF IInv, LedgerStep, L!vars
<1>3. Init => IInv
  BY InitInvariant
<1>4. IInv /\ [Next]_vars => IInv'
  BY InvariantStep
<1>. QED  BY <1>1, <1>2, <1>3, <1>4, PTL DEF Spec, FollowsLedger, L!Spec

----------------------------------------------------------------------------
(***************************************************************************)
(* What Assignments_proofs shows of every ledger holds of the              *)
(* coordinator's.                                                          *)
(***************************************************************************)
Ledger == INSTANCE Assignments_proofs WITH
       Callers <- {C}, view <- [c \in {C} |-> records],
       limits <- [global |-> Capacity, project |-> [p \in {"project"} |-> Capacity]],
       LimitChoices <- {[global |-> Capacity, project |-> [p \in {"project"} |-> Capacity]]},
       Projects <- {"project"}, ProjectOf <- [t \in Tasks |-> "project"],
       Workers <- Id, Runtimes <- Id, Providers <- {"spawn"}, Policies <- {Pinned}

\* The assumptions of the ledger follow from those of the coordinator.
LEMMA LedgerAssumption == Ledger!ConstantsAssumption
BY ExecutionAssumption DEF ExecutionAssumption, Ledger!ConstantsAssumption, Ledger!Policy, Ledger!Limits, Ledger!Dsh, Id

\* The two instances are one ledger: they measure sets alike ...
LEMMA SameSize == \A S : L!Cardinality(S) = Ledger!Cardinality(S)
BY DEF L!Cardinality, Ledger!Cardinality

\* ... count alike ...
LEMMA SameCounts ==
    \A t : /\ L!Failures(t) = Ledger!Failures(t)
          /\ L!Interruptions(t) = Ledger!Interruptions(t)
          /\ L!Handoffs(t) = Ledger!Handoffs(t)
BY SameSize DEF L!Failures, Ledger!Failures, L!Interruptions, Ledger!Interruptions, L!Handoffs, Ledger!Handoffs,
                L!Lineage, Ledger!Lineage, L!LineageOf, Ledger!LineageOf

\* ... commit alike ...
LEMMA SameCommit == \A c, i, next : L!Commit(c, i, next) <=> Ledger!Commit(c, i, next)
BY DEF L!Commit, Ledger!Commit, L!TokenCurrent, Ledger!TokenCurrent, L!Returned, Ledger!Returned, L!Attempts,
       Ledger!Attempts, L!Live, Ledger!Live

\* ... record the same events of attempts ...
LEMMA SameEvents == \A c, i : L!AttemptEvent(c, i) <=> Ledger!AttemptEvent(c, i)
<1>1. \A c, i : L!Activate(c, i) <=> Ledger!Activate(c, i)
  BY SameCommit DEF L!Activate, Ledger!Activate
<1>2. \A c, i : L!Stop(c, i) <=> Ledger!Stop(c, i)
  BY SameCommit DEF L!Stop, Ledger!Stop
<1>3. \A c, i : L!Report(c, i) <=> Ledger!Report(c, i)
  BY SameCommit DEF L!Report, Ledger!Report
<1>4. \A c, i : L!Recover(c, i) <=> Ledger!Recover(c, i)
  BY SameCommit DEF L!Recover, Ledger!Recover, L!Dsh, Ledger!Dsh
<1>5. \A c, i : L!ExternalUsage(c, i) <=> Ledger!ExternalUsage(c, i)
  BY SameCommit DEF L!ExternalUsage, Ledger!ExternalUsage
<1>6. \A c, i, kind : L!Retire(c, i, kind) <=> Ledger!Retire(c, i, kind)
  BY SameCommit DEF L!Retire, Ledger!Retire
<1>7. \A c, i, kind, retryable : L!ProvisionFailed(c, i, kind, retryable) <=> Ledger!ProvisionFailed(c, i, kind, retryable)
  BY SameCounts, SameCommit DEF L!ProvisionFailed, Ledger!ProvisionFailed
<1>8. \A c, i, kind : L!Interrupt(c, i, kind) <=> Ledger!Interrupt(c, i, kind)
  BY SameCounts, SameCommit DEF L!Interrupt, Ledger!Interrupt
<1>9. \A c, i, w, r : L!HandoffIntent(c, i, w, r) <=> Ledger!HandoffIntent(c, i, w, r)
  BY SameCounts, SameCommit DEF L!HandoffIntent, Ledger!HandoffIntent, L!Dsh, Ledger!Dsh, L!NoIntent,
                                Ledger!NoIntent
<1>10. \A c, i : L!Annotate(c, i) <=> Ledger!Annotate(c, i)
  BY SameCommit DEF L!Annotate, Ledger!Annotate
<1>. QED  BY <1>1, <1>2, <1>3, <1>4, <1>5, <1>6, <1>7, <1>8, <1>9, <1>10 DEF L!AttemptEvent, Ledger!AttemptEvent,
                                                                             L!Kinds, Ledger!Kinds

\* ... and make the same reservations.
LEMMA SameReservations == \A c, t : L!Reservation(c, t) <=> Ledger!Reservation(c, t)
<1>1. \A t : L!CapacityFree(t) <=> Ledger!CapacityFree(t)
  BY SameSize DEF L!CapacityFree, Ledger!CapacityFree, L!LiveSet, Ledger!LiveSet, L!Live, Ledger!Live, L!Attempts,
                  Ledger!Attempts
<1>2. \A c, t, p : L!CitesGeneration(c, t, p) <=> Ledger!CitesGeneration(c, t, p)
  BY DEF L!CitesGeneration, Ledger!CitesGeneration, L!IsPrior, Ledger!IsPrior, L!GenerationAt, Ledger!GenerationAt,
         L!Lineage, Ledger!Lineage, L!LineageOf, Ledger!LineageOf
<1>3. \A t, p, a, b, pol, r, h :
        L!Admissible(t, p, a, b, pol, r, h) <=> Ledger!Admissible(t, p, a, b, pol, r, h)
  BY SameCounts DEF L!Admissible, Ledger!Admissible, L!IsPrior, Ledger!IsPrior, L!RepairLineage,
                    Ledger!RepairLineage, L!HandoffLineage, Ledger!HandoffLineage, L!PredecessorReleased,
                    Ledger!PredecessorReleased, L!Live, Ledger!Live, L!Attempts, Ledger!Attempts, L!NoRepair,
                    Ledger!NoRepair, L!NoHandoff, Ledger!NoHandoff, L!NoIntent, Ledger!NoIntent, L!Dsh, Ledger!Dsh
<1>4. \A t, p, a, b, v, pol, r, h :
        L!NewAttempt(t, p, a, b, v, pol, r, h) = Ledger!NewAttempt(t, p, a, b, v, pol, r, h)
  BY DEF L!NewAttempt, Ledger!NewAttempt, L!GenerationAt, Ledger!GenerationAt, L!NoProvisioning,
         Ledger!NoProvisioning, L!NoIntent, Ledger!NoIntent
<1>5. \A c : L!Returned(c) <=> Ledger!Returned(c)
  BY DEF L!Returned, Ledger!Returned
<1>6. \A c, t, p, a, b, v, pol, r, h :
        L!Reserve(c, t, p, a, b, v, pol, r, h) <=> Ledger!Reserve(c, t, p, a, b, v, pol, r, h)
  BY <1>1, <1>2, <1>3, <1>4, <1>5 DEF L!Reserve, Ledger!Reserve
<1>7. \A p : L!RepairChoices(p) = Ledger!RepairChoices(p) /\ L!HandoffChoices(p) = Ledger!HandoffChoices(p)
  BY DEF L!RepairChoices, Ledger!RepairChoices, L!HandoffChoices, Ledger!HandoffChoices, L!NoRepair,
         Ledger!NoRepair, L!NoHandoff, Ledger!NoHandoff
<1>8. \A t, p : L!IsPrior(records, t, p) <=> Ledger!IsPrior(records, t, p)
  BY DEF L!IsPrior, Ledger!IsPrior
<1>. QED  BY <1>6, <1>7, <1>8 DEF L!Reservation, Ledger!Reservation

\* In every reachable state no task, worker or runtime identity has two owners,
\* the generations of a task count its attempts, and its repairs and handoffs
\* follow from the attempts they cite, whatever the coordinator went through.
THEOREM CoordinatorKeepsLedger ==
    Spec => [](L!ExclusiveOwnership /\ L!GenerationChain /\ L!RepairHistory /\ L!HandoffConsumedOnce)
<1>1. Ledger!Spec => []Ledger!LedgerInv
  BY LedgerAssumption, Ledger!LedgerCorrect
<1>2. L!Init => Ledger!Init
  BY DEF L!Init, Ledger!Init
<1>3. [L!Next]_(L!vars) => [Ledger!Next]_(Ledger!vars)
  BY SameEvents, SameReservations DEF L!Next, Ledger!Next, L!List, Ledger!List, L!Configure, Ledger!Configure,
                                      L!vars, Ledger!vars, L!Attempts, Ledger!Attempts
<1>4. Ledger!LedgerInv => L!ExclusiveOwnership /\ L!GenerationChain /\ L!RepairHistory /\ L!HandoffConsumedOnce
  BY DEF Ledger!LedgerInv, L!ExclusiveOwnership, Ledger!ExclusiveOwnership, L!GenerationChain, Ledger!GenerationChain,
         L!RepairHistory, Ledger!RepairHistory, L!HandoffConsumedOnce, Ledger!HandoffConsumedOnce, L!Attempts,
         Ledger!Attempts, L!Live, Ledger!Live, L!IsPredecessor, Ledger!IsPredecessor, L!NoRepair, Ledger!NoRepair,
         L!NoHandoff, Ledger!NoHandoff, L!NoIntent, Ledger!NoIntent
<1>5. Spec => L!Spec
  BY CoordinatorFollowsLedger DEF FollowsLedger
<1>. QED  BY <1>1, <1>2, <1>3, <1>4, <1>5, PTL DEF L!Spec, Ledger!Spec
=============================================================================
