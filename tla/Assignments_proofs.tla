------------------------ MODULE Assignments_proofs ------------------------
(***************************************************************************)
(* Theorems about the attempt ledger, for every set of tasks, workers and  *)
(* runtimes, every policy and every bound.                                 *)
(***************************************************************************)
EXTENDS Assignments, SequenceTheorems, FiniteSetTheorems, TLAPS

\* A commit changes exactly one live attempt, to the given record with the
\* next revision; what the record must satisfy is the caller's business.
LEMMA CommitType ==
    ASSUME TypeOK, NEW c \in Callers, NEW i \in Attempts, NEW next \in Attempt, Commit(c, i, next)
    PROVE  TypeOK'
<1>1. records[i].revision + 1 \in Nat
  <2>1. records[i] \in Attempt
    BY DEF TypeOK, Attempts
  <2>2. records[i].revision \in Nat
    BY <2>1 DEF Attempt
  <2>. QED  BY <2>2
<1>2. [next EXCEPT !.revision = records[i].revision + 1] \in Attempt
  BY <1>1 DEF Attempt
<1>3. records' \in Seq(Attempt)
  BY <1>2 DEF TypeOK, Commit, Attempts
<1>. QED  BY <1>3 DEF TypeOK, Commit, Returned

LEMMA CountType ==
    ASSUME TypeOK, NEW S \in SUBSET Attempts
    PROVE  IsFiniteSet(S) /\ Cardinality(S) \in Nat
<1>1. Len(records) \in Nat
  BY DEF TypeOK
<1>2. IsFiniteSet(Attempts)
  BY <1>1, FS_Interval DEF Attempts
<1>. QED  BY <1>2, FS_Subset, FS_CardinalityType

\* The record a reservation writes is well formed.
LEMMA NewAttemptType ==
    ASSUME TypeOK, NEW c \in Callers, NEW t \in Tasks, NEW p \in 0..Len(records), NEW worker \in Workers,
           NEW runtime \in Runtimes, NEW provider \in Providers, NEW policy \in Policies,
           NEW repair \in RepairChoices(p), NEW handoff \in HandoffChoices(p)
    PROVE  NewAttempt(t, p, worker, runtime, provider, policy, repair, handoff) \in Attempt
<1>1. p # 0 => records[p] \in Attempt
  BY DEF TypeOK
<1>2. GenerationAt(records, p) \in Nat
  BY <1>1 DEF GenerationAt, Attempt
<1>3. repair \in [previous : Nat, round : Nat] /\ handoff \in [previous : Nat, round : Nat]
  <2>1. p \in Nat
    BY DEF TypeOK
  <2>2. p # 0 => /\ records[p].repair \in [previous : Nat, round : Nat]
                 /\ records[p].intent.round \in Nat
    BY <1>1 DEF Attempt
  <2>3. p # 0 => records[p].repair.round + 1 \in Nat
    BY <2>2
  <2>. QED  BY <2>1, <2>2, <2>3 DEF RepairChoices, HandoffChoices, NoRepair, NoHandoff
<1>. QED  BY <1>2, <1>3 DEF NewAttempt, Attempt, Phases, NoIntent, NoProvisioning

\* Every snapshot and every record stays well formed: each event writes a
\* record of type Attempt (what eventSchema and reduce() accept).
THEOREM TypeCorrect == Spec => []TypeOK
<1>. USE ConstantsAssumption
<1>1. Init => TypeOK
  BY DEF Init, TypeOK
<1>2. TypeOK /\ [Next]_vars => TypeOK'
  <2>. SUFFICES ASSUME TypeOK, [Next]_vars PROVE TypeOK'
    OBVIOUS
  <2>1. ASSUME NEW c \in Callers, NEW t \in Tasks, NEW p \in 0..Len(records), NEW worker \in Workers,
               NEW runtime \in Runtimes, NEW provider \in Providers, NEW policy \in Policies,
               NEW repair \in RepairChoices(p), NEW handoff \in HandoffChoices(p),
               Reserve(c, t, p, worker, runtime, provider, policy, repair, handoff)
        PROVE  TypeOK'
    <3>. DEFINE x == NewAttempt(t, p, worker, runtime, provider, policy, repair, handoff)
    <3>1. x \in Attempt
      BY NewAttemptType
    <3>2. records' = Append(records, x) /\ Returned(c) /\ UNCHANGED limits
      BY <2>1 DEF Reserve
    <3>. HIDE DEF x
    <3>3. records' \in Seq(Attempt)
      BY <3>1, <3>2 DEF TypeOK
    <3>. QED  BY <3>2, <3>3 DEF Returned, TypeOK
  <2>2. ASSUME NEW c \in Callers, NEW i \in Attempts, AttemptEvent(c, i) PROVE TypeOK'
    <3>1. records[i] \in Attempt
      BY DEF TypeOK, Attempts
    <3>2. Failures(records[i].task) + 1 \in Nat /\ Interruptions(records[i].task) + 1 \in Nat
          /\ Handoffs(records[i].task) + 1 \in Nat
      BY CountType DEF Failures, Interruptions, Handoffs, Lineage, LineageOf, Attempts
    <3>3. CASE ExternalUsage(c, i)
      BY <3>1, <3>3, CommitType DEF ExternalUsage, Attempt
    <3>4. CASE Recover(c, i)
      BY <3>1, <3>4, CommitType DEF Recover, Attempt
    <3>5. CASE Annotate(c, i)
      BY <3>1, <3>5, CommitType DEF Annotate
    <3>6. CASE Activate(c, i)
      BY <3>1, <3>6, CommitType DEF Activate, Attempt, Phases
    <3>7. CASE Report(c, i)
      BY <3>1, <3>7, CommitType DEF Report, Attempt
    <3>8. CASE Stop(c, i)
      BY <3>1, <3>8, CommitType DEF Stop, Attempt, Phases
    <3>9. CASE \E kind \in Kinds : Retire(c, i, kind)
      BY <3>1, <3>9, CommitType DEF Retire, Attempt, Phases, Kinds
    <3>10. CASE \E kind \in Kinds : Interrupt(c, i, kind)
      BY <3>1, <3>2, <3>10, CommitType DEF Interrupt, Attempt, Phases, Kinds
    <3>11. CASE \E worker \in Workers, runtime \in Runtimes : HandoffIntent(c, i, worker, runtime)
      BY <3>1, <3>2, <3>11, CommitType DEF HandoffIntent, Attempt
    <3>12. CASE \E kind \in Kinds, retryable \in BOOLEAN : ProvisionFailed(c, i, kind, retryable)
      BY <3>1, <3>2, <3>12, CommitType DEF ProvisionFailed, Attempt, Phases, Kinds
    <3>. QED  BY <2>2, <3>3, <3>4, <3>5, <3>6, <3>7, <3>8, <3>9, <3>10, <3>11, <3>12 DEF AttemptEvent
  <2>3. ASSUME NEW l \in LimitChoices, Configure(l) PROVE TypeOK'
    BY <2>3 DEF Configure, TypeOK
  <2>4. ASSUME NEW c \in Callers, List(c) PROVE TypeOK'
    BY <2>4 DEF List, TypeOK
  <2>5. CASE UNCHANGED vars
    BY <2>5 DEF vars, TypeOK
  <2>. QED  BY <2>1, <2>2, <2>3, <2>4, <2>5 DEF Next, Reservation
<1>. QED  BY <1>1, <1>2, PTL DEF Spec

----------------------------------------------------------------------------
(***************************************************************************)
(* What an event may touch.  Identity, policy, repair and handoff of an    *)
(* attempt are fixed by its reservation, whatever event follows.           *)
(***************************************************************************)
SameIdentity(x, y) ==
    /\ x.task = y.task
    /\ x.worker = y.worker
    /\ x.runtime = y.runtime
    /\ x.policy = y.policy
    /\ x.generation = y.generation
    /\ x.repair = y.repair
    /\ x.handoff = y.handoff

\* records' differs from records in the live attempt i alone, to the state the
\* caller's token named.
Touches(c, i, next) ==
    /\ Live(i)
    /\ TokenCurrent(c, i)
    /\ next \in Attempt
    /\ records' = [records EXCEPT ![i] = next]
    /\ next.revision = records[i].revision + 1
    /\ SameIdentity(next, records[i])

LEMMA CommitTouches ==
    ASSUME TypeOK, NEW c \in Callers, NEW i \in Attempts, NEW next \in Attempt,
           SameIdentity(next, records[i]), Commit(c, i, next)
    PROVE  UNCHANGED limits /\ Returned(c) /\ \E x \in Attempt : Touches(c, i, x)
<1>. DEFINE x == [next EXCEPT !.revision = records[i].revision + 1]
<1>1. records[i] \in Attempt
  BY DEF TypeOK, Attempts
<1>2. records[i].revision + 1 \in Nat
  <2>1. records[i].revision \in Nat
    BY <1>1 DEF Attempt
  <2>. QED  BY <2>1
<1>3. x \in Attempt /\ x.revision = records[i].revision + 1 /\ SameIdentity(x, records[i])
  BY <1>2 DEF Attempt, SameIdentity
<1>4. Touches(c, i, x) /\ UNCHANGED limits /\ Returned(c)
  BY <1>3 DEF Touches, Commit
<1>. QED  BY <1>3, <1>4

LEMMA EventTouches ==
    ASSUME TypeOK, NEW c \in Callers, NEW i \in Attempts, AttemptEvent(c, i)
    PROVE  UNCHANGED limits /\ Returned(c) /\ \E next \in Attempt : Touches(c, i, next)
<1>1. records[i] \in Attempt
  BY DEF TypeOK, Attempts
<1>2. Failures(records[i].task) + 1 \in Nat /\ Interruptions(records[i].task) + 1 \in Nat
      /\ Handoffs(records[i].task) + 1 \in Nat
  BY CountType DEF Failures, Interruptions, Handoffs, Lineage, LineageOf, Attempts
<1>3. CASE ExternalUsage(c, i)
  BY <1>1, <1>3, CommitTouches DEF ExternalUsage, Attempt, SameIdentity
<1>4. CASE Recover(c, i)
  BY <1>1, <1>4, CommitTouches DEF Recover, Attempt, SameIdentity
<1>5. CASE Annotate(c, i)
  BY <1>1, <1>5, CommitTouches DEF Annotate, SameIdentity
<1>6. CASE Activate(c, i)
  BY <1>1, <1>6, CommitTouches DEF Activate, Attempt, Phases, SameIdentity
<1>7. CASE Report(c, i)
  BY <1>1, <1>7, CommitTouches DEF Report, Attempt, SameIdentity
<1>8. CASE Stop(c, i)
  BY <1>1, <1>8, CommitTouches DEF Stop, Attempt, Phases, SameIdentity
<1>9. CASE \E kind \in Kinds : Retire(c, i, kind)
  BY <1>1, <1>9, CommitTouches DEF Retire, Attempt, Phases, Kinds, SameIdentity
<1>10. CASE \E kind \in Kinds : Interrupt(c, i, kind)
  BY <1>1, <1>2, <1>10, CommitTouches DEF Interrupt, Attempt, Phases, Kinds, SameIdentity
<1>11. CASE \E worker \in Workers, runtime \in Runtimes : HandoffIntent(c, i, worker, runtime)
  BY <1>1, <1>2, <1>11, CommitTouches DEF HandoffIntent, Attempt, SameIdentity
<1>12. ASSUME NEW kind \in Kinds, NEW retryable \in BOOLEAN, ProvisionFailed(c, i, kind, retryable)
       PROVE  UNCHANGED limits /\ Returned(c) /\ \E next \in Attempt : Touches(c, i, next)
  <2>. DEFINE failed == [count |-> Failures(records[i].task) + 1, retryable |-> retryable]
              next == [records[i] EXCEPT !.phase = "terminal", !.evidence = kind,
                                         !.stopReason = TRUE, !.provisioning = failed]
  <2>1. failed \in [count : Nat, retryable : BOOLEAN]
    BY <1>2
  <2>2. Commit(c, i, next)
    BY <1>12 DEF ProvisionFailed
  <2>. HIDE DEF failed
  <2>3. next \in Attempt /\ SameIdentity(next, records[i])
    BY <1>1, <2>1 DEF Attempt, Phases, Kinds, SameIdentity
  <2>. QED  BY <2>2, <2>3, CommitTouches
<1>. QED  BY <1>3, <1>4, <1>5, <1>6, <1>7, <1>8, <1>9, <1>10, <1>11, <1>12 DEF AttemptEvent

\* A reservation appends one attempt and leaves the others alone.
LEMMA ReserveAppends ==
    ASSUME TypeOK, NEW c \in Callers, NEW t \in Tasks, NEW p \in 0..Len(records), NEW worker \in Workers,
           NEW runtime \in Runtimes, NEW provider \in Providers, NEW policy \in Policies,
           NEW repair \in RepairChoices(p), NEW handoff \in HandoffChoices(p),
           Reserve(c, t, p, worker, runtime, provider, policy, repair, handoff)
    PROVE  /\ Len(records) \in Nat
           /\ Len(records') = Len(records) + 1
           /\ \A j \in Attempts : records'[j] = records[j]
           /\ records'[Len(records) + 1] =
                NewAttempt(t, p, worker, runtime, provider, policy, repair, handoff)
<1>1. records' = Append(records, NewAttempt(t, p, worker, runtime, provider, policy, repair, handoff))
  BY DEF Reserve
<1>2. records \in Seq(Attempt)
  BY DEF TypeOK
<1>3. NewAttempt(t, p, worker, runtime, provider, policy, repair, handoff) \in Attempt
  BY NewAttemptType
<1>. HIDE DEF NewAttempt
<1>. QED  BY ONLY <1>1, <1>2, <1>3, AppendProperties, LenProperties DEF Attempts

----------------------------------------------------------------------------
(***************************************************************************)
(* The invariant that carries the lineage properties.  It is their         *)
(* conjunction: an attempt with a successor is terminal (ownership), so    *)
(* no later event can change what the successor's history relies on.       *)
(***************************************************************************)
LedgerInv ==
    /\ TypeOK
    /\ ExclusiveOwnership
    /\ GenerationChain
    /\ RepairHistory
    /\ HandoffConsumedOnce

\* An attempt that has a later attempt of its task is not live, hence not the
\* one an event touches.
LEMMA TouchFrame ==
    ASSUME TypeOK, ExclusiveOwnership, NEW c \in Callers, NEW i \in Attempts, NEW next \in Attempt, Touches(c, i, next)
    PROVE  /\ Len(records) \in Nat
           /\ Len(records') = Len(records)
           /\ \A j \in Attempts : j # i => records'[j] = records[j]
           /\ records'[i] = next
           /\ \A a, b \in Attempts : a < b /\ records[a].task = records[b].task =>
                a # i /\ records'[a] = records[a]
<1>1. Len(records) \in Nat /\ DOMAIN records = Attempts
  BY DEF TypeOK, Attempts
<1>2. Len(records') = Len(records)
  BY <1>1 DEF Touches, TypeOK
<1>3. \A j \in Attempts : records'[j] = IF j = i THEN next ELSE records[j]
  BY <1>1 DEF Touches
<1>4. ASSUME NEW a \in Attempts, NEW b \in Attempts, a < b, records[a].task = records[b].task
      PROVE  a # i
  BY <1>4 DEF Touches, ExclusiveOwnership
<1>. QED  BY <1>1, <1>2, <1>3, <1>4

LEMMA OwnershipStep ==
    ASSUME LedgerInv, [Next]_vars
    PROVE  ExclusiveOwnership'
<1>. USE DEF LedgerInv
<1>1. ASSUME NEW c \in Callers, NEW t \in Tasks, NEW p \in 0..Len(records), NEW worker \in Workers,
             NEW runtime \in Runtimes, NEW provider \in Providers, NEW policy \in Policies,
             NEW repair \in RepairChoices(p), NEW handoff \in HandoffChoices(p),
             Reserve(c, t, p, worker, runtime, provider, policy, repair, handoff)
      PROVE  ExclusiveOwnership'
  <2>. DEFINE n == Len(records) + 1
              new == NewAttempt(t, p, worker, runtime, provider, policy, repair, handoff)
  <2>1. /\ Len(records) \in Nat /\ Len(records') = n /\ records'[n] = new
        /\ \A j \in Attempts : records'[j] = records[j]
    BY <1>1, ReserveAppends
  <2>2. /\ new.task = t /\ new.worker = worker /\ new.runtime = runtime
    BY DEF NewAttempt
  <2>3. ASSUME NEW i \in Attempts, records[i].task = t PROVE ~Live(i)
    <3>1. p # 0 /\ i <= p /\ records[p].task = t /\ p \in Attempts
      BY <1>1, <2>1, <2>3 DEF Reserve, Admissible, IsPrior, Attempts
    <3>2. CASE i = p
      BY <1>1, <3>1, <3>2 DEF Reserve, Admissible, PredecessorReleased, Live
    <3>3. CASE i < p
      BY <2>3, <3>1, <3>3 DEF ExclusiveOwnership
    <3>. QED  BY <2>1, <3>1, <3>2, <3>3 DEF Attempts
  <2>4. \A i \in Attempts : /\ Live(i) => records[i].worker # worker
                            /\ records[i].runtime # runtime
    BY <1>1 DEF Reserve, Admissible
  <2>. HIDE DEF new
  <2>5. SUFFICES ASSUME NEW i \in Attempts', NEW j \in Attempts', i < j
        PROVE  /\ records'[i].task = records'[j].task => ~Live(i)'
               /\ (Live(i) /\ Live(j))' => records'[i].worker # records'[j].worker
               /\ records'[i].runtime # records'[j].runtime
    BY DEF ExclusiveOwnership
  <2>6. i \in Attempts /\ records'[i] = records[i]
    BY <2>1, <2>5 DEF Attempts
  <2>7. CASE j = n
    BY <2>1, <2>2, <2>3, <2>4, <2>6, <2>7 DEF Live
  <2>8. CASE j # n
    <3>1. j \in Attempts /\ records'[j] = records[j]
      BY <2>1, <2>8 DEF Attempts
    <3>. QED  BY <2>5, <2>6, <3>1 DEF ExclusiveOwnership, Live
  <2>. QED  BY <2>7, <2>8
<1>2. ASSUME NEW c \in Callers, NEW k \in Attempts, AttemptEvent(c, k) PROVE ExclusiveOwnership'
  <2>1. PICK next \in Attempt : Touches(c, k, next)
    BY <1>2, EventTouches
  <2>2. Attempts' = Attempts /\ \A j \in Attempts : SameIdentity(records'[j], records[j])
    BY <2>1, TouchFrame DEF Attempts, SameIdentity, Touches
  <2>3. \A j \in Attempts : Live(j)' => Live(j)
    BY <2>1, TouchFrame DEF Live, Touches
  <2>. QED  BY <2>2, <2>3 DEF ExclusiveOwnership, SameIdentity
<1>3. CASE UNCHANGED records
  BY <1>3 DEF ExclusiveOwnership, Attempts, Live
<1>. QED  BY <1>1, <1>2, <1>3 DEF Next, Reservation, Configure, List, vars

\* After a reservation the predecessors of the older attempts are what they
\* were, and the new attempt's is the one the reservation replaced.
LEMMA ReservePredecessor ==
    ASSUME TypeOK, NEW c \in Callers, NEW t \in Tasks, NEW p \in 0..Len(records), NEW worker \in Workers,
           NEW runtime \in Runtimes, NEW provider \in Providers, NEW policy \in Policies,
           NEW repair \in RepairChoices(p), NEW handoff \in HandoffChoices(p),
           Reserve(c, t, p, worker, runtime, provider, policy, repair, handoff)
    PROVE  /\ \A b \in Attempts' : b \in Attempts \/ b = Len(records) + 1
           /\ \A b \in Attempts : \A a \in 1 .. b - 1 :
                a \in Attempts /\ (IsPredecessor(records', a, b) <=> IsPredecessor(records, a, b))
           /\ \A a \in 1 .. Len(records) : IsPredecessor(records', a, Len(records) + 1) <=> a = p
           /\ \A a \in 1 .. Len(records) : records[a].task = t => p # 0
           /\ p # 0 => p \in Attempts /\ records[p].task = t
<1>. DEFINE n == Len(records) + 1
            new == NewAttempt(t, p, worker, runtime, provider, policy, repair, handoff)
<1>1. /\ Len(records) \in Nat /\ Len(records') = n /\ records'[n] = new
      /\ \A j \in Attempts : records'[j] = records[j]
  BY ReserveAppends
<1>2. new.task = t
  BY DEF NewAttempt
<1>3. /\ p # 0 => p \in Attempts /\ records[p].task = t
      /\ \A i \in p + 1 .. Len(records) : records[i].task # t
  BY <1>1 DEF Reserve, Admissible, IsPrior, Attempts
<1>. HIDE DEF new
<1>4. \A b \in Attempts' : b \in Attempts \/ b = n
  BY <1>1 DEF Attempts
<1>5. \A b \in Attempts : \A a \in 1 .. b - 1 : a \in Attempts
  BY <1>1 DEF Attempts
<1>6. ASSUME NEW b \in Attempts, NEW a \in 1 .. b - 1
      PROVE  IsPredecessor(records', a, b) <=> IsPredecessor(records, a, b)
  BY <1>1, <1>5 DEF IsPredecessor, Attempts
<1>7. ASSUME NEW a \in 1 .. Len(records) PROVE IsPredecessor(records', a, n) <=> a = p
  <2>1. n - 1 = Len(records) /\ \A m \in 1 .. Len(records) : records'[m] = records[m]
    BY <1>1 DEF Attempts
  <2>2. IsPredecessor(records', a, n) <=> /\ records[a].task = t
                                 /\ \A m \in a + 1 .. Len(records) : records[m].task # t
    BY <1>1, <1>2, <2>1 DEF IsPredecessor
  <2>3. CASE a < p
    <3>1. p \in a + 1 .. Len(records)
      BY <1>1, <2>3
    <3>. QED  BY <1>1, <1>3, <2>2, <2>3, <3>1
  <2>4. CASE a > p
    <3>1. a \in p + 1 .. Len(records)
      BY <1>1, <2>4
    <3>. QED  BY <1>1, <1>3, <2>2, <2>4, <3>1
  <2>5. CASE a = p
    BY <1>1, <1>3, <2>2, <2>5
  <2>. QED  BY <1>1, <2>3, <2>4, <2>5
<1>8. \A a \in 1 .. Len(records) : records[a].task = t => p # 0
  BY <1>1, <1>3
<1>. QED  BY <1>3, <1>4, <1>5, <1>6, <1>7, <1>8

\* An event leaves the identity of every attempt, the predecessor relation and
\* every predecessor as they were.
LEMMA EventPredecessor ==
    ASSUME TypeOK, ExclusiveOwnership, NEW c \in Callers, NEW k \in Attempts, AttemptEvent(c, k)
    PROVE  /\ Attempts' = Attempts
           /\ \A b \in Attempts : 1 .. b - 1 \subseteq Attempts
           /\ \A b \in Attempts : SameIdentity(records'[b], records[b])
           /\ \A b \in Attempts : \A a \in 1 .. b - 1 :
                IsPredecessor(records', a, b) <=> IsPredecessor(records, a, b)
           /\ \A b \in Attempts : \A a \in 1 .. b - 1 :
                IsPredecessor(records, a, b) => records'[a] = records[a]
<1>1. PICK next \in Attempt : Touches(c, k, next)
  BY EventTouches
<1>2. Attempts' = Attempts /\ \A j \in Attempts : SameIdentity(records'[j], records[j])
  BY <1>1, TouchFrame DEF Attempts, SameIdentity, Touches
<1>3. \A b \in Attempts : 1 .. b - 1 \subseteq Attempts
  BY <1>1, TouchFrame DEF Attempts
<1>4. \A b \in Attempts : \A a \in 1 .. b - 1 : IsPredecessor(records', a, b) <=> IsPredecessor(records, a, b)
  BY <1>2, <1>3 DEF IsPredecessor, SameIdentity, Attempts
<1>5. ASSUME NEW b \in Attempts, NEW a \in 1 .. b - 1, IsPredecessor(records, a, b)
      PROVE  records'[a] = records[a]
  <2>1. a \in Attempts /\ a < b /\ records[a].task = records[b].task
    BY <1>3, <1>5 DEF IsPredecessor, Attempts
  <2>. QED  BY <1>1, <2>1, TouchFrame
<1>. QED  BY <1>2, <1>3, <1>4, <1>5

LEMMA GenerationStep ==
    ASSUME LedgerInv, [Next]_vars
    PROVE  GenerationChain'
<1>. USE DEF LedgerInv
<1>1. ASSUME NEW c \in Callers, NEW t \in Tasks, NEW p \in 0..Len(records), NEW worker \in Workers,
             NEW runtime \in Runtimes, NEW provider \in Providers, NEW policy \in Policies,
             NEW repair \in RepairChoices(p), NEW handoff \in HandoffChoices(p),
             Reserve(c, t, p, worker, runtime, provider, policy, repair, handoff)
      PROVE  GenerationChain'
  <2>. DEFINE n == Len(records) + 1
              new == NewAttempt(t, p, worker, runtime, provider, policy, repair, handoff)
  <2>1. /\ Len(records) \in Nat /\ Len(records') = n /\ records'[n] = new
        /\ \A j \in Attempts : records'[j] = records[j]
    BY <1>1, ReserveAppends
  <2>2. /\ new.task = t /\ new.policy = policy
        /\ new.generation = (IF p = 0 THEN 0 ELSE records[p].generation) + 1
    BY DEF NewAttempt, GenerationAt
  <2>3. p # 0 => policy = records[p].policy
    BY <1>1 DEF Reserve, Admissible, PredecessorReleased
  <2>4. /\ \A b \in Attempts' : b \in Attempts \/ b = n
        /\ \A b \in Attempts : \A a \in 1 .. b - 1 :
             a \in Attempts /\ (IsPredecessor(records', a, b) <=> IsPredecessor(records, a, b))
        /\ \A a \in 1 .. Len(records) : IsPredecessor(records', a, n) <=> a = p
        /\ p # 0 => p \in Attempts /\ records[p].task = t
    BY <1>1, ReservePredecessor
  <2>. HIDE DEF new
  <2>5. SUFFICES ASSUME NEW b \in Attempts'
        PROVE  /\ (\A a \in 1 .. b - 1 : records'[a].task # records'[b].task) => records'[b].generation = 1
               /\ \A a \in 1 .. b - 1 : IsPredecessor(records', a, b) =>
                    /\ records'[b].generation = records'[a].generation + 1
                    /\ records'[b].policy = records'[a].policy
    BY DEF GenerationChain
  <2>6. CASE b \in Attempts
    <3>1. /\ (\A a \in 1 .. b - 1 : records[a].task # records[b].task) => records[b].generation = 1
          /\ \A a \in 1 .. b - 1 : IsPredecessor(records, a, b) =>
               /\ records[b].generation = records[a].generation + 1
               /\ records[b].policy = records[a].policy
      BY <2>6 DEF GenerationChain
    <3>. QED  BY <2>1, <2>4, <2>6, <3>1
  <2>7. CASE b = n
    <3>1. 1 .. b - 1 = 1 .. Len(records) /\ \A a \in 1 .. Len(records) : records'[a] = records[a]
      BY <2>1, <2>7 DEF Attempts
    <3>2. p # 0 => p \in 1 .. Len(records)
      BY <2>4 DEF Attempts
    <3>. QED  BY <2>1, <2>2, <2>3, <2>4, <2>7, <3>1, <3>2
  <2>. QED  BY <2>4, <2>6, <2>7
<1>2. ASSUME NEW c \in Callers, NEW k \in Attempts, AttemptEvent(c, k) PROVE GenerationChain'
  BY <1>2, EventPredecessor DEF GenerationChain, SameIdentity
<1>3. CASE UNCHANGED records
  BY <1>3 DEF GenerationChain, Attempts, IsPredecessor
<1>. QED  BY <1>1, <1>2, <1>3 DEF Next, Reservation, Configure, List, vars

LEMMA RepairStep ==
    ASSUME LedgerInv, [Next]_vars
    PROVE  RepairHistory'
<1>. USE DEF LedgerInv
<1>1. ASSUME NEW c \in Callers, NEW t \in Tasks, NEW p \in 0..Len(records), NEW worker \in Workers,
             NEW runtime \in Runtimes, NEW provider \in Providers, NEW policy \in Policies,
             NEW repair \in RepairChoices(p), NEW handoff \in HandoffChoices(p),
             Reserve(c, t, p, worker, runtime, provider, policy, repair, handoff)
      PROVE  RepairHistory'
  <2>. DEFINE n == Len(records) + 1
              new == NewAttempt(t, p, worker, runtime, provider, policy, repair, handoff)
  <2>1. /\ Len(records) \in Nat /\ Len(records') = n /\ records'[n] = new
        /\ \A j \in Attempts : records'[j] = records[j]
    BY <1>1, ReserveAppends
  <2>2. /\ new.task = t /\ new.policy = policy /\ new.repair = repair /\ new.handoff = handoff
    BY DEF NewAttempt
  <2>3. /\ \A b \in Attempts' : b \in Attempts \/ b = n
        /\ \A b \in Attempts : \A a \in 1 .. b - 1 :
             a \in Attempts /\ (IsPredecessor(records', a, b) <=> IsPredecessor(records, a, b))
        /\ \A a \in 1 .. Len(records) : IsPredecessor(records', a, n) <=> a = p
        /\ p # 0 => p \in Attempts /\ records[p].task = t
    BY <1>1, ReservePredecessor
  <2>4. p = 0 => repair = NoRepair
    BY DEF RepairChoices
  <2>5. p # 0 => \/ /\ repair = records[p].repair
                    /\ records[p].repair # NoRepair =>
                         handoff # NoHandoff \/ records[p].provisioning.count > 0
                 \/ /\ repair = [previous |-> p, round |-> records[p].repair.round + 1]
                    /\ repair.round <= policy.repairLimit
                    /\ records[p].evidence = "stopped"
                    /\ records[p].result
                    /\ ~records[p].stopReason
    <3>1. SUFFICES ASSUME p # 0, RepairLineage(p, policy, repair, handoff)
          PROVE  \/ /\ repair = records[p].repair
                    /\ records[p].repair # NoRepair =>
                         handoff # NoHandoff \/ records[p].provisioning.count > 0
                 \/ /\ repair = [previous |-> p, round |-> records[p].repair.round + 1]
                    /\ repair.round <= policy.repairLimit
                    /\ records[p].evidence = "stopped"
                    /\ records[p].result
                    /\ ~records[p].stopReason
      BY <1>1 DEF Reserve, Admissible
    <3>2. CASE repair = NoRepair
      BY <3>1, <3>2 DEF RepairLineage
    <3>3. CASE repair # NoRepair /\ repair = records[p].repair
                /\ (handoff # NoHandoff \/ records[p].provisioning.count > 0)
      BY <3>3
    <3>4. CASE repair # NoRepair /\ ~(repair = records[p].repair
                /\ (handoff # NoHandoff \/ records[p].provisioning.count > 0))
      <4>1. records[p].evidence = "stopped" /\ ~records[p].stopReason /\ records[p].result
            /\ repair.previous = p /\ repair.round = records[p].repair.round + 1
            /\ repair.round <= policy.repairLimit
        BY <3>1, <3>4 DEF RepairLineage
      <4>2. records[p] \in Attempt
        BY <2>3, <3>1 DEF TypeOK, Attempts
      <4>3. records[p].repair \in [previous : Nat, round : Nat]
        BY <4>2 DEF Attempt
      <4>4. repair = [previous |-> p, round |-> records[p].repair.round + 1]
        BY <3>1, <3>4, <4>1, <4>3 DEF RepairChoices
      <4>. QED  BY <4>1, <4>4
    <3>. QED  BY <3>2, <3>3, <3>4
  <2>6. repair.round <= policy.repairLimit
    <3>1. policy.repairLimit \in Nat
      BY ConstantsAssumption DEF Policy
    <3>2. p # 0 => records[p].repair.round <= records[p].policy.repairLimit
      BY <2>3 DEF RepairHistory
    <3>3. p # 0 => policy = records[p].policy
      BY <1>1 DEF Reserve, Admissible, PredecessorReleased
    <3>. QED  BY <2>4, <2>5, <3>1, <3>2, <3>3 DEF NoRepair
  <2>. HIDE DEF new
  <2>7. SUFFICES ASSUME NEW b \in Attempts'
        PROVE  /\ records'[b].repair.round <= records'[b].policy.repairLimit
               /\ (\A a \in 1 .. b - 1 : records'[a].task # records'[b].task) => records'[b].repair = NoRepair
               /\ \A a \in 1 .. b - 1 : IsPredecessor(records', a, b) =>
                    \/ /\ records'[b].repair = records'[a].repair
                       /\ records'[a].repair # NoRepair =>
                            \/ records'[b].handoff # NoHandoff
                            \/ records'[a].provisioning.count > 0
                    \/ /\ records'[b].repair = [previous |-> a, round |-> records'[a].repair.round + 1]
                       /\ records'[a].evidence = "stopped"
                       /\ records'[a].result
                       /\ ~records'[a].stopReason
    BY DEF RepairHistory
  <2>8. CASE b \in Attempts
    <3>1. records'[b] = records[b] /\ \A a \in 1 .. b - 1 : records'[a] = records[a]
      BY <2>1, <2>3, <2>8
    <3>. QED  BY <2>3, <2>8, <3>1 DEF RepairHistory
  <2>9. CASE b = n
    <3>1. 1 .. b - 1 = 1 .. Len(records) /\ \A a \in 1 .. Len(records) : records'[a] = records[a]
      BY <2>1, <2>9 DEF Attempts
    <3>2. p # 0 => p \in 1 .. Len(records)
      BY <2>3 DEF Attempts
    <3>3. records'[b].repair = repair /\ records'[b].handoff = handoff
          /\ records'[b].policy = policy /\ records'[b].task = t
      BY <2>1, <2>2, <2>9
    <3>4. \A a \in 1 .. b - 1 : IsPredecessor(records', a, b) => a = p /\ p # 0 /\ records'[a] = records[p]
      BY <2>1, <2>3, <2>9, <3>1
    <3>. QED  BY <2>3, <2>4, <2>5, <2>6, <3>1, <3>2, <3>3, <3>4
  <2>. QED  BY <2>3, <2>8, <2>9
<1>2. ASSUME NEW c \in Callers, NEW k \in Attempts, AttemptEvent(c, k) PROVE RepairHistory'
  BY <1>2, EventPredecessor DEF RepairHistory, SameIdentity
<1>3. CASE UNCHANGED records
  BY <1>3 DEF RepairHistory, Attempts, IsPredecessor
<1>. QED  BY <1>1, <1>2, <1>3 DEF Next, Reservation, Configure, List, vars

LEMMA HandoffStep ==
    ASSUME LedgerInv, [Next]_vars
    PROVE  HandoffConsumedOnce'
<1>. USE DEF LedgerInv
<1>1. ASSUME NEW c \in Callers, NEW t \in Tasks, NEW p \in 0..Len(records), NEW worker \in Workers,
             NEW runtime \in Runtimes, NEW provider \in Providers, NEW policy \in Policies,
             NEW repair \in RepairChoices(p), NEW handoff \in HandoffChoices(p),
             Reserve(c, t, p, worker, runtime, provider, policy, repair, handoff)
      PROVE  HandoffConsumedOnce'
  <2>. DEFINE n == Len(records) + 1
              new == NewAttempt(t, p, worker, runtime, provider, policy, repair, handoff)
  <2>1. /\ Len(records) \in Nat /\ Len(records') = n /\ records'[n] = new
        /\ \A j \in Attempts : records'[j] = records[j]
    BY <1>1, ReserveAppends
  <2>2. new.worker = worker /\ new.runtime = runtime /\ new.handoff = handoff
    BY DEF NewAttempt
  <2>3. /\ \A b \in Attempts' : b \in Attempts \/ b = n
        /\ \A b \in Attempts : \A a \in 1 .. b - 1 :
             a \in Attempts /\ (IsPredecessor(records', a, b) <=> IsPredecessor(records, a, b))
        /\ \A a \in 1 .. Len(records) : IsPredecessor(records', a, n) <=> a = p
        /\ p # 0 => p \in Attempts /\ records[p].task = t
    BY <1>1, ReservePredecessor
  <2>4. HandoffLineage(p, policy, worker, runtime, handoff)
    BY <1>1 DEF Reserve, Admissible
  <2>5. handoff # NoHandoff => /\ p # 0
                               /\ handoff.previous = p
                               /\ records[p].intent = [round   |-> handoff.round,
                                                       worker  |-> worker,
                                                       runtime |-> runtime]
    <3>. SUFFICES ASSUME handoff # NoHandoff
         PROVE  /\ p # 0
                /\ handoff.previous = p
                /\ records[p].intent = [round |-> handoff.round, worker |-> worker, runtime |-> runtime]
      OBVIOUS
    <3>1. /\ p # 0 /\ handoff = [previous |-> p, round |-> records[p].intent.round]
          /\ worker = records[p].intent.worker /\ runtime = records[p].intent.runtime
      BY <2>4 DEF HandoffLineage
    <3>2. records[p] \in Attempt
      BY <2>3, <3>1 DEF TypeOK, Attempts
    <3>3. records[p].intent \in [round : Nat, worker : Workers \cup {None}, runtime : Runtimes \cup {None}]
      BY <3>2 DEF Attempt
    <3>. QED  BY <3>1, <3>3
  <2>6. p # 0 /\ records[p].intent # NoIntent => handoff # NoHandoff
    BY <2>4 DEF HandoffLineage
  <2>. HIDE DEF new
  <2>7. SUFFICES ASSUME NEW b \in Attempts'
        PROVE  /\ records'[b].handoff # NoHandoff =>
                    /\ IsPredecessor(records', records'[b].handoff.previous, b)
                    /\ records'[records'[b].handoff.previous].intent =
                         [round   |-> records'[b].handoff.round,
                          worker  |-> records'[b].worker,
                          runtime |-> records'[b].runtime]
               /\ \A a \in 1 .. b - 1 :
                    IsPredecessor(records', a, b) /\ records'[a].intent # NoIntent =>
                      records'[b].handoff.previous = a
    BY DEF HandoffConsumedOnce
  <2>8. CASE b \in Attempts
    <3>1. records'[b] = records[b] /\ \A a \in 1 .. b - 1 : records'[a] = records[a]
      BY <2>1, <2>3, <2>8
    <3>2. /\ records[b].handoff # NoHandoff =>
               /\ IsPredecessor(records, records[b].handoff.previous, b)
               /\ records[records[b].handoff.previous].intent =
                    [round   |-> records[b].handoff.round,
                     worker  |-> records[b].worker,
                     runtime |-> records[b].runtime]
          /\ \A a \in 1 .. b - 1 : IsPredecessor(records, a, b) /\ records[a].intent # NoIntent =>
               records[b].handoff.previous = a
      BY <2>8 DEF HandoffConsumedOnce
    <3>3. records[b].handoff # NoHandoff => records[b].handoff.previous \in 1 .. b - 1
      BY <3>2 DEF IsPredecessor
    <3>. QED  BY <2>3, <2>8, <3>1, <3>2, <3>3
  <2>9. CASE b = n
    <3>1. 1 .. b - 1 = 1 .. Len(records) /\ \A a \in 1 .. Len(records) : records'[a] = records[a]
      BY <2>1, <2>9 DEF Attempts
    <3>2. p # 0 => p \in 1 .. Len(records)
      BY <2>3 DEF Attempts
    <3>3. records'[b].handoff = handoff /\ records'[b].worker = worker /\ records'[b].runtime = runtime
      BY <2>1, <2>2, <2>9
    <3>4. \A a \in 1 .. b - 1 : IsPredecessor(records', a, b) => a = p /\ p # 0 /\ records'[a] = records[p]
      BY <2>1, <2>3, <2>9, <3>1
    <3>5. handoff # NoHandoff => IsPredecessor(records', p, b) /\ records'[p] = records[p]
      BY <2>3, <2>5, <2>9, <3>1, <3>2
    <3>. QED  BY <2>5, <2>6, <3>3, <3>4, <3>5
  <2>. QED  BY <2>3, <2>8, <2>9
<1>2. ASSUME NEW c \in Callers, NEW k \in Attempts, AttemptEvent(c, k) PROVE HandoffConsumedOnce'
  <2>1. /\ Attempts' = Attempts
        /\ \A b \in Attempts : SameIdentity(records'[b], records[b])
        /\ \A b \in Attempts : \A a \in 1 .. b - 1 :
             IsPredecessor(records', a, b) <=> IsPredecessor(records, a, b)
        /\ \A b \in Attempts : \A a \in 1 .. b - 1 :
             IsPredecessor(records, a, b) => records'[a] = records[a]
    BY <1>2, EventPredecessor
  <2>2. \A b \in Attempts : \A a : IsPredecessor(records, a, b) => a \in 1 .. b - 1
    BY DEF IsPredecessor
  <2>. QED  BY <2>1, <2>2 DEF HandoffConsumedOnce, SameIdentity
<1>3. CASE UNCHANGED records
  BY <1>3 DEF HandoffConsumedOnce, Attempts, IsPredecessor
<1>. QED  BY <1>1, <1>2, <1>3 DEF Next, Reservation, Configure, List, vars

----------------------------------------------------------------------------
\* Every lineage property of the ledger holds in every reachable state: no two
\* owners of a task, worker or runtime; generations that count attempts; repair
\* and handoff histories that no later event rewrites.
THEOREM LedgerCorrect == Spec => []LedgerInv
<1>1. Init => LedgerInv
  <2>. SUFFICES ASSUME Init PROVE LedgerInv
    OBVIOUS
  <2>1. TypeOK
    BY ConstantsAssumption DEF Init, TypeOK
  <2>2. Attempts = {}
    BY DEF Init, Attempts
  <2>. QED  BY <2>1, <2>2 DEF LedgerInv, ExclusiveOwnership, GenerationChain, RepairHistory,
                              HandoffConsumedOnce
<1>2. LedgerInv /\ TypeOK' /\ [Next]_vars => LedgerInv'
  BY OwnershipStep, GenerationStep, RepairStep, HandoffStep DEF LedgerInv
<1>. QED  BY <1>1, <1>2, TypeCorrect, PTL DEF Spec

\* No task, worker or runtime identity ever has two owners.
THEOREM OwnershipCorrect == Spec => []ExclusiveOwnership
<1>1. LedgerInv => ExclusiveOwnership
  BY DEF LedgerInv
<1>. QED  BY <1>1, LedgerCorrect, PTL

\* Generations of a task count its attempts and its policy stays pinned.
THEOREM GenerationsCorrect == Spec => []GenerationChain
<1>1. LedgerInv => GenerationChain
  BY DEF LedgerInv
<1>. QED  BY <1>1, LedgerCorrect, PTL

\* Repair rounds are carried over or advanced by one after a clean report.
THEOREM RepairsCorrect == Spec => []RepairHistory
<1>1. LedgerInv => RepairHistory
  BY DEF LedgerInv
<1>. QED  BY <1>1, LedgerCorrect, PTL

\* A handoff intent has exactly the successor it named, and no other.
THEOREM HandoffsCorrect == Spec => []HandoffConsumedOnce
<1>1. LedgerInv => HandoffConsumedOnce
  BY DEF LedgerInv
<1>. QED  BY <1>1, LedgerCorrect, PTL

----------------------------------------------------------------------------
(***************************************************************************)
(* Optimistic concurrency.  A snapshot is a past state of the ledger, and  *)
(* the revision tells whether an attempt is still in it as it was.         *)
(***************************************************************************)
ViewInv ==
    \A d \in Callers : \A i \in 1 .. Len(view[d]) :
      /\ i \in Attempts
      /\ view[d][i].revision <= records[i].revision
      /\ view[d][i].revision = records[i].revision => view[d][i] = records[i]

LEMMA RevisionType ==
    ASSUME NEW list \in Seq(Attempt), NEW j \in 1 .. Len(list)
    PROVE  list[j].revision \in Nat
<1>1. list[j] \in Attempt
  OBVIOUS
<1>. QED  BY <1>1 DEF Attempt

\* A caller that takes what the append returned holds the published ledger.
LEMMA ViewReturned ==
    ASSUME TypeOK, TypeOK', NEW c \in Callers, Returned(c),
           \A d \in Callers : \A i \in 1 .. Len(view[d]) :
             /\ i \in Attempts'
             /\ view[d][i].revision <= records'[i].revision
             /\ view[d][i].revision = records'[i].revision => view[d][i] = records'[i]
    PROVE  ViewInv'
<1>1. \A j \in Attempts' : records'[j].revision \in Nat
  BY RevisionType DEF TypeOK, Attempts
<1>2. CASE view' = view
  BY <1>2 DEF ViewInv
<1>3. CASE view' = [view EXCEPT ![c] = records']
  <2>1. \A d \in Callers : view'[d] = IF d = c THEN records' ELSE view[d]
    BY <1>3 DEF TypeOK
  <2>. QED  BY <1>1, <2>1 DEF ViewInv, Attempts
<1>. QED  BY <1>2, <1>3 DEF Returned

LEMMA ViewStep ==
    ASSUME LedgerInv, TypeOK', ViewInv, [Next]_vars
    PROVE  ViewInv'
<1>. USE DEF LedgerInv
<1>0. Len(records) \in Nat
  BY DEF TypeOK
<1>1. ASSUME NEW c \in Callers, NEW t \in Tasks, NEW p \in 0..Len(records), NEW worker \in Workers,
             NEW runtime \in Runtimes, NEW provider \in Providers, NEW policy \in Policies,
             NEW repair \in RepairChoices(p), NEW handoff \in HandoffChoices(p),
             Reserve(c, t, p, worker, runtime, provider, policy, repair, handoff)
      PROVE  ViewInv'
  <2>1. /\ Len(records') = Len(records) + 1
        /\ \A j \in Attempts : records'[j] = records[j]
    BY <1>1, ReserveAppends
  <2>2. Attempts \subseteq Attempts' /\ Returned(c)
    BY <1>0, <1>1, <2>1 DEF Attempts, Reserve
  <2>. QED  BY <2>1, <2>2, ViewReturned DEF ViewInv
<1>2. ASSUME NEW c \in Callers, NEW k \in Attempts, AttemptEvent(c, k) PROVE ViewInv'
  <2>1. PICK next \in Attempt : Touches(c, k, next)
    BY <1>2, EventTouches
  <2>2. Returned(c)
    BY <1>2, EventTouches
  <2>3. /\ Attempts' = Attempts
        /\ \A j \in Attempts : j # k => records'[j] = records[j]
        /\ records'[k].revision = records[k].revision + 1
    BY <2>1, TouchFrame DEF Attempts, Touches
  <2>4. \A j \in Attempts : records[j].revision \in Nat
    BY RevisionType DEF TypeOK, Attempts
  <2>5. \A d \in Callers : \A j \in 1 .. Len(view[d]) : view[d][j].revision \in Nat
    BY RevisionType DEF TypeOK
  <2>6. SUFFICES ASSUME NEW d \in Callers, NEW j \in 1 .. Len(view[d])
        PROVE  /\ j \in Attempts'
               /\ view[d][j].revision <= records'[j].revision
               /\ view[d][j].revision = records'[j].revision => view[d][j] = records'[j]
    BY <2>2, ViewReturned
  <2>7. /\ j \in Attempts
        /\ view[d][j].revision <= records[j].revision
        /\ view[d][j].revision = records[j].revision => view[d][j] = records[j]
    BY DEF ViewInv
  <2>8. CASE j = k
    BY <2>3, <2>4, <2>5, <2>7, <2>8
  <2>. QED  BY <2>3, <2>7, <2>8
<1>3. ASSUME NEW c \in Callers, List(c) PROVE ViewInv'
  <2>1. \A j \in Attempts : records[j].revision \in Nat
    BY RevisionType DEF TypeOK, Attempts
  <2>2. \A d \in Callers : view'[d] = IF d = c THEN records ELSE view[d]
    BY <1>3 DEF List, TypeOK
  <2>3. records' = records /\ Attempts' = Attempts
    BY <1>3 DEF List, Attempts
  <2>. QED  BY <2>1, <2>2, <2>3 DEF ViewInv, Attempts
<1>4. CASE UNCHANGED <<records, view>>
  BY <1>4 DEF ViewInv, Attempts
<1>. QED  BY <1>1, <1>2, <1>3, <1>4 DEF Next, Reservation, Configure, vars

\* No event overwrites a change its caller has not seen: an attempt changes only
\* when the caller's snapshot shows it exactly as it is in the ledger.
THEOREM NoLostUpdateCorrect == Spec => NoLostUpdate
<1>1. Init => ViewInv
  BY DEF Init, ViewInv
<1>2. LedgerInv /\ TypeOK' /\ ViewInv /\ [Next]_vars => ViewInv'
  BY ViewStep
<1>3. LedgerInv /\ ViewInv /\ [Next]_vars =>
        [\A c \in Callers : \A i \in Attempts : AttemptEvent(c, i) =>
           i \in 1..Len(view[c]) /\ view[c][i] = records[i]]_vars
  <2>. SUFFICES ASSUME LedgerInv, ViewInv, NEW c \in Callers, NEW i \in Attempts, AttemptEvent(c, i)
       PROVE  i \in 1..Len(view[c]) /\ view[c][i] = records[i]
    OBVIOUS
  <2>1. PICK next \in Attempt : Touches(c, i, next)
    BY EventTouches DEF LedgerInv
  <2>. QED  BY <2>1 DEF Touches, TokenCurrent, ViewInv
<1>. QED  BY <1>1, <1>2, <1>3, LedgerCorrect, TypeCorrect, PTL DEF Spec, NoLostUpdate

----------------------------------------------------------------------------
\* What an event may do to the record old of its attempt.
Forward(old, new) ==
    /\ old.phase = "terminal" => new = old
    /\ Rank(new.phase) >= Rank(old.phase)
    /\ old.phase = "stopping" =>
         /\ new.result = old.result
         /\ new.usage = old.usage
         /\ new.recoveries = old.recoveries

LEMMA SamePhase ==
    ASSUME NEW x \in Attempt
    PROVE  Forward(x, x)
<1>1. x.phase \in Phases
  BY DEF Attempt
<1>2. Rank(x.phase) \in Int
  BY <1>1 DEF Rank, Phases
<1>. QED  BY <1>2 DEF Forward

\* The transitions of docs/autonomous-architecture.md's table.
PhaseStep(x, y) ==
    \/ y \in {x, "terminal"}
    \/ y = "stopping" /\ x \in {"reserved", "active"}
    \/ y = "active" /\ x = "reserved"

LEMMA RankStep ==
    ASSUME NEW x \in Phases, NEW y \in Phases, x # "terminal", PhaseStep(x, y)
    PROVE  Rank(y) >= Rank(x)
<1>1. Rank("reserved") = 0 /\ Rank("active") = 1
  BY DEF Rank
<1>2. Rank("stopping") = 2 /\ Rank("terminal") = 3
  BY DEF Rank
<1>. QED  BY <1>1, <1>2 DEF PhaseStep, Phases

LEMMA CommitForward ==
    ASSUME TypeOK, NEW c \in Callers, NEW i \in Attempts, NEW next \in Attempt, Commit(c, i, next),
           PhaseStep(records[i].phase, next.phase),
           records[i].phase = "stopping" =>
             /\ next.result = records[i].result
             /\ next.usage = records[i].usage
             /\ next.recoveries = records[i].recoveries
    PROVE  \A j \in Attempts : Forward(records[j], records'[j])
<1>. DEFINE x == [next EXCEPT !.revision = records[i].revision + 1]
<1>1. \A j \in Attempts : records[j] \in Attempt
  BY DEF TypeOK, Attempts
<1>2. x.phase = next.phase /\ x.result = next.result /\ x.usage = next.usage
      /\ x.recoveries = next.recoveries
  BY DEF Attempt
<1>3. records' = [records EXCEPT ![i] = x] /\ DOMAIN records = Attempts /\ Live(i)
  BY DEF Commit, TypeOK, Attempts
<1>. HIDE DEF x
<1>4. Forward(records[i], x)
  <2>1. records[i].phase \in Phases /\ next.phase \in Phases
    BY <1>1 DEF Attempt
  <2>2. Rank(next.phase) >= Rank(records[i].phase)
    BY <1>3, <2>1, RankStep DEF Live
  <2>. QED  BY <1>2, <1>3, <2>2 DEF Forward, Live
<1>5. ASSUME NEW j \in Attempts PROVE Forward(records[j], records'[j])
  <2>1. CASE j = i
    BY <1>3, <1>4, <2>1
  <2>2. CASE j # i
    BY <1>1, <1>3, <2>2, SamePhase
  <2>. QED  BY <2>1, <2>2
<1>. QED  BY <1>5

LEMMA EventForward ==
    ASSUME TypeOK, NEW c \in Callers, NEW i \in Attempts, AttemptEvent(c, i)
    PROVE  \A j \in Attempts : Forward(records[j], records'[j])
<1>1. records[i] \in Attempt /\ records[i].phase \in Phases
  <2>1. records[i] \in Attempt
    BY DEF TypeOK, Attempts
  <2>. QED  BY <2>1 DEF Attempt
<1>2. Failures(records[i].task) + 1 \in Nat /\ Interruptions(records[i].task) + 1 \in Nat
      /\ Handoffs(records[i].task) + 1 \in Nat
  BY CountType DEF Failures, Interruptions, Handoffs, Lineage, LineageOf, Attempts
<1>3. CASE ExternalUsage(c, i)
  BY <1>1, <1>3, CommitForward DEF ExternalUsage, Attempt, Phases, PhaseStep
<1>4. CASE Recover(c, i)
  BY <1>1, <1>4, CommitForward DEF Recover, Attempt, Phases, PhaseStep
<1>5. CASE Annotate(c, i)
  BY <1>1, <1>5, CommitForward DEF Annotate, Phases, PhaseStep
<1>6. CASE Activate(c, i)
  BY <1>1, <1>6, CommitForward DEF Activate, Attempt, Phases, PhaseStep
<1>7. CASE Report(c, i)
  BY <1>1, <1>7, CommitForward DEF Report, Attempt, Phases, PhaseStep
<1>8. CASE Stop(c, i)
  <2>1. records[i].phase \in {"reserved", "active"}
    BY <1>1, <1>8 DEF Stop, Commit, Live, Phases
  <2>. QED  BY <1>1, <1>8, <2>1, CommitForward DEF Stop, Attempt, Phases, PhaseStep
<1>9. CASE \E kind \in Kinds : Retire(c, i, kind)
  BY <1>1, <1>9, CommitForward DEF Retire, Attempt, Phases, Kinds, PhaseStep
<1>10. CASE \E kind \in Kinds : Interrupt(c, i, kind)
  BY <1>1, <1>2, <1>10, CommitForward DEF Interrupt, Attempt, Phases, Kinds, PhaseStep
<1>11. CASE \E worker \in Workers, runtime \in Runtimes : HandoffIntent(c, i, worker, runtime)
  BY <1>1, <1>2, <1>11, CommitForward DEF HandoffIntent, Attempt, Phases, PhaseStep
<1>12. ASSUME NEW kind \in Kinds, NEW retryable \in BOOLEAN, ProvisionFailed(c, i, kind, retryable)
       PROVE  \A j \in Attempts : Forward(records[j], records'[j])
  <2>. DEFINE failed == [count |-> Failures(records[i].task) + 1, retryable |-> retryable]
              next == [records[i] EXCEPT !.phase = "terminal", !.evidence = kind,
                                         !.stopReason = TRUE, !.provisioning = failed]
  <2>1. failed \in [count : Nat, retryable : BOOLEAN]
    BY <1>2
  <2>2. Commit(c, i, next) /\ records[i].phase # "stopping"
    BY <1>12 DEF ProvisionFailed
  <2>. HIDE DEF failed
  <2>3. next \in Attempt /\ next.phase = "terminal"
    BY <1>1, <2>1 DEF Attempt, Phases, Kinds
  <2>4. PhaseStep(records[i].phase, next.phase)
    BY <2>3 DEF PhaseStep
  <2>. QED  BY <2>2, <2>3, <2>4, CommitForward
<1>. QED  BY <1>3, <1>4, <1>5, <1>6, <1>7, <1>8, <1>9, <1>10, <1>11, <1>12 DEF AttemptEvent

\* An ended attempt is history, phases never go back, and a stopping attempt
\* records no report, no usage and no recovery any more.
THEOREM ForwardCorrect == Spec => ForwardOnly
<1>1. TypeOK /\ [Next]_vars =>
        [\A i \in Attempts :
           /\ records[i].phase = "terminal" => records'[i] = records[i]
           /\ Rank(records'[i].phase) >= Rank(records[i].phase)
           /\ records[i].phase = "stopping" =>
                /\ records'[i].result = records[i].result
                /\ records'[i].usage = records[i].usage
                /\ records'[i].recoveries = records[i].recoveries]_vars
  <2>. SUFFICES ASSUME TypeOK, [Next]_vars, NEW i \in Attempts
       PROVE  Forward(records[i], records'[i])
    BY DEF Forward
  <2>1. records[i] \in Attempt
    BY DEF TypeOK, Attempts
  <2>2. ASSUME NEW c \in Callers, NEW t \in Tasks, NEW p \in 0..Len(records), NEW worker \in Workers,
               NEW runtime \in Runtimes, NEW provider \in Providers, NEW policy \in Policies,
               NEW repair \in RepairChoices(p), NEW handoff \in HandoffChoices(p),
               Reserve(c, t, p, worker, runtime, provider, policy, repair, handoff)
        PROVE  Forward(records[i], records'[i])
    BY <2>1, <2>2, ReserveAppends, SamePhase
  <2>3. ASSUME NEW c \in Callers, NEW k \in Attempts, AttemptEvent(c, k) PROVE Forward(records[i], records'[i])
    BY <2>3, EventForward
  <2>4. CASE UNCHANGED records
    BY <2>1, <2>4, SamePhase
  <2>. QED  BY <2>2, <2>3, <2>4 DEF Next, Reservation, Configure, List, vars
<1>. QED  BY <1>1, TypeCorrect, PTL DEF Spec, ForwardOnly

=============================================================================
