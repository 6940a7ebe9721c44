---------------------------- MODULE Assignments ----------------------------
(***************************************************************************)
(* The attempt ledger of the coordinator (assignments.ts).                 *)
(*                                                                         *)
(* Every execution attempt of a task is one record of an append-only list; *)
(* a record is born by a reservation and then changed by journal events    *)
(* that carry a token: attempt, generation and the revision the caller     *)
(* last saw.  The journal serialises events, so one event is one step      *)
(* here (DurableJournal models the journal itself).                        *)
(*                                                                         *)
(* Callers are not constrained: any caller may reserve anything and may    *)
(* use any token that it read from its own list() snapshot, however old.   *)
(* The runtime modules show which of these events the coordinator emits.   *)
(*                                                                         *)
(* Abstractions: an attempt is named by its position in the list; texts    *)
(* (results, reasons, receipts, checkpoints) are reduced to their presence; *)
(* the identity of a handoff intent is the attempt that holds it, because  *)
(* an attempt holds at most one; delays (notBefore) are left out.          *)
(***************************************************************************)
EXTENDS Integers, Sequences, FiniteSets

CONSTANTS
    Callers,        \* operations in progress, each with its own list() snapshot
    Tasks,          \* <project, team, task> identities
    Projects,
    ProjectOf,      \* [Tasks -> Projects]
    Workers,        \* worker identities
    Runtimes,       \* runtime (session or process) identities
    Providers,      \* provider names that occur: "spawn", "fork", "external"
    Policies,       \* lineage policies: repair, handoff and retry budgets
    LimitChoices,   \* capacity limits the coordinator may be configured with
    MaxAttempts,    \* bound on the length of the ledger
    MaxRevision,    \* bound on the revisions of one attempt
    None            \* no worker, no runtime

Phases  == {"reserved", "active", "stopping", "terminal"}
Dsh     == {"spawn", "fork"}
Policy  == [repairLimit : Nat, handoffLimit : Nat, maxAttempts : Nat]
Limits  == [global : Nat, project : [Projects -> Nat]]

ASSUME ConstantsAssumption ==
    /\ ProjectOf \in [Tasks -> Projects]
    /\ Providers \subseteq Dsh \cup {"external"}
    /\ Policies \subseteq Policy
    /\ LimitChoices \subseteq Limits
    /\ LimitChoices # {}
    /\ MaxAttempts \in Nat
    /\ MaxRevision \in Nat
    /\ None \notin Workers
    /\ None \notin Runtimes

NoRepair       == [previous |-> 0, round |-> 0]
NoHandoff      == [previous |-> 0, round |-> 0]
NoIntent       == [round |-> 0, worker |-> None, runtime |-> None]
NoProvisioning == [count |-> 0, retryable |-> FALSE]

Attempt ==
    [ task         : Tasks,
      worker       : Workers,
      runtime      : Runtimes,
      provider     : Providers,
      policy       : Policies,
      generation   : Nat,
      revision     : Nat,
      phase        : Phases,
      repair       : [previous : Nat, round : Nat],
      handoff      : [previous : Nat, round : Nat],
      intent       : [round : Nat, worker : Workers \cup {None}, runtime : Runtimes \cup {None}],
      recoveries   : Nat,       \* recovery.count, 0 when absent
      usage        : BOOLEAN,   \* externalUsage present
      result       : BOOLEAN,   \* a worker report is recorded
      stopReason   : BOOLEAN,   \* a stop reason is recorded
      evidence     : {"none", "stopped", "never-started"},
      interruption : Nat,       \* interruption.count, 0 when absent
      provisioning : [count : Nat, retryable : BOOLEAN] ]

VARIABLES
    records,    \* the published ledger
    limits,     \* the store's capacity limits
    view        \* [Callers -> Seq(Attempt)]: the snapshot each caller holds

vars == <<records, limits, view>>

----------------------------------------------------------------------------

Attempts    == 1..Len(records)
Live(i)     == records[i].phase # "terminal"
LiveSet     == {i \in Attempts : Live(i)}
LineageOf(list, t) == {i \in 1..Len(list) : list[i].task = t}
Lineage(t)  == LineageOf(records, t)

\* p is the last attempt of t in the list, 0 when t has none.
IsPrior(list, t, p) ==
    /\ p \in 0..Len(list)
    /\ p # 0 => list[p].task = t
    /\ \A i \in p + 1 .. Len(list) : list[i].task # t

GenerationAt(list, p) == IF p = 0 THEN 0 ELSE list[p].generation

\* How many attempts of t ended in failed provisioning, by interruption, or
\* began as a handoff replacement.
Failures(t)      == Cardinality({i \in Lineage(t) : records[i].provisioning.count > 0})
Interruptions(t) == Cardinality({i \in Lineage(t) : records[i].interruption > 0})
Handoffs(t)      == Cardinality({i \in Lineage(t) : records[i].handoff.previous # 0})

(***************************************************************************)
(* Reservation.                                                            *)
(***************************************************************************)
\* An append that succeeds returns the state it published: the caller may go on
\* with that, or with what it read before.
Returned(c) == view' \in {view, [view EXCEPT ![c] = records']}

CapacityFree(t) ==
    /\ Cardinality(LiveSet) < limits.global
    /\ Cardinality({i \in LiveSet : ProjectOf[records[i].task] = ProjectOf[t]})
          < limits.project[ProjectOf[t]]

\* Mutation (here and below): the definition that follows with a plausible
\* mistake, kept to show which property notices it.
PredecessorStillLive(p, policy) ==
    p # 0 => policy = records[p].policy

\* Mutation of PredecessorReleased.
PredecessorOneMoreRetry(p, policy) ==
    p # 0 =>
      /\ records[p].phase = "terminal"
      /\ policy = records[p].policy
      /\ records[p].provisioning.count <= records[p].policy.maxAttempts + 1

\* The predecessor has ended, in a way its pinned budgets let be replaced.
PredecessorReleased(p, policy) ==
    p # 0 =>
      /\ records[p].phase = "terminal"
      /\ policy = records[p].policy
      /\ records[p].interruption > 0 => records[p].interruption < policy.repairLimit
      /\ records[p].provisioning.count > 0 =>
            /\ records[p].provisioning.retryable
            /\ records[p].provisioning.count <= records[p].policy.maxAttempts

\* Mutation of RepairLineage.
RepairForgotten(p, policy, repair, handoff) ==
    repair # NoRepair =>
      /\ p # 0
      /\ records[p].evidence = "stopped" /\ records[p].result /\ ~records[p].stopReason
      /\ repair = [previous |-> p, round |-> records[p].repair.round + 1]
      /\ repair.round <= policy.repairLimit

\* A repair is carried over by a handoff and by a provisioning replacement,
\* created after a clean report, and never dropped.
RepairLineage(p, policy, repair, handoff) ==
    LET prior   == records[p]
        carried == p # 0 /\ prior.repair # NoRepair
    IN  IF carried /\ (handoff # NoHandoff \/ prior.provisioning.count > 0)
        THEN repair = prior.repair
        ELSE IF repair # NoRepair
        THEN /\ p # 0
             /\ prior.evidence = "stopped"
             /\ ~prior.stopReason
             /\ prior.result
             /\ repair.previous = p
             /\ repair.round = prior.repair.round + 1
             /\ repair.round <= policy.repairLimit
        ELSE ~carried

\* Mutation of HandoffLineage.
IntentIgnored(p, policy, worker, runtime, handoff) == handoff = NoHandoff

HandoffLineage(p, policy, worker, runtime, handoff) ==
    LET intent == records[p].intent
    IN  IF handoff # NoHandoff
        THEN /\ p # 0
             /\ records[p].evidence = "stopped"
             /\ intent # NoIntent
             /\ handoff = [previous |-> p, round |-> intent.round]
             /\ handoff.round <= policy.handoffLimit
             /\ worker = intent.worker
             /\ runtime = intent.runtime
        ELSE p # 0 => intent = NoIntent

\* Mutation of NewAttempt.
GenerationRepeated(t, p, worker, runtime, provider, policy, repair, handoff) ==
    [ task |-> t, worker |-> worker, runtime |-> runtime, provider |-> provider,
      policy |-> policy, generation |-> IF p = 0 THEN 1 ELSE GenerationAt(records, p), revision |-> 1,
      phase |-> "reserved", repair |-> repair, handoff |-> handoff, intent |-> NoIntent,
      recoveries |-> 0, usage |-> FALSE, result |-> FALSE, stopReason |-> FALSE,
      evidence |-> "none", interruption |-> 0, provisioning |-> NoProvisioning ]

NewAttempt(t, p, worker, runtime, provider, policy, repair, handoff) ==
    [ task |-> t, worker |-> worker, runtime |-> runtime, provider |-> provider,
      policy |-> policy, generation |-> GenerationAt(records, p) + 1, revision |-> 1,
      phase |-> "reserved", repair |-> repair, handoff |-> handoff, intent |-> NoIntent,
      recoveries |-> 0, usage |-> FALSE, result |-> FALSE, stopReason |-> FALSE,
      evidence |-> "none", interruption |-> 0, provisioning |-> NoProvisioning ]

\* What reduce() demands of a reservation, capacity aside.
Admissible(t, p, worker, runtime, policy, repair, handoff) ==
    /\ IsPrior(records, t, p)
    /\ PredecessorReleased(p, policy)
    /\ RepairLineage(p, policy, repair, handoff)
    /\ HandoffLineage(p, policy, worker, runtime, handoff)
    /\ \A i \in Attempts : Live(i) => records[i].worker # worker
    /\ \A i \in Attempts : records[i].runtime # runtime

\* Mutation of CitesGeneration.
CitesNothing(c, t, p) == TRUE

\* The caller cites the generation of the last attempt in its own snapshot.
CitesGeneration(c, t, p) ==
    \E q \in 0..Len(view[c]) :
      IsPrior(view[c], t, q) /\ GenerationAt(view[c], q) = GenerationAt(records, p)

Reserve(c, t, p, worker, runtime, provider, policy, repair, handoff) ==
    /\ Len(records) < MaxAttempts
    /\ CitesGeneration(c, t, p)
    /\ CapacityFree(t)
    /\ Admissible(t, p, worker, runtime, policy, repair, handoff)
    /\ records' = Append(records, NewAttempt(t, p, worker, runtime, provider, policy, repair, handoff))
    /\ Returned(c)
    /\ UNCHANGED limits

\* The repairs and handoffs a caller may ask for when it replaces p.
RepairChoices(p) ==
    IF p = 0 THEN {NoRepair}
    ELSE {NoRepair, records[p].repair, [previous |-> p, round |-> records[p].repair.round + 1]}
HandoffChoices(p) ==
    IF p = 0 THEN {NoHandoff}
    ELSE {NoHandoff, [previous |-> p, round |-> records[p].intent.round]}

\* Mutation of TokenCurrent.
TokenWithoutRevision(c, i) ==
    i \in 1..Len(view[c]) /\ view[c][i].generation = records[i].generation

(***************************************************************************)
(* Events of a live attempt.  Commit replaces attempt i by next with the   *)
(* following revision, if the caller's token still names its revision.     *)
(***************************************************************************)
TokenCurrent(c, i) ==
    /\ i \in 1..Len(view[c])
    /\ view[c][i].generation = records[i].generation
    /\ view[c][i].revision = records[i].revision

Commit(c, i, next) ==
    /\ TokenCurrent(c, i)
    /\ Live(i)
    /\ records[i].revision < MaxRevision
    /\ records' = [records EXCEPT ![i] = [next EXCEPT !.revision = records[i].revision + 1]]
    /\ Returned(c)
    /\ UNCHANGED limits

ExternalUsage(c, i) ==
    /\ records[i].provider = "external"
    /\ records[i].phase # "stopping"
    /\ ~records[i].usage
    /\ Commit(c, i, [records[i] EXCEPT !.usage = TRUE])

Recover(c, i) ==
    /\ records[i].phase = "active"
    /\ records[i].recoveries < records[i].policy.maxAttempts
    /\ Commit(c, i, [records[i] EXCEPT !.recoveries = @ + 1])

\* A checkpoint, a health nudge: data the ledger's rules do not read.
Annotate(c, i) ==
    /\ records[i].phase = "active"
    /\ Commit(c, i, records[i])

Activate(c, i) ==
    /\ records[i].phase = "reserved"
    /\ Commit(c, i, [records[i] EXCEPT !.phase = "active"])

\* Mutation of Report.
ReportAnyLive(c, i) == Commit(c, i, [records[i] EXCEPT !.result = TRUE])

Report(c, i) ==
    /\ records[i].phase = "active"
    /\ Commit(c, i, [records[i] EXCEPT !.result = TRUE])

Stop(c, i) ==
    /\ records[i].phase # "stopping"
    /\ Commit(c, i, [records[i] EXCEPT !.phase = "stopping", !.stopReason = TRUE])

Retire(c, i, kind) ==
    /\ kind = "never-started" => records[i].phase = "reserved"
    /\ Commit(c, i, [records[i] EXCEPT !.phase = "terminal", !.evidence = kind])

Interrupt(c, i, kind) ==
    /\ kind = "never-started" => records[i].phase = "reserved"
    /\ Commit(c, i, [records[i] EXCEPT !.phase = "terminal", !.evidence = kind,
                                    !.interruption = Interruptions(records[i].task) + 1])

HandoffIntent(c, i, worker, runtime) ==
    LET round == Handoffs(records[i].task) + 1
    IN  /\ records[i].phase = "active"
        /\ records[i].provider \in Dsh
        /\ records[i].intent = NoIntent
        /\ round <= records[i].policy.handoffLimit
        /\ Commit(c, i, [records[i] EXCEPT !.intent =
                        [round |-> round, worker |-> worker, runtime |-> runtime]])

ProvisionFailed(c, i, kind, retryable) ==
    /\ \/ records[i].phase = "reserved"
       \/ records[i].phase = "active" /\ records[i].provider = "external" /\ kind = "stopped"
    /\ Commit(c, i, [records[i] EXCEPT !.phase = "terminal", !.evidence = kind, !.stopReason = TRUE,
                    !.provisioning = [count |-> Failures(records[i].task) + 1,
                                      retryable |-> retryable]])

\* configure(): new limits, existing reservations stay.
Configure(l) ==
    /\ limits' = l
    /\ UNCHANGED <<records, view>>

\* list(): a caller takes a detached copy of the published ledger.
List(c) ==
    /\ view' = [view EXCEPT ![c] = records]
    /\ UNCHANGED <<records, limits>>

----------------------------------------------------------------------------

Init ==
    /\ records = << >>
    /\ limits \in LimitChoices
    /\ view = [c \in Callers |-> << >>]

Reservation(c, t) ==
    \E p \in 0..Len(records) :
      /\ IsPrior(records, t, p)
      /\ \E worker \in Workers, runtime \in Runtimes, provider \in Providers, policy \in Policies,
            repair \in RepairChoices(p), handoff \in HandoffChoices(p) :
           Reserve(c, t, p, worker, runtime, provider, policy, repair, handoff)

\* Mutation of Kinds.
KindsUnchecked == {"stopped", "never-started", "unproven"}

Kinds == {"stopped", "never-started"}

AttemptEvent(c, i) ==
    \/ ExternalUsage(c, i)
    \/ Recover(c, i)
    \/ Annotate(c, i)
    \/ Activate(c, i)
    \/ Report(c, i)
    \/ Stop(c, i)
    \/ \E kind \in Kinds : Retire(c, i, kind)
    \/ \E kind \in Kinds : Interrupt(c, i, kind)
    \/ \E worker \in Workers, runtime \in Runtimes : HandoffIntent(c, i, worker, runtime)
    \/ \E kind \in Kinds, retryable \in BOOLEAN : ProvisionFailed(c, i, kind, retryable)

Next ==
    \/ \E c \in Callers, t \in Tasks : Reservation(c, t)
    \/ \E c \in Callers, i \in Attempts : AttemptEvent(c, i)
    \/ \E l \in LimitChoices : Configure(l)
    \/ \E c \in Callers : List(c)

Spec == Init /\ [][Next]_vars

----------------------------------------------------------------------------
(***************************************************************************)
(* Properties.                                                             *)
(***************************************************************************)

\* Every record of the ledger and every snapshot of it is well formed.
TypeOK ==
    /\ records \in Seq(Attempt)
    /\ limits \in LimitChoices
    /\ view \in [Callers -> Seq(Attempt)]

\* a is the attempt that b of the list replaced.
IsPredecessor(list, a, b) ==
    /\ a \in 1 .. b - 1
    /\ list[a].task = list[b].task
    /\ \A c \in a + 1 .. b - 1 : list[c].task # list[b].task

\* One authoritative attempt: a live attempt is the last of its task's
\* lineage, so no task is ever executed by two attempts at once; live attempts
\* have distinct workers; a runtime identity is never used by two attempts,
\* even after the first one has ended.
ExclusiveOwnership ==
    \A i, j \in Attempts : i < j =>
      /\ records[i].task = records[j].task => ~Live(i)
      /\ Live(i) /\ Live(j) => records[i].worker # records[j].worker
      /\ records[i].runtime # records[j].runtime

\* The generations of a task count its attempts: 1, 2, 3, ... in ledger order,
\* under one policy pinned by the first of them.
GenerationChain ==
    \A b \in Attempts :
      /\ (\A a \in 1 .. b - 1 : records[a].task # records[b].task) => records[b].generation = 1
      /\ \A a \in 1 .. b - 1 : IsPredecessor(records, a, b) =>
           /\ records[b].generation = records[a].generation + 1
           /\ records[b].policy = records[a].policy

\* Repair history is never erased, repeated or invented: a replacement either
\* keeps its predecessor's repair (and a spent repair is kept only by a handoff
\* or after failed provisioning), or takes the next round after a predecessor
\* that delivered a report and was positively stopped, within the budget.
RepairHistory ==
    \A b \in Attempts :
      /\ records[b].repair.round <= records[b].policy.repairLimit
      /\ (\A a \in 1 .. b - 1 : records[a].task # records[b].task) => records[b].repair = NoRepair
      /\ \A a \in 1 .. b - 1 : IsPredecessor(records, a, b) =>
           \/ /\ records[b].repair = records[a].repair
              /\ records[a].repair # NoRepair =>
                   \/ records[b].handoff # NoHandoff
                   \/ records[a].provisioning.count > 0
           \/ /\ records[b].repair = [previous |-> a, round |-> records[a].repair.round + 1]
              /\ records[a].evidence = "stopped"
              /\ records[a].result
              /\ ~records[a].stopReason

\* A handoff intent is consumed at most once, by the very next attempt of its
\* task and with the worker and runtime it named; an attempt that holds an
\* intent has no other kind of successor.
HandoffConsumedOnce ==
    \A b \in Attempts :
      /\ records[b].handoff # NoHandoff =>
           LET a == records[b].handoff.previous
           IN  /\ IsPredecessor(records, a, b)
               /\ records[a].intent = [round   |-> records[b].handoff.round,
                                       worker  |-> records[b].worker,
                                       runtime |-> records[b].runtime]
      /\ \A a \in 1 .. b - 1 : IsPredecessor(records, a, b) /\ records[a].intent # NoIntent =>
           records[b].handoff.previous = a

\* Replacement budgets hold over the whole lineage, whatever kinds of ending
\* alternate in it: maxAttempts replacements after failed provisioning, fewer
\* than repairLimit after an interruption, handoffLimit handoffs.
LineageBudgets ==
    \A i \in Attempts :
      LET t == records[i].task
          policy == records[i].policy
      IN  /\ Failures(t) <= policy.maxAttempts + 1
          /\ Interruptions(t) <= (IF policy.repairLimit = 0 THEN 1 ELSE policy.repairLimit)
          /\ Handoffs(t) <= policy.handoffLimit
          /\ records[i].recoveries <= policy.maxAttempts

\* Phases only move forward; a terminal attempt never changes again, and once
\* an attempt is stopping no report, usage or recovery is recorded for it.
Rank(phase) == CASE phase = "reserved" -> 0 [] phase = "active" -> 1
                 [] phase = "stopping" -> 2 [] phase = "terminal" -> 3
ForwardOnly ==
    [][\A i \in Attempts :
         /\ records[i].phase = "terminal" => records'[i] = records[i]
         /\ Rank(records'[i].phase) >= Rank(records[i].phase)
         /\ records[i].phase = "stopping" =>
              /\ records'[i].result = records[i].result
              /\ records'[i].usage = records[i].usage
              /\ records'[i].recoveries = records[i].recoveries]_vars

\* No lost update: a caller changes an attempt only in the state it saw, so a
\* token read before somebody else's event has no effect after it.
NoLostUpdate ==
    [][\A c \in Callers : \A i \in Attempts : AttemptEvent(c, i) =>
         i \in 1..Len(view[c]) /\ view[c][i] = records[i]]_vars

\* One observation of a lineage yields at most one successor: a task gets a new
\* attempt only from a caller that saw all its attempts (a retry replayed, or
\* raced by a scan, fails).
OneSuccessorPerObservation ==
    [][\A c \in Callers, t \in Tasks : Reservation(c, t) =>
         LineageOf(view[c], t) = Lineage(t)]_vars

\* "A coordinator shutdown is recoverable after a positive provider stop
\* receipt": while budget is left, some reservation of the interrupted task is
\* accepted.  The code refuses all of them when the interrupted attempt is a
\* repair: see README.
InterruptionRecoverable ==
    \A t \in Tasks : \A p \in Lineage(t) :
      /\ IsPrior(records, t, p)
      /\ records[p].provider = "external"
      /\ records[p].evidence = "stopped"
      /\ 0 < records[p].interruption
      /\ records[p].interruption < records[p].policy.repairLimit
      => \E worker \in Workers, runtime \in Runtimes,
            repair \in RepairChoices(p), handoff \in HandoffChoices(p) :
           Admissible(t, p, worker, runtime, records[p].policy, repair, handoff)

=============================================================================
