---------------------------- MODULE DshExecution ----------------------------
(***************************************************************************)
(* The coordinator driving in-process (DSH) workers: the scan and the Lead *)
(* operations of coordinator-execution.ts, the adapter that starts,        *)
(* observes, hands off and retires attempts (dsh-assignment-runtime.ts),   *)
(* and what they see of the Team: its roster, its mailbox and the worker   *)
(* sessions.  The attempt ledger is module Assignments, instantiated with  *)
(* the coordinator as its one caller.                                      *)
(*                                                                         *)
(* Coordinator operations run one at a time (coordinator.ts, run()), so    *)
(* one program counter, "at", describes the operation in progress; each of *)
(* its steps ends where the code awaits.  Sessions, mailbox deliveries and *)
(* provider drains run beside it.                                          *)
(*                                                                         *)
(* Covered: tasks that end in a report (no Git submission), one project,   *)
(* one Team.  A session is named by its attempt.  Delays (retry and        *)
(* delivery deadlines, dispatch pacing) appear as a choice: due or not.    *)
(* A journal write that fails is left to DurableJournal.                   *)
(***************************************************************************)
EXTENDS Integers, Sequences, FiniteSets, FiniteSetsExt

CONSTANTS
    Tasks,
    DependsOn,      \* [Tasks -> SUBSET Tasks]
    Pinned,         \* the configured lineage policy
    Capacity,       \* maxConcurrent, and the capacity of the project
    MaxAttempts,    \* bound on the ledger
    MaxRevision,    \* bound on the revisions of one attempt
    MaxRuns,        \* bound: nobody but the coordinator wakes a session beyond
    MaxFaults,      \* bound on crashes, failures, timeouts, pauses and closes
    None

ASSUME ExecutionAssumption ==
    /\ DependsOn \in [Tasks -> SUBSET Tasks]
    /\ Pinned \in [repairLimit : Nat, handoffLimit : Nat, maxAttempts : Nat]
    /\ Capacity \in Nat
    /\ MaxAttempts \in Nat
    /\ MaxRevision \in Nat
    /\ MaxRuns \in Nat
    /\ MaxFaults \in Nat
    /\ None \notin 1..MaxAttempts

VARIABLES
    records,    \* the attempt ledger
    request,    \* [Tasks -> dispatch request: none, queued, cancelled]
    blocked,    \* tasks with a durable execution failure (execution.jsonl)
    report,     \* [attempt -> acceptance record of its report]
    receipts,   \* [Tasks -> attempt whose report completed it, 0 while pending]
    member,     \* [attempt -> its roster entry in the Lead log]
    turn,       \* [attempt -> how the latest turn of its session ended]
    runs,       \* [attempt -> prompts its session accepted]
    seenRun,    \* [attempt -> runs when its last recovery was recorded]
    mail,       \* attempts with an undelivered wakeup in the mailbox
    resident,   \* attempts whose session is in the Agent registry
    waking,     \* attempts whose session is being resumed (runtime slot held)
    drains,     \* attempts with a provider drain in progress
    at,         \* the coordinator operation in progress
    shutdown,   \* shutdownRequested
    rooted,     \* the Lead is in the coordinator's roots
    paused,     \* the project's pause control
    faults

ledger   == <<records>>
intake   == <<request, report, receipts>>
team     == <<member, turn, runs, seenRun, mail>>
runtime  == <<resident, waking, drains>>
control  == <<shutdown, rooted, paused, faults>>
vars     == <<ledger, intake, blocked, team, runtime, at, control>>

C  == "coordinator"
Id == 1..MaxAttempts

L == INSTANCE Assignments WITH
       Callers <- {C}, view <- [c \in {C} |-> records],
       limits <- [global |-> Capacity, project |-> [p \in {"project"} |-> Capacity]],
       LimitChoices <- {[global |-> Capacity, project |-> [p \in {"project"} |-> Capacity]]},
       Projects <- {"project"}, ProjectOf <- [t \in Tasks |-> "project"],
       Workers <- Id, Runtimes <- Id, Providers <- {"spawn"}, Policies <- {Pinned}

----------------------------------------------------------------------------
(***************************************************************************)
(* Reading the stores.                                                     *)
(***************************************************************************)
Attempts     == L!Attempts
Live(i)      == L!Live(i)
TaskOf(i)    == records[i].task
Phase(i)     == records[i].phase
Cancelled(t) == request[t] = "cancelled"
HasIntent(i) == records[i].intent # L!NoIntent
Last(t)      == IF L!Lineage(t) = {} THEN 0 ELSE Max(L!Lineage(t))
HandedOff(i) == \E j \in Attempts : records[j].handoff.previous = i

\* The next unused runtime identity; intents hold theirs before it is reserved.
UsedIds == {records[i].runtime : i \in Attempts} \cup {records[i].intent.runtime : i \in Attempts}
FreshId == CHOOSE id \in Id : id \notin UsedIds
Room    == Id \ UsedIds # {}

Quiescent(i)  == i \notin resident /\ i \notin waking

\* The wake policy the coordinator registers with the Team.
WakeAllowed(i) == ~Cancelled(TaskOf(i)) /\ ~shutdown /\ Phase(i) = "active"

Fault == faults < MaxFaults /\ faults' = faults + 1

(***************************************************************************)
(* The operation in progress.  op is the operation, loop the loop of the   *)
(* scan, todo the attempts the loop still has to visit, cur the attempt    *)
(* (and task) at hand, step the await it has reached.                      *)
(***************************************************************************)
Idle == [op |-> "idle", loop |-> "none", todo |-> {}, cur |-> 0, step |-> "next",
         turn |-> "none", runs |-> 0, retryable |-> FALSE, seen |-> {}, tried |-> {}]

At(step) == at.cur # 0 /\ at.step = step
Goto(step) == at' = [at EXCEPT !.step = step]

Resting == IF at.op \in {"scan", "close"} THEN [at EXCEPT !.cur = 0, !.step = "next",
              !.turn = "none", !.runs = 0, !.retryable = FALSE] ELSE Idle

\* The attempt at hand is done with, normally ...
Leave == at' = Resting /\ UNCHANGED blocked

\* Mutation (here and below): a definition with a plausible mistake, kept to show
\* which property notices it.
BlockAttempt(classified) == at' = Resting /\ blocked' = blocked \cup {at.cur}

\* ... or by an exception.  The scan and cancel() record it as the task's
\* execution failure; only the dispatch loop spares a failure that the ledger
\* already holds as retryable.
Throw(classified) ==
    /\ at' = Resting
    /\ blocked' = IF \/ at.op = "scan" /\ ~(at.loop = "dispatch" /\ classified)
                     \/ at.op = "cancel"
                  THEN blocked \cup {TaskOf(at.cur)} ELSE blocked

\* Mutation of Visit.
VisitUnstopped(loop) ==
    CASE loop = "cancel"  -> {i \in Attempts : Phase(i) \in {"reserved", "active"} /\ Cancelled(TaskOf(i))}
      [] loop = "reports" -> IF paused THEN {} ELSE {i \in Attempts : report[i] = "pending"}
      [] loop = "handoff" -> {i \in Attempts : HasIntent(i) /\ ~paused /\ ~Cancelled(TaskOf(i))}
      [] loop = "observe" -> {i \in Attempts : Live(i) /\ ~paused /\ ~Cancelled(TaskOf(i))}
      [] OTHER -> {}

\* Mutation of Visit.
VisitNoReports(loop) ==
    CASE loop = "cancel"  -> {i \in Attempts : Live(i) /\ Cancelled(TaskOf(i))}
      [] loop = "handoff" -> {i \in Attempts : HasIntent(i) /\ ~paused /\ ~Cancelled(TaskOf(i))}
      [] loop = "observe" -> {i \in Attempts : Live(i) /\ ~paused /\ ~Cancelled(TaskOf(i))}
      [] OTHER -> {}

\* What the loops of one scan visit, in ledger order.
Visit(loop) ==
    CASE loop = "cancel"  -> {i \in Attempts : Live(i) /\ Cancelled(TaskOf(i))}
      [] loop = "reports" -> IF paused THEN {} ELSE {i \in Attempts : report[i] = "pending"}
      [] loop = "handoff" -> IF paused THEN {}
                             ELSE {i \in Attempts : HasIntent(i) /\ ~Cancelled(TaskOf(i))}
      [] loop = "observe" -> IF paused THEN {}
                             ELSE {i \in Attempts : Live(i) /\ ~Cancelled(TaskOf(i))}
      [] OTHER -> {}

Following == [cancel |-> "reports", reports |-> "handoff", handoff |-> "observe", observe |-> "dispatch"]

Entry(loop, i) ==
    CASE loop = "cancel"  -> IF Phase(i) = "stopping" THEN "ownership" ELSE "stop"
      [] loop = "reports" -> "apply"
      [] loop = "handoff" -> "handoff"
      [] OTHER            -> CASE Phase(i) = "reserved" -> "start"
                               [] Phase(i) = "active"   -> "observe"
                               [] OTHER                 -> "ownership"

----------------------------------------------------------------------------
(***************************************************************************)
(* The scan.                                                               *)
(***************************************************************************)
\* Every pending task gets a dispatch request; the scan goes on with the task
\* states it read first.
BeginScan ==
    /\ at.op = "idle"
    /\ ~shutdown
    /\ request' = [t \in Tasks |-> IF request[t] = "none" /\ receipts[t] = 0 THEN "queued" ELSE request[t]]
    /\ at' = [Idle EXCEPT !.op = "scan", !.loop = "cancel", !.todo = Visit("cancel"),
                          !.seen = {t \in Tasks : receipts[t] # 0}]
    /\ UNCHANGED <<ledger, report, receipts, blocked, team, runtime, control>>

NextLoop ==
    /\ at.op = "scan" /\ at.cur = 0 /\ at.todo = {}
    /\ at.loop # "dispatch"
    /\ at' = [at EXCEPT !.loop = Following[at.loop], !.todo = Visit(Following[at.loop])]
    /\ UNCHANGED <<ledger, intake, blocked, team, runtime, control>>

\* The next attempt of the loop; its Lead is restored if need be (leadFor),
\* except that the cancel loop takes a live Lead as it is.
Take ==
    /\ at.op = "scan" /\ at.cur = 0 /\ at.todo # {}
    /\ LET i == Min(at.todo)
       IN  \/ /\ at' = [at EXCEPT !.todo = @ \ {i}, !.cur = i, !.step = Entry(at.loop, i)]
              /\ rooted' \in IF at.loop = "cancel" THEN {rooted, TRUE} ELSE {TRUE}
              /\ UNCHANGED <<blocked, faults>>
           \/ /\ Fault \* the Lead cannot be restored
              /\ at' = [at EXCEPT !.todo = @ \ {i}]
              /\ blocked' = blocked \cup {TaskOf(i)}
              /\ UNCHANGED rooted
    /\ UNCHANGED <<ledger, intake, team, runtime, shutdown, paused>>

\* Mutation of Ready.
ReadyWithoutDependencies(t, seen) ==
    /\ request[t] = "queued" /\ t \notin blocked
    /\ t \notin seen
    /\ Last(t) # 0 => /\ records[Last(t)].provisioning.retryable
                      /\ records[Last(t)].provisioning.count <= records[Last(t)].policy.maxAttempts
    /\ L!CapacityFree(t)
    /\ Room

\* Mutation of Ready.
ReadyIgnoringCancel(t, seen) ==
    /\ request[t] # "none" /\ t \notin blocked
    /\ t \notin seen /\ DependsOn[t] \subseteq seen
    /\ Last(t) # 0 => /\ records[Last(t)].provisioning.retryable
                      /\ records[Last(t)].provisioning.count <= records[Last(t)].policy.maxAttempts
    /\ L!CapacityFree(t)
    /\ Room

\* status(request) = ready, for a task without submissions: never attempted,
\* or last attempted with a retryable provisioning failure within its budget.
Ready(t, seen) ==
    /\ request[t] = "queued" /\ t \notin blocked
    /\ t \notin seen /\ DependsOn[t] \subseteq seen
    /\ Last(t) # 0 => /\ records[Last(t)].provisioning.retryable
                      /\ records[Last(t)].provisioning.count <= records[Last(t)].policy.maxAttempts
    /\ L!CapacityFree(t)
    /\ Room

ReserveNew(t) ==
    L!Reserve(C, t, Last(t), FreshId, FreshId, "spawn", Pinned, L!NoRepair, L!NoHandoff)

\* One task is selected and reserved (DispatchQueue decides which); then its
\* Lead is restored.
Dispatch(t) ==
    /\ at.op = "scan" /\ at.loop = "dispatch" /\ at.cur = 0
    /\ ~paused
    /\ t \notin at.tried
    /\ Ready(t, at.seen)
    /\ ReserveNew(t)
    /\ at' = [at EXCEPT !.tried = @ \cup {t}, !.cur = Len(records) + 1, !.step = "admit"]
    /\ UNCHANGED <<intake, blocked, team, runtime, control>>

AdmitDispatch ==
    /\ At("admit")
    /\ rooted' = TRUE
    /\ Goto("start")
    /\ UNCHANGED <<ledger, intake, blocked, team, runtime, shutdown, paused, faults>>

\* leadFor fails: the reservation is retired as never started.
DispatchUnadmitted ==
    /\ At("admit")
    /\ Fault
    /\ L!Retire(C, at.cur, "never-started")
    /\ Throw(FALSE)
    /\ UNCHANGED <<intake, team, runtime, shutdown, rooted, paused>>

\* Nothing more to dispatch, or pacing forbids it.
EndScan ==
    /\ at.op = "scan" /\ at.loop = "dispatch" /\ at.cur = 0
    /\ at' = Idle
    /\ UNCHANGED <<ledger, intake, blocked, team, runtime, control>>

----------------------------------------------------------------------------
(***************************************************************************)
(* Starting a reserved attempt: DshAssignmentRuntime.start.                *)
(***************************************************************************)
\* A child created before the activation edge is adopted if it holds the
\* assignment prompt, and never created twice.
Adopt ==
    /\ At("start")
    /\ member[at.cur] # "none"
    /\ IF member[at.cur] # "failed" /\ turn[at.cur] # "none"
       THEN L!Activate(C, at.cur) /\ Leave
       ELSE UNCHANGED ledger /\ Throw(FALSE)
    /\ UNCHANGED <<intake, team, runtime, control>>

\* Mutation of Provision.
ProvisionAgain ==
    /\ At("start")
    /\ member' = [member EXCEPT ![at.cur] = "provisioning"]
    /\ Goto("spawning")
    /\ UNCHANGED <<ledger, intake, blocked, turn, runs, seenRun, mail, runtime, control>>

\* The roster records the child as provisioning, or refuses it.
Provision ==
    /\ At("start")
    /\ member[at.cur] = "none"
    /\ \/ /\ member' = [member EXCEPT ![at.cur] = "provisioning"]
          /\ Goto("spawning")
          /\ UNCHANGED faults
       \/ Fault /\ Goto("failing") /\ UNCHANGED member
    /\ UNCHANGED <<ledger, intake, blocked, turn, runs, seenRun, mail, runtime, shutdown, rooted, paused>>

ChildStarts ==
    /\ At("spawning")
    /\ resident' = resident \cup {at.cur}
    /\ turn' = [turn EXCEPT ![at.cur] = "running"]
    /\ runs' = [runs EXCEPT ![at.cur] = @ + 1]
    /\ Goto("started")
    /\ UNCHANGED <<ledger, intake, blocked, member, seenRun, mail, waking, drains, control>>

\* The child cannot be created, or its first prompt cannot be made durable: the
\* roster records a failed member and tries to drain the child.
SpawnFails ==
    /\ At("spawning") \/ At("started")
    /\ Fault
    /\ member' = [member EXCEPT ![at.cur] = "failed"]
    /\ \/ Goto("failing") /\ UNCHANGED <<resident, turn>>
       \/ /\ at.cur \in resident
          /\ resident' = resident \ {at.cur}
          /\ turn' = [turn EXCEPT ![at.cur] = IF @ = "running" THEN "interrupted" ELSE @]
          /\ Goto("failing")
    /\ UNCHANGED <<ledger, intake, blocked, runs, seenRun, mail, waking, drains, shutdown, rooted, paused>>

ChildSettles ==
    /\ At("started")
    /\ member' = [member EXCEPT ![at.cur] = "active"]
    /\ Goto("activate")
    /\ UNCHANGED <<ledger, intake, blocked, turn, runs, seenRun, mail, runtime, control>>

ActivateStarted ==
    /\ At("activate")
    /\ L!Activate(C, at.cur)
    /\ Leave
    /\ UNCHANGED <<intake, team, runtime, control>>

\* The diagnostic tells whether the failure is retryable, final, or leaves the
\* child's ownership uncertain; only in the last case the reservation stays.
Classify ==
    /\ At("failing")
    /\ \/ Throw(FALSE) /\ UNCHANGED drains
       \/ \E retryable \in BOOLEAN :
            /\ drains' = drains \cup {at.cur}
            /\ at' = [at EXCEPT !.step = "draining", !.retryable = retryable]
            /\ UNCHANGED blocked
    /\ UNCHANGED <<ledger, intake, team, resident, waking, control>>

RecordProvisionFailure ==
    /\ At("drained") /\ at.op # "close" /\ Phase(at.cur) = "reserved"
    /\ IF at.cur \in resident
       THEN Throw(FALSE) /\ UNCHANGED ledger
       ELSE L!ProvisionFailed(C, at.cur, "stopped", at.retryable) /\ Throw(at.retryable)
    /\ UNCHANGED <<intake, team, runtime, control>>

(***************************************************************************)
(* Observing an active attempt: DshAssignmentRuntime.observe.              *)
(***************************************************************************)
\* A registered session is left alone; otherwise its stored events are read.
Inspect ==
    /\ At("observe")
    /\ IF at.cur \in resident
       THEN Leave
       ELSE /\ at' = [at EXCEPT !.step = "decide", !.turn = turn[at.cur], !.runs = runs[at.cur]]
            /\ UNCHANGED blocked
    /\ UNCHANGED <<ledger, intake, team, runtime, control>>

\* The decision follows the evidence read before the await.
ReportWork ==
    /\ At("decide")
    /\ at.turn = "reported"
    /\ L!Report(C, at.cur)
    /\ Goto("ownership")
    /\ UNCHANGED <<intake, blocked, team, runtime, control>>

RecoveryBudgetSpent == records[at.cur].recoveries >= records[at.cur].policy.maxAttempts

\* Mutation of StopSilent.
LeaveSilent ==
    /\ At("decide")
    /\ \/ at.turn = "silent" /\ Leave /\ UNCHANGED ledger
       \/ /\ at.turn = "interrupted" /\ seenRun[at.cur] # at.runs /\ RecoveryBudgetSpent
          /\ L!Stop(C, at.cur)
          /\ Goto("ownership") /\ UNCHANGED blocked
    /\ UNCHANGED <<intake, team, runtime, control>>

\* A turn without text, or an interrupted one when the delivery budget is spent.
StopSilent ==
    /\ At("decide")
    /\ \/ at.turn = "silent"
       \/ at.turn = "interrupted" /\ seenRun[at.cur] # at.runs /\ RecoveryBudgetSpent
    /\ L!Stop(C, at.cur)
    /\ Goto("ownership")
    /\ UNCHANGED <<intake, blocked, team, runtime, control>>

\* A new interruption takes one delivery of the budget; an interruption seen
\* before goes on with the delivery it was given.
RecoverWork ==
    /\ At("decide")
    /\ at.turn = "interrupted"
    /\ IF seenRun[at.cur] = at.runs
       THEN UNCHANGED <<ledger, seenRun>>
       ELSE /\ ~RecoveryBudgetSpent
            /\ L!Recover(C, at.cur)
            /\ seenRun' = [seenRun EXCEPT ![at.cur] = at.runs]
    /\ Goto("deliver")
    /\ UNCHANGED <<intake, blocked, member, turn, runs, mail, runtime, control>>

\* The recovery prompt is queued under its reserved message id: a second send
\* of a delivered message has no effect.
DeliverRecovery ==
    /\ At("deliver")
    /\ \/ /\ Fault \* not due yet
          /\ Leave
          /\ UNCHANGED mail
       \/ /\ member[at.cur] = "active" /\ WakeAllowed(at.cur)
          /\ mail' = IF runs[at.cur] = seenRun[at.cur] THEN mail \cup {at.cur} ELSE mail
          /\ Leave
          /\ UNCHANGED faults
       \/ /\ ~(member[at.cur] = "active" /\ WakeAllowed(at.cur))
          /\ Throw(FALSE)
          /\ UNCHANGED <<mail, faults>>
    /\ UNCHANGED <<ledger, intake, member, turn, runs, seenRun, runtime, shutdown, rooted, paused>>

(***************************************************************************)
(* Stopping and retiring: cancel() and retireAfterDrain().                 *)
(***************************************************************************)
StopCancelled ==
    /\ At("stop")
    /\ L!Stop(C, at.cur)
    /\ Goto("ownership")
    /\ UNCHANGED <<intake, blocked, team, runtime, control>>

\* Nothing is drained for an attempt without a roster entry; else the wait
\* joins the drain in progress, or begins one.
JoinDrain ==
    /\ At("ownership")
    /\ IF member[at.cur] = "none"
       THEN Throw(FALSE) /\ UNCHANGED drains
       ELSE drains' = drains \cup {at.cur} /\ Goto("draining") /\ UNCHANGED blocked
    /\ UNCHANGED <<ledger, intake, team, resident, waking, control>>

\* The deadline bounds the wait, not the drain.
DrainTimesOut ==
    /\ At("draining")
    /\ Fault
    /\ IF at.op = "close" THEN at' = Idle /\ UNCHANGED blocked ELSE Throw(FALSE)
    /\ UNCHANGED <<ledger, intake, team, runtime, shutdown, rooted, paused>>

\* The registry is consulted before the journal is written.
ConfirmAbsent ==
    /\ At("drained") /\ at.op # "close" /\ Phase(at.cur) # "reserved"
    /\ IF at.cur \in resident THEN Throw(FALSE) ELSE Goto("retire") /\ UNCHANGED blocked
    /\ UNCHANGED <<ledger, intake, team, runtime, control>>

RetireDrained ==
    /\ At("retire")
    /\ L!Retire(C, at.cur, "stopped")
    /\ IF at.loop = "handoff" \/ at.op = "handoff" THEN Goto("replace") /\ UNCHANGED blocked ELSE Leave
    /\ UNCHANGED <<intake, team, runtime, control>>

(***************************************************************************)
(* Handoff: resumeHandoff(), from the durable intent on.                   *)
(***************************************************************************)
Intend ==
    /\ At("handoff") /\ ~HasIntent(at.cur) /\ Room
    /\ IF member[at.cur] = "none"
       THEN Throw(FALSE) /\ UNCHANGED ledger
       ELSE /\ L!HandoffIntent(C, at.cur, FreshId, FreshId)
            /\ Goto("handoff") /\ UNCHANGED blocked
    /\ UNCHANGED <<intake, team, runtime, control>>

ResumeHandoff ==
    /\ At("handoff") /\ HasIntent(at.cur)
    /\ IF HandedOff(at.cur) THEN Leave /\ UNCHANGED ledger
       ELSE /\ \/ Phase(at.cur) = "active" /\ L!Stop(C, at.cur) /\ Goto("ownership")
               \/ Phase(at.cur) = "stopping" /\ UNCHANGED ledger /\ Goto("ownership")
               \/ Phase(at.cur) = "terminal" /\ UNCHANGED ledger /\ Goto("replace")
            /\ UNCHANGED blocked
    /\ UNCHANGED <<intake, team, runtime, control>>

\* The replacement takes over the identities, policy and repair of the intent.
\* The scan leaves it to its next loop; the Lead operation starts it.
Replace ==
    /\ At("replace")
    /\ LET p == records[at.cur]
       IN  IF p.evidence # "stopped" \/ ~L!CapacityFree(p.task)
           THEN Throw(FALSE) /\ UNCHANGED ledger
           ELSE /\ L!Reserve(C, p.task, at.cur, p.intent.worker, p.intent.runtime, p.provider, p.policy,
                             p.repair, [previous |-> at.cur, round |-> p.intent.round])
                /\ IF at.op = "scan" THEN Leave
                   ELSE at' = [at EXCEPT !.cur = Len(records) + 1, !.step = "start"] /\ UNCHANGED blocked
    /\ UNCHANGED <<intake, team, runtime, control>>

\* Mutation of Acceptable.
AcceptableAnyPhase(i) ==
    /\ i = Last(TaskOf(i))
    /\ records[i].result
    /\ ~Cancelled(TaskOf(i))
    /\ receipts[TaskOf(i)] \in {0, i}

(***************************************************************************)
(* Accepting a report: applyReport(), replayed by the scan.                *)
(***************************************************************************)
\* reportAttempt(): the last attempt, quiescent with a report, not cancelled,
\* of a task that is still pending (or holds this very receipt).
Acceptable(i) ==
    /\ i = Last(TaskOf(i))
    /\ Phase(i) = "terminal" /\ records[i].evidence = "stopped"
    /\ records[i].result /\ ~records[i].stopReason
    /\ ~Cancelled(TaskOf(i))
    /\ receipts[TaskOf(i)] \in {0, i}

\* The receipt in the Lead log completes the task ...
ApplyReport ==
    /\ At("apply")
    /\ \/ /\ Acceptable(at.cur)
          /\ receipts' = [receipts EXCEPT ![TaskOf(at.cur)] = at.cur]
          /\ Goto("settle")
          /\ UNCHANGED <<blocked, faults>>
       \/ Fault /\ Throw(FALSE) /\ UNCHANGED receipts
       \/ ~Acceptable(at.cur) /\ Throw(FALSE) /\ UNCHANGED <<receipts, faults>>
    /\ UNCHANGED <<ledger, request, report, team, runtime, shutdown, rooted, paused>>

\* ... and then the report record is settled.
SettleReport ==
    /\ At("settle")
    /\ report' = [report EXCEPT ![at.cur] = "accepted"]
    /\ Leave
    /\ UNCHANGED <<ledger, request, receipts, team, runtime, control>>

----------------------------------------------------------------------------
(***************************************************************************)
(* Operations of the Lead and the operator, between scans.                 *)
(***************************************************************************)
\* Work with a report in acceptance cannot be cancelled any more.
Cancel(t) ==
    /\ at.op = "idle" /\ ~shutdown
    /\ request[t] = "queued"
    /\ \A i \in Attempts : TaskOf(i) = t => report[i] = "none"
    /\ request' = [request EXCEPT ![t] = "cancelled"]
    /\ at' = IF Last(t) # 0 /\ Live(Last(t))
             THEN [Idle EXCEPT !.op = "cancel", !.cur = Last(t), !.step = Entry("cancel", Last(t))]
             ELSE Idle
    /\ UNCHANGED <<ledger, report, receipts, blocked, team, runtime, control>>

\* A report is accepted by the Lead: first the durable record of the decision.
AcceptReport(i) ==
    /\ at.op = "idle" /\ ~shutdown
    /\ \/ /\ report[i] = "none" /\ Acceptable(i)
          /\ report' = [report EXCEPT ![i] = "pending"]
       \/ report[i] = "pending" /\ UNCHANGED report
    /\ at' = [Idle EXCEPT !.op = "accept", !.cur = i, !.step = "apply"]
    /\ UNCHANGED <<ledger, request, receipts, blocked, team, runtime, control>>

\* The health nudges of the attempt are exhausted (their count is not modelled).
Handoff(i) ==
    /\ at.op = "idle" /\ ~shutdown
    /\ i = Last(TaskOf(i)) /\ Phase(i) = "active"
    /\ request[TaskOf(i)] = "queued"
    /\ L!Handoffs(TaskOf(i)) < records[i].policy.handoffLimit
    /\ Room
    /\ at' = [Idle EXCEPT !.op = "handoff", !.cur = i, !.step = "handoff"]
    /\ UNCHANGED <<ledger, intake, blocked, team, runtime, control>>

\* A due provisioning replacement, selected by the Lead.
Retry(t) ==
    /\ at.op = "idle" /\ ~shutdown /\ ~paused
    /\ Last(t) # 0
    /\ Ready(t, {u \in Tasks : receipts[u] # 0})
    /\ ReserveNew(t)
    /\ at' = [Idle EXCEPT !.op = "retry", !.cur = Len(records) + 1, !.step = "start"]
    /\ UNCHANGED <<intake, blocked, team, runtime, control>>

Pause ==
    /\ at.op = "idle" /\ ~shutdown
    /\ \/ paused /\ UNCHANGED faults
       \/ ~paused /\ Fault
    /\ paused' = ~paused
    /\ UNCHANGED <<ledger, intake, blocked, team, runtime, at, shutdown, rooted>>

\* Mutation of BeginClose.
UnfencedClose ==
    /\ at.op = "idle"
    /\ Fault
    /\ at' = [Idle EXCEPT !.op = "close", !.todo = IF rooted THEN Attempts ELSE {}]
    /\ UNCHANGED <<ledger, intake, blocked, team, runtime, shutdown, rooted, paused>>

(***************************************************************************)
(* Close: fence wakeups, drain every session of the roots, release.  A     *)
(* failed close leaves the fence; a later one drains again.                *)
(***************************************************************************)
BeginClose ==
    /\ at.op = "idle"
    /\ shutdown' = TRUE
    /\ IF shutdown THEN UNCHANGED faults ELSE Fault
    /\ at' = [Idle EXCEPT !.op = "close", !.todo = IF rooted THEN Attempts ELSE {}]
    /\ UNCHANGED <<ledger, intake, blocked, team, runtime, rooted, paused>>

CloseDrains ==
    /\ at.op = "close" /\ at.cur = 0 /\ at.todo # {}
    /\ LET i == Min(at.todo)
       IN  /\ drains' = drains \cup {i}
           /\ at' = [at EXCEPT !.todo = @ \ {i}, !.cur = i, !.step = "draining"]
    /\ UNCHANGED <<ledger, intake, blocked, team, resident, waking, control>>

CloseDrained ==
    /\ At("drained") /\ at.op = "close"
    /\ Leave
    /\ UNCHANGED <<ledger, intake, team, runtime, control>>

Release ==
    /\ at.op = "close" /\ at.cur = 0 /\ at.todo = {}
    /\ at' = [Idle EXCEPT !.op = "down"]
    /\ UNCHANGED <<ledger, intake, blocked, team, runtime, control>>

\* Mutation of Restart.
RestartUnsynced ==
    /\ records' = IF records = << >> THEN records ELSE SubSeq(records, 1, Len(records) - 1)
    /\ resident' = {} /\ waking' = {} /\ drains' = {}
    /\ turn' = [i \in Id |-> IF turn[i] = "running" THEN "interrupted" ELSE turn[i]]
    /\ at' = Idle
    /\ shutdown' = FALSE /\ rooted' = FALSE
    /\ UNCHANGED <<intake, blocked, member, runs, seenRun, mail, paused>>

(***************************************************************************)
(* A new process: what was in memory is gone, a running turn is            *)
(* interrupted, the stores and the mailbox are read back.                  *)
(***************************************************************************)
Restart ==
    /\ resident' = {} /\ waking' = {} /\ drains' = {}
    /\ turn' = [i \in Id |-> IF turn[i] = "running" THEN "interrupted" ELSE turn[i]]
    /\ at' = Idle
    /\ shutdown' = FALSE /\ rooted' = FALSE
    /\ UNCHANGED <<ledger, intake, blocked, member, runs, seenRun, mail, paused>>

Crash  == Fault /\ Restart
Reopen == at.op = "down" /\ Restart /\ UNCHANGED faults

\* The roster settles a provisioning entry that a crash left behind, from the
\* child's own session.
Reconcile(i) ==
    /\ i \in Attempts /\ member[i] = "provisioning"
    /\ i \notin resident
    /\ ~(at.cur = i /\ at.step \in {"spawning", "started"})
    /\ member' = [member EXCEPT ![i] = IF turn[i] = "none" THEN "failed" ELSE "active"]
    /\ UNCHANGED <<ledger, intake, blocked, turn, runs, seenRun, mail, runtime, at, control>>

(***************************************************************************)
(* Sessions, mailbox and provider.                                         *)
(***************************************************************************)
TurnEnds(i) ==
    /\ i \in resident /\ turn[i] = "running"
    /\ \/ \E end \in {"reported", "silent"} : turn' = [turn EXCEPT ![i] = end] /\ UNCHANGED faults
       \/ Fault /\ turn' = [turn EXCEPT ![i] = "interrupted"]
    /\ UNCHANGED <<ledger, intake, blocked, member, runs, seenRun, mail, runtime, at, shutdown, rooted, paused>>

SessionEnds(i) ==
    /\ i \in resident /\ turn[i] # "running"
    /\ resident' = resident \ {i}
    /\ UNCHANGED <<ledger, intake, blocked, team, waking, drains, at, control>>

\* Somebody of the Team sends the worker a wakeup message.
Message(i) ==
    /\ i \in Attempts /\ member[i] = "active"
    /\ WakeAllowed(i)
    /\ runs[i] < MaxRuns
    /\ i \notin mail
    /\ mail' = mail \cup {i}
    /\ UNCHANGED <<ledger, intake, blocked, member, turn, runs, seenRun, runtime, at, control>>

\* Mutation of AdmitWake.
AdmitAnyWake(i) ==
    /\ i \in mail /\ at.op # "down"
    /\ Quiescent(i)
    /\ waking' = waking \cup {i}
    /\ UNCHANGED <<ledger, intake, blocked, team, resident, drains, at, control>>

\* Delivery: the policy is asked and a runtime slot taken ...
AdmitWake(i) ==
    /\ i \in mail /\ at.op # "down"
    /\ WakeAllowed(i)
    /\ Quiescent(i)
    /\ waking' = waking \cup {i}
    /\ UNCHANGED <<ledger, intake, blocked, team, resident, drains, at, control>>

\* ... and then the session resumes with the message, or does not.
Resume(i) ==
    /\ i \in waking
    /\ \/ /\ resident' = resident \cup {i}
          /\ turn' = [turn EXCEPT ![i] = "running"]
          /\ runs' = [runs EXCEPT ![i] = @ + 1]
          /\ mail' = mail \ {i}
          /\ UNCHANGED faults
       \/ Fault /\ UNCHANGED <<resident, turn, runs, mail>>
    /\ waking' = waking \ {i}
    /\ UNCHANGED <<ledger, intake, blocked, member, seenRun, drains, at, shutdown, rooted, paused>>

\* A live session takes the message into its inbox.
Deliver(i) ==
    /\ i \in mail /\ i \in resident
    /\ WakeAllowed(i)
    /\ mail' = mail \ {i}
    /\ turn' = [turn EXCEPT ![i] = "running"]
    /\ runs' = [runs EXCEPT ![i] = @ + 1]
    /\ UNCHANGED <<ledger, intake, blocked, member, seenRun, runtime, at, control>>

\* Mutation of DrainEnds.
DrainEndsQuietly(i, settled) ==
    at' = IF At("draining") /\ at.cur = i /\ settled THEN [at EXCEPT !.step = "drained"] ELSE at

\* The waiter of a drain learns how it ended.
DrainEnds(i, settled) ==
    at' = IF At("draining") /\ at.cur = i
          THEN IF settled THEN [at EXCEPT !.step = "drained"] ELSE [at EXCEPT !.step = "undrained"]
          ELSE at

\* The provider's drain stops the session, and a resumption in progress.
DrainSettles(i) ==
    /\ i \in drains
    /\ drains' = drains \ {i}
    /\ resident' = resident \ {i}
    /\ waking' = waking \ {i}
    /\ turn' = [turn EXCEPT ![i] = IF @ = "running" THEN "interrupted" ELSE @]
    /\ DrainEnds(i, TRUE)
    /\ UNCHANGED <<ledger, intake, blocked, member, runs, seenRun, mail, control>>

DrainFails(i) ==
    /\ i \in drains
    /\ Fault
    /\ drains' = drains \ {i}
    /\ DrainEnds(i, FALSE)
    /\ UNCHANGED <<ledger, intake, blocked, team, resident, waking, shutdown, rooted, paused>>

Undrained ==
    /\ At("undrained")
    /\ IF at.op = "close" THEN at' = Idle /\ UNCHANGED blocked ELSE Throw(FALSE)
    /\ UNCHANGED <<ledger, intake, team, runtime, control>>

----------------------------------------------------------------------------

Init ==
    /\ records = << >>
    /\ request = [t \in Tasks |-> "none"]
    /\ report = [i \in Id |-> "none"]
    /\ receipts = [t \in Tasks |-> 0]
    /\ blocked = {}
    /\ member = [i \in Id |-> "none"]
    /\ turn = [i \in Id |-> "none"]
    /\ runs = [i \in Id |-> 0]
    /\ seenRun = [i \in Id |-> 0]
    /\ mail = {} /\ resident = {} /\ waking = {} /\ drains = {}
    /\ at = Idle
    /\ shutdown = FALSE /\ rooted = FALSE /\ paused = FALSE
    /\ faults = 0

Scan == BeginScan \/ NextLoop \/ Take \/ AdmitDispatch \/ DispatchUnadmitted \/ EndScan
          \/ \E t \in Tasks : Dispatch(t)

Start == Adopt \/ Provision \/ ChildStarts \/ SpawnFails \/ ChildSettles \/ ActivateStarted
           \/ Classify \/ RecordProvisionFailure

Observe == Inspect \/ ReportWork \/ StopSilent \/ RecoverWork \/ DeliverRecovery

Stopping == StopCancelled \/ JoinDrain \/ DrainTimesOut \/ Undrained \/ ConfirmAbsent \/ RetireDrained

HandingOff == Intend \/ ResumeHandoff \/ Replace

Accepting == ApplyReport \/ SettleReport

Lead == \/ \E t \in Tasks : Cancel(t) \/ Retry(t)
        \/ \E i \in Attempts : AcceptReport(i) \/ Handoff(i)

Closing == BeginClose \/ CloseDrains \/ CloseDrained \/ Release

Coordinator == Scan \/ Start \/ Observe \/ Stopping \/ HandingOff \/ Accepting \/ Lead \/ Pause \/ Closing

Session(i) == TurnEnds(i) \/ SessionEnds(i) \/ Message(i) \/ AdmitWake(i) \/ Resume(i) \/ Deliver(i)

Provider(i) == DrainSettles(i) \/ DrainFails(i)

Next == Coordinator \/ Crash \/ Reopen
          \/ \E i \in Id : Session(i) \/ Provider(i) \/ Reconcile(i)

Spec == Init /\ [][Next]_vars

\* The coordinator's steps are promises that resolve; its scan is a timer, and
\* what waits for the operation in progress is queued behind it, so that it has
\* its turn (a close is repeated, a pause is lifted); a
\* turn ends, a session without a turn is released, an admitted delivery is
\* made; a drain settles.  How often these fail is bounded by MaxFaults.
Fairness ==
    /\ WF_vars(Scan) /\ WF_vars(Start) /\ WF_vars(Observe) /\ WF_vars(Stopping)
    /\ WF_vars(HandingOff) /\ WF_vars(Accepting)
    /\ WF_vars(CloseDrains \/ CloseDrained \/ Release) /\ WF_vars(Reopen)
    /\ SF_vars(BeginScan) /\ SF_vars(shutdown /\ BeginClose) /\ SF_vars(paused /\ Pause)
    /\ \A i \in Id :
         /\ WF_vars(TurnEnds(i)) /\ WF_vars(SessionEnds(i)) /\ WF_vars(Reconcile(i))
         /\ WF_vars(AdmitWake(i)) /\ WF_vars(Resume(i)) /\ WF_vars(Deliver(i))
         /\ WF_vars(DrainSettles(i))

FairSpec == Spec /\ Fairness

----------------------------------------------------------------------------
(***************************************************************************)
(* Properties.                                                             *)
(***************************************************************************)

Ops   == {"idle", "scan", "cancel", "handoff", "retry", "accept", "close", "down"}
Loops == {"none", "cancel", "reports", "handoff", "observe", "dispatch"}
Steps == {"next", "stop", "ownership", "apply", "settle", "handoff", "start", "observe", "admit", "spawning",
          "started", "activate", "failing", "draining", "drained", "undrained", "decide", "deliver", "retire",
          "replace"}
Turns == {"none", "running", "interrupted", "reported", "silent"}

\* Every store, every session and the operation in progress is well formed.
TypeOK ==
    /\ records \in Seq(L!Attempt) /\ Len(records) <= MaxAttempts
    /\ request \in [Tasks -> {"none", "queued", "cancelled"}]
    /\ blocked \subseteq Tasks
    /\ report \in [Id -> {"none", "pending", "accepted"}]
    /\ receipts \in [Tasks -> 0..MaxAttempts]
    /\ member \in [Id -> {"none", "provisioning", "active", "failed"}]
    /\ turn \in [Id -> Turns]
    /\ runs \in [Id -> Nat] /\ seenRun \in [Id -> Nat]
    /\ mail \subseteq Id /\ resident \subseteq Id /\ waking \subseteq Id /\ drains \subseteq Id
    /\ at \in [op : Ops, loop : Loops, todo : SUBSET Id, cur : 0..MaxAttempts, step : Steps, turn : Turns,
               runs : Nat, retryable : BOOLEAN, seen : SUBSET Tasks, tried : SUBSET Tasks]
    /\ at.op = "scan" => at.loop # "none"
    /\ shutdown \in BOOLEAN /\ rooted \in BOOLEAN /\ paused \in BOOLEAN
    /\ faults \in 0..MaxFaults

\* The coordinator implements the ledger's protocol: whatever the schedule and
\* the failures, it emits only events the ledger accepts, so all that is shown
\* of Assignments holds of it.
FollowsLedger == L!Spec

\* A stop receipt means the worker is gone: an attempt that was stopped
\* (cancelled, recovery exhausted, handed off, failed to start) and retired has
\* no session and none on its way, so a successor cannot run beside it.
StoppedIsGone ==
    \A i \in Attempts : Phase(i) = "terminal" /\ records[i].stopReason => Quiescent(i)

\* A task is completed by one attempt, which delivered a report and was
\* positively stopped without a stop reason, by a recorded decision, and never
\* after a cancellation; it is the last attempt of the task, unless a handoff
\* of it was resumed afterwards.
CompletedByReport ==
    \A t \in Tasks : receipts[t] # 0 =>
      LET i == receipts[t]
      IN  /\ TaskOf(i) = t
          /\ Phase(i) = "terminal" /\ records[i].evidence = "stopped"
          /\ records[i].result /\ ~records[i].stopReason
          /\ report[i] # "none"
          /\ ~Cancelled(t)
          /\ i = Last(t) \/ HandedOff(i)

\* No work is given out before its prerequisites are accepted, however old the
\* task states a scan goes by.
DependentsWait ==
    \A i \in Attempts : \A u \in DependsOn[TaskOf(i)] : receipts[u] # 0

\* A child is created once: no session accepts the assignment prompt of a
\* reserved attempt again, and an active attempt has a session that did.
ChildCreatedOnce ==
    \A i \in Attempts :
      /\ Phase(i) = "active" => member[i] # "none" /\ turn[i] # "none"
      /\ Phase(i) = "reserved" => runs[i] <= 1

\* After cancellation nothing new is reserved, reported or accepted for a task.
CancelledStaysCancelled ==
    [][\A t \in Tasks : Cancelled(t) =>
         /\ Cancelled(t)'
         /\ L!Lineage(t)' = L!Lineage(t)
         /\ receipts'[t] = receipts[t]
         /\ \A i \in L!Lineage(t) : records'[i].result = records[i].result]_vars

\* When the coordinator gives up its ownership, no session of a Lead it has
\* driven is left, and none is on its way.
ReleasedQuiescent ==
    [][at'.op = "down" /\ at.op # "down" /\ rooted => resident' \cup waking' = {}]_vars

\* An operation comes to an end, whatever is waiting for whatever.
OperationEnds == at.op \notin {"idle", "down"} ~> at.op \in {"idle", "down"}

\* A recorded acceptance survives every crash and is settled with its receipt,
\* unless an older handoff intent of the attempt is resumed meanwhile (README).
AcceptanceSettles ==
    \A i \in Id : report[i] = "pending" ~>
        /\ i \in Attempts
        /\ HandedOff(i) \/ (report[i] = "accepted" /\ receipts[TaskOf(i)] = i)

\* No worker is forgotten: an attempt that became active ends, through report,
\* recovery, handoff or cancellation.
ActiveEnds ==
    \A i \in Id : i \in Attempts /\ Phase(i) = "active" ~> i \in Attempts /\ Phase(i) = "terminal"

\* A cancelled attempt with a known child is retired.
CancelledEnds ==
    \A i \in Id : i \in Attempts /\ Cancelled(TaskOf(i)) /\ member[i] # "none" ~>
        i \in Attempts /\ Phase(i) = "terminal"

(***************************************************************************)
(* What documents and comments say, and the code does not keep: README.    *)
(***************************************************************************)

\* "Older completion cannot override a later unfinished turn": a report is
\* taken when the latest turn of the worker is the completed one.
ReportOfLatestTurn ==
    [][\A i \in Attempts : ~records[i].result /\ records'[i].result =>
         turn[i] = "reported" /\ i \notin waking]_vars

\* "A generic block would fence its retry": recording a retryable provisioning
\* failure does not block the task.
RetryNotFenced ==
    [][\A i \in Attempts :
         ~records[i].provisioning.retryable /\ records'[i].provisioning.retryable
           => blocked' = blocked]_vars

\* "Execution disposal drains managed DSH children ... before releasing
\* journals/policies".
DisposalDrains == [][at'.op = "down" /\ at.op # "down" => resident' \cup waking' = {}]_vars

=============================================================================
