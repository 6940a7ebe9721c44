---------------------------- MODULE Integrations ---------------------------
(***************************************************************************)
(* The integration queues of the Teams (integrations.ts) over one target   *)
(* branch of one repository (git-integration-provider.ts), with the        *)
(* transition check of their projection (integration-projection.ts), the   *)
(* per-Lead transaction chain (journal.ts) and the file lock that excludes *)
(* two runners of the same target (integration-ownership.ts).              *)
(*                                                                         *)
(* Every Team runs in a process of its own and keeps its queue in the log  *)
(* of its Lead's session.  An append is visible in memory at once and      *)
(* durable after a flush; a flush that fails leaves it in memory only.     *)
(*                                                                         *)
(* A commit is the sequence of what was merged to make it: job identities, *)
(* each for the source commit the job pins, and Foreign for a commit made  *)
(* outside the queues.  The verification of a job merges its source into   *)
(* the target, which changes nothing if the target already contains it.    *)
(***************************************************************************)
EXTENDS Naturals, Sequences, SequencesExt, FiniteSets

CONSTANTS
    Teams,
    Jobs,          \* integration identities, each pinning one source commit
    TeamOf,        \* [Jobs -> Teams]
    Gated,         \* the jobs admitted with a reviewGate
    MaxPending,    \* the configured queue limit
    RetryLimit,    \* rounds kept in previousCandidates: 3 in the code
    Foreign,
    MaxForeign,    \* bound on the commits made outside the queues
    MaxFaults,     \* bound on failed flushes, refusals by Git and crashes
    None

ASSUME IntegrationsAssumption ==
    /\ TeamOf \in [Jobs -> Teams]
    /\ Gated \subseteq Jobs
    /\ MaxPending \in Nat \ {0}
    /\ {RetryLimit, MaxForeign, MaxFaults} \subseteq Nat
    /\ Foreign \notin Jobs
    /\ None \notin Teams \cup Jobs

VARIABLES
    versions,   \* [Teams -> the states a crash may leave, oldest first: the
                \*  first is flushed, the last is what the process sees]
    writer,     \* [Teams -> the transaction whose flush is awaited]
    runner,     \* [Teams -> the call of run() or abandon() in progress]
    lock,       \* the Team whose runner owns the target
    head,       \* the commit of the target branch
    faults,
    admitted,   \* the jobs whose enqueue() returned
    approved    \* the <<job, candidate>> whose approve() returned

vars == <<versions, writer, runner, lock, head, faults, admitted, approved>>

Phases == {"absent", "queued", "running", "verified", "merged", "failed"}

\* A job without a record.  `place` is its index in the projected list, and
\* `verification` stands for failureKind; a receipt is the candidate it binds.
Absent == [phase |-> "absent", place |-> 0, target |-> None, candidate |-> None,
           receipt |-> None, history |-> << >>, verification |-> FALSE]

Idle == [at |-> "idle", id |-> None, job |-> Absent, verifying |-> FALSE]

Mem(t)        == Last(versions[t])
Disk(t)       == Head(versions[t])
JobsOf(t)     == {j \in Jobs : TeamOf[j] = t}
Unfinished(r) == r.phase \in {"queued", "running", "verified"}

Fault == faults < MaxFaults /\ faults' = faults + 1

Init ==
    /\ versions = [t \in Teams |-> <<[jobs |-> [j \in Jobs |-> Absent], failure |-> FALSE]>>]
    /\ writer = [t \in Teams |-> None]
    /\ runner = [t \in Teams |-> Idle]
    /\ lock = None
    /\ head = << >>
    /\ faults = 0
    /\ admitted = {}
    /\ approved = {}

----------------------------------------------------------------------------
(***************************************************************************)
(* The projection of the log.                                              *)
(***************************************************************************)

Approval(prior, next) ==
    prior.phase = "verified" /\ next.phase = "verified" /\ prior.receipt = None /\ next.receipt # None

Round(r) == [target |-> r.target, candidate |-> r.candidate, receipt |-> r.receipt]

\* assertIntegrationTransition()
Allowed(j, prior, next) ==
    LET retry == prior.phase = "verified" /\ next.phase = "queued"
    IN
    /\ \/ <<prior.phase, next.phase>> \in
            {<<"absent", "queued">>, <<"queued", "running">>, <<"queued", "failed">>,
             <<"running", "verified">>, <<"running", "failed">>,
             <<"verified", "merged">>, <<"verified", "failed">>}
       \/ retry
       \/ Approval(prior, next)
    /\ IF retry
       THEN Len(prior.history) < RetryLimit /\ next.history = Append(prior.history, Round(prior))
       ELSE /\ next.history = prior.history
            /\ prior.target # None => next.target = prior.target
            /\ prior.candidate # None => next.candidate = prior.candidate
            /\ ~Approval(prior, next) => next.receipt = prior.receipt
    /\ next.verification => next.phase = "failed" /\ prior.phase = "running"
    /\ next.receipt # None => j \in Gated /\ next.receipt = next.candidate
    /\ next.phase \in {"queued", "running"} => next.receipt = None /\ next.candidate = None
    /\ next.phase = "queued" => next.target = None
    /\ next.phase \in {"running", "verified", "merged"} => next.target # None
    /\ next.phase \in {"verified", "merged"} => next.candidate # None
    /\ next.phase = "merged" /\ j \in Gated => next.receipt # None

\* applyProjectionEvent(): after an event it cannot apply the projection has
\* failed, ignores what follows, and every later read of the Team throws.
Apply(state, j, next) ==
    IF state.failure THEN state
    ELSE IF Allowed(j, state.jobs[j], next) THEN [state EXCEPT !.jobs[j] = next]
    ELSE [state EXCEPT !.failure = TRUE]

----------------------------------------------------------------------------
(***************************************************************************)
(* The transaction chain of a Lead.  A transaction reads, checks, appends  *)
(* and flushes before the next one starts.  The order in which they start  *)
(* is any order of the calls, so a call that waits for its turn needs no   *)
(* state, except that run() and abandon() have read the job they append    *)
(* before they waited.                                                     *)
(***************************************************************************)

Write(t, j, next) == versions' = [versions EXCEPT ![t] = Append(@, Apply(Mem(t), j, next))]

Flushing(t, caller, j, receipt) ==
    /\ writer[t] = None
    /\ writer' = [writer EXCEPT ![t] = [caller |-> caller, id |-> j, receipt |-> receipt]]

Admitted(t) == {j \in JobsOf(t) : Mem(t).jobs[j].phase # "absent"}

\* Mutation (here and below): the error a careless change of the definition
\* after it would make, kept to show which property notices it.
\* Mutation of Enqueue: a replayed admission is acknowledged without a flush.
EnqueueUnflushed(t, j) ==
    /\ ~Mem(t).failure
    /\ j \notin admitted
    /\ \/ /\ j \in Admitted(t)
          /\ writer[t] = None
          /\ admitted' = admitted \cup {j}
          /\ UNCHANGED <<versions, writer>>
       \/ /\ j \notin Admitted(t)
          /\ Cardinality({k \in JobsOf(t) : Unfinished(Mem(t).jobs[k])}) < MaxPending
          /\ Flushing(t, "intake", j, None)
          /\ Write(t, j, [Absent EXCEPT !.phase = "queued", !.place = 1 + Cardinality(Admitted(t))])
          /\ UNCHANGED admitted
    /\ UNCHANGED <<runner, lock, head, faults, approved>>

\* enqueue() and enqueueExternal() with a pinned admission, until the call has
\* returned: an admitted job is only flushed again; a new one needs a quiescent
\* worker, room in the queue and a matching resolve(), any of which may refuse
\* it and change nothing.
Enqueue(t, j) ==
    /\ ~Mem(t).failure
    /\ j \notin admitted
    /\ Flushing(t, "intake", j, None)
    /\ \/ /\ j \in Admitted(t)
          /\ UNCHANGED versions
       \/ /\ j \notin Admitted(t)
          /\ Cardinality({k \in JobsOf(t) : Unfinished(Mem(t).jobs[k])}) < MaxPending
          /\ Write(t, j, [Absent EXCEPT !.phase = "queued", !.place = 1 + Cardinality(Admitted(t))])
    /\ UNCHANGED <<runner, lock, head, faults, admitted, approved>>

\* The candidates a reviewer may have seen, old ones among them.
Candidates(t, j) ==
    LET r == Mem(t).jobs[j]
    IN  ({r.candidate} \cup {r.history[k].candidate : k \in DOMAIN r.history}) \ {None}

\* approve(), until it has returned, with a receipt the host authorises: the
\* same receipt again is only flushed, any other for a candidate that is not
\* the current one is refused.
Approve(t, j, c) ==
    LET r == Mem(t).jobs[j]
    IN
    /\ ~Mem(t).failure
    /\ j \in Gated
    /\ <<j, c>> \notin approved
    /\ Flushing(t, "review", j, c)
    /\ \/ /\ r.receipt = c
          /\ UNCHANGED versions
       \/ /\ r.receipt = None /\ r.phase = "verified" /\ r.candidate = c
          /\ Write(t, j, [r EXCEPT !.receipt = c])
    /\ UNCHANGED <<runner, lock, head, faults, admitted, approved>>

\* record(): the transaction of a runner that waits for its turn.
Waiting(t) == runner[t].at \in {"admitting", "recording", "ending"}

Record(t) ==
    /\ Waiting(t)
    /\ Flushing(t, "runner", runner[t].id, None)
    /\ Write(t, runner[t].id, runner[t].job)
    /\ UNCHANGED <<runner, lock, head, faults, admitted, approved>>

\* The runner's part of the answer to its transaction.
AfterRecord(r, ok) ==
    CASE r.at = "admitting" -> [r EXCEPT !.at = IF ok THEN "verifying" ELSE "diagnosing"]
      [] r.at = "recording" -> [r EXCEPT !.at = IF ok THEN "promoting" ELSE "diagnosing"]
      [] OTHER -> Idle

\* Mutation of Released: a runner opens a lock it did not take.
ReleasedAnyway(t) == t \in Teams /\ lock' = None

\* The finally clause: the lock is released only by the runner that took it.
Released(t) == lock' = IF lock = t THEN None ELSE lock

\* The flush of the running transaction ends it, and with it appendAndFlush().
Flushed(t, ok) ==
    LET x == writer[t]
        r == AfterRecord(runner[t], ok)
    IN
    /\ x # None
    /\ writer' = [writer EXCEPT ![t] = None]
    /\ IF x.caller = "runner"
       THEN /\ runner' = [runner EXCEPT ![t] = r]
            /\ IF r = Idle THEN Released(t) ELSE UNCHANGED lock
       ELSE UNCHANGED <<runner, lock>>
    /\ admitted' = IF x.caller = "intake" /\ ok THEN admitted \cup {x.id} ELSE admitted
    /\ approved' = IF x.caller = "review" /\ ok THEN approved \cup {<<x.id, x.receipt>>} ELSE approved
    /\ UNCHANGED head

\* A flush writes everything the process has appended so far.
Flush(t) ==
    /\ Flushed(t, TRUE)
    /\ versions' = [versions EXCEPT ![t] = <<Last(@)>>]
    /\ UNCHANGED faults

FlushFails(t) ==
    /\ Fault
    /\ Flushed(t, FALSE)
    /\ UNCHANGED versions

----------------------------------------------------------------------------
(***************************************************************************)
(* run() and abandon().                                                    *)
(***************************************************************************)

Stop(t) ==
    /\ runner' = [runner EXCEPT ![t] = Idle]
    /\ Released(t)

\* The runner hands its job to record() and waits at `at` for the answer.
Submit(t, at, next) == runner' = [runner EXCEPT ![t].at = at, ![t].job = next]

Enter(t, at) == runner' = [runner EXCEPT ![t].at = at]

\* run() with an id takes that job; the job is read before the lock is asked for.
Run(t, j) ==
    /\ runner[t] = Idle
    /\ ~Mem(t).failure
    /\ j \in JobsOf(t)
    /\ Unfinished(Mem(t).jobs[j])
    /\ runner' = [runner EXCEPT ![t] = [Idle EXCEPT !.at = "acquiring", !.id = j, !.job = Mem(t).jobs[j]]]
    /\ UNCHANGED <<versions, writer, lock, head, faults, admitted, approved>>

\* run() without an id, which the integration worker calls at every interval,
\* takes the oldest unfinished job.
Scan(t) ==
    \E j \in Jobs :
      /\ Run(t, j)
      /\ \A k \in JobsOf(t) :
           Unfinished(Mem(t).jobs[k]) => Mem(t).jobs[j].place <= Mem(t).jobs[k].place

Busy(t) ==
    /\ runner[t].at = "acquiring"
    /\ lock # None
    /\ Stop(t)
    /\ UNCHANGED <<versions, writer, head, faults, admitted, approved>>

Failed(job) == [job EXCEPT !.phase = "failed"]

\* Mutation of Acquire: a job found running is left to the run that began it.
AcquireRefusing(t) ==
    LET job == runner[t].job
    IN
    /\ runner[t].at = "acquiring"
    /\ lock = None
    /\ CASE job.phase = "running"  -> Stop(t)
         [] job.phase = "queued"   -> lock' = t /\ Enter(t, "observing")
         [] job.phase = "verified" -> lock' = t /\ Enter(t, "promoting")
    /\ UNCHANGED <<versions, writer, head, faults, admitted, approved>>

\* Past the lock: a job found running was interrupted and fails for good.
Acquire(t) ==
    LET job == runner[t].job
    IN
    /\ runner[t].at = "acquiring"
    /\ lock = None
    /\ lock' = t
    /\ CASE job.phase = "running"  -> Submit(t, "ending", Failed(job))
         [] job.phase = "queued"   -> Enter(t, "observing")
         [] job.phase = "verified" -> Enter(t, "promoting")
    /\ UNCHANGED <<versions, writer, head, faults, admitted, approved>>

\* provider.target() and the running record.
Observe(t) ==
    /\ runner[t].at = "observing"
    /\ \/ Submit(t, "admitting", [runner[t].job EXCEPT !.phase = "running", !.target = head])
       \/ Enter(t, "diagnosing")
    /\ UNCHANGED <<versions, writer, lock, head, faults, admitted, approved>>

\* git merge of the source into a detached checkout of the target.
Candidate(target, j) == IF j \in Range(target) THEN target ELSE Append(target, j)

\* Mutation of Verify: only the end of the run is recorded.
VerifyUnrecorded(t) ==
    LET r == runner[t]
        job == [r.job EXCEPT !.phase = "verified", !.candidate = Candidate(r.job.target, r.id)]
    IN
    /\ r.at = "verifying"
    /\ \/ runner' = [runner EXCEPT ![t] = [r EXCEPT !.at = "promoting", !.job = job, !.verifying = TRUE]]
       \/ runner' = [runner EXCEPT ![t] = [r EXCEPT !.at = "diagnosing", !.verifying = TRUE]]
    /\ UNCHANGED <<versions, writer, lock, head, faults, admitted, approved>>

\* provider.verify(): a candidate whose checks pass, or a merge conflict, a
\* failed or timed-out check, or an abort.
Verify(t) ==
    LET r == runner[t]
        job == [r.job EXCEPT !.phase = "verified", !.candidate = Candidate(r.job.target, r.id)]
    IN
    /\ r.at = "verifying"
    /\ \/ runner' = [runner EXCEPT ![t] = [r EXCEPT !.at = "recording", !.job = job, !.verifying = TRUE]]
       \/ runner' = [runner EXCEPT ![t] = [r EXCEPT !.at = "diagnosing", !.verifying = TRUE]]
    /\ UNCHANGED <<versions, writer, lock, head, faults, admitted, approved>>

\* The catch clause reads the job again: a verified record whose flush failed
\* stays, everything else becomes a failure.
Diagnose(t) ==
    LET r == runner[t]
        durable == Mem(t).jobs[r.id]
    IN
    /\ r.at = "diagnosing"
    /\ IF Mem(t).failure \/ durable.phase = "verified"
       THEN Stop(t)
       ELSE /\ Submit(t, "ending", [Failed(durable) EXCEPT !.verification = r.verifying])
            /\ UNCHANGED lock
    /\ UNCHANGED <<versions, writer, head, faults, admitted, approved>>

\* Mutation of Promote: what a failed flush left in memory is not flushed.
PromoteUnflushed(t) ==
    LET r == runner[t]
    IN
    /\ r.at = "promoting"
    /\ IF r.id \in Gated /\ r.job.receipt = None
       THEN Stop(t)
       ELSE Enter(t, "checking") /\ UNCHANGED lock
    /\ UNCHANGED <<versions, writer, head, faults, admitted, approved>>

\* A gated candidate waits for its receipt.  Every other verified record is
\* flushed again, for an earlier flush may have left it in memory only.
Promote(t) ==
    LET r == runner[t]
    IN
    /\ r.at = "promoting"
    /\ \/ /\ r.id \in Gated /\ r.job.receipt = None
          /\ Stop(t)
          /\ UNCHANGED <<versions, faults>>
       \/ /\ ~(r.id \in Gated /\ r.job.receipt = None)
          /\ Enter(t, "checking")
          /\ versions' = [versions EXCEPT ![t] = <<Last(@)>>]
          /\ UNCHANGED <<lock, faults>>
       \/ /\ ~(r.id \in Gated /\ r.job.receipt = None)
          /\ Fault
          /\ Stop(t)
          /\ UNCHANGED versions
    /\ UNCHANGED <<writer, head, admitted, approved>>

\* Mutation of Requeued: the round is taken from the job already cleared.
RequeuedCleared(job) ==
    LET cleared == [job EXCEPT !.phase = "queued", !.target = None, !.candidate = None, !.receipt = None]
    IN  [cleared EXCEPT !.history = Append(@, Round(cleared))]

Requeued(job) ==
    [job EXCEPT !.phase = "queued", !.target = None, !.candidate = None, !.receipt = None,
                !.history = Append(@, Round(job))]

\* Mutation of Check: a target that moved is taken for the promotion.
CheckMoved(t) ==
    LET job == runner[t].job
    IN
    /\ runner[t].at = "checking"
    /\ IF head # job.target
       THEN Submit(t, "ending", [job EXCEPT !.phase = "merged"])
       ELSE Enter(t, "advancing")
    /\ UNCHANGED <<versions, writer, lock, head, faults, admitted, approved>>

\* provider.promote() up to its merge: a target that already is the candidate
\* is done, one that is neither candidate nor target makes the job stale.
Check(t) ==
    LET job == runner[t].job
    IN
    /\ runner[t].at = "checking"
    /\ \/ /\ head = job.candidate
          /\ Submit(t, "ending", [job EXCEPT !.phase = "merged"])
       \/ /\ head \notin {job.candidate, job.target}
          /\ Submit(t, "ending", IF Len(job.history) < RetryLimit THEN Requeued(job) ELSE Failed(job))
       \/ /\ head = job.target /\ head # job.candidate
          /\ Enter(t, "advancing")
    /\ UNCHANGED <<versions, writer, lock, head, faults, admitted, approved>>

\* git merge --ff-only.
Advance(t) ==
    /\ runner[t].at = "advancing"
    /\ head = runner[t].job.target
    /\ head' = runner[t].job.candidate
    /\ Submit(t, "ending", [runner[t].job EXCEPT !.phase = "merged"])
    /\ UNCHANGED <<versions, writer, lock, faults, admitted, approved>>

\* promote() throws: the Lead checkout is dirty or elsewhere, Git fails, Git
\* succeeds but its answer is lost, or the target moved since the check.
PromoteThrows(t) ==
    LET r == runner[t]
    IN
    /\ \/ Fault /\ r.at = "checking" /\ UNCHANGED head
       \/ Fault /\ r.at = "advancing" /\ head = r.job.target /\ head' = r.job.candidate
       \/ r.at = "advancing" /\ head # r.job.target /\ UNCHANGED <<head, faults>>
    /\ Stop(t)
    /\ UNCHANGED <<versions, writer, admitted, approved>>

\* abandon() takes no lock, and reads the job outside the transaction.
Abandon(t, j) ==
    LET job == Mem(t).jobs[j]
    IN
    /\ runner[t] = Idle
    /\ ~Mem(t).failure
    /\ j \in JobsOf(t)
    /\ Unfinished(job)
    /\ runner' = [runner EXCEPT ![t] = [Idle EXCEPT !.at = "ending", !.id = j, !.job = Failed(job)]]
    /\ UNCHANGED <<versions, writer, lock, head, faults, admitted, approved>>

----------------------------------------------------------------------------

\* A commit made outside the queues.
ForeignCommit ==
    /\ Cardinality({k \in DOMAIN head : head[k] = Foreign}) < MaxForeign
    /\ head' = Append(head, Foreign)
    /\ UNCHANGED <<versions, writer, runner, lock, faults, admitted, approved>>

\* A Team's process dies: its calls end, the lock file is closed, and its log
\* holds what was flushed and perhaps some of what was not.
Crash(t) ==
    /\ Fault
    /\ \E k \in DOMAIN versions[t] : versions' = [versions EXCEPT ![t] = <<versions[t][k]>>]
    /\ writer' = [writer EXCEPT ![t] = None]
    /\ Stop(t)
    /\ UNCHANGED <<head, admitted, approved>>

RunnerStep(t) ==
    \/ Busy(t) \/ Acquire(t) \/ Observe(t) \/ Verify(t) \/ Diagnose(t)
    \/ Promote(t) \/ Check(t) \/ Advance(t) \/ PromoteThrows(t)

Next ==
    \/ \E t \in Teams :
         \/ \E j \in JobsOf(t) : Enqueue(t, j) \/ Run(t, j) \/ Abandon(t, j)
         \/ \E j \in JobsOf(t) : \E c \in Candidates(t, j) : Approve(t, j, c)
         \/ Record(t) \/ Flush(t) \/ FlushFails(t)
         \/ RunnerStep(t)
         \/ Crash(t)
    \/ ForeignCommit

Spec == Init /\ [][Next]_vars

\* A transaction and a run go on until they end, and the integration worker
\* keeps calling run().
FairSpec ==
    /\ Spec
    /\ \A t \in Teams :
         /\ WF_vars(Record(t))
         /\ WF_vars(Flush(t) \/ FlushFails(t))
         /\ WF_vars(RunnerStep(t))
         /\ WF_vars(Scan(t))

----------------------------------------------------------------------------
(***************************************************************************)
(* Properties.                                                             *)
(***************************************************************************)

Commit == Seq(Jobs \cup {Foreign})

RoundOK(r) == r.target \in Commit /\ r.candidate \in Commit /\ r.receipt \in {None, r.candidate}

JobOK(r) ==
    /\ DOMAIN r = DOMAIN Absent
    /\ r.phase \in Phases
    /\ r.place \in 0..Cardinality(Jobs)
    /\ r.target \in {None} \cup Commit
    /\ r.candidate \in {None} \cup Commit
    /\ r.receipt \in {None} \cup Commit
    /\ \A k \in DOMAIN r.history : RoundOK(r.history[k])
    /\ Len(r.history) <= RetryLimit
    /\ r.verification \in BOOLEAN

\* Every version of every log projects to well-formed records, and the
\* runner, the lock and the transactions are what the code can hold.
TypeOK ==
    /\ \A t \in Teams :
         /\ versions[t] # << >>
         /\ \A k \in DOMAIN versions[t] :
              /\ versions[t][k].failure \in BOOLEAN
              /\ \A j \in Jobs : JobOK(versions[t][k].jobs[j])
         /\ writer[t] \in {None} \cup [caller : {"runner", "review", "intake"}, id : JobsOf(t),
                                      receipt : {None} \cup Commit]
         /\ writer[t] # None /\ writer[t].caller = "runner" => Waiting(t) /\ writer[t].id = runner[t].id
         /\ runner[t].at \in {"idle", "acquiring", "observing", "admitting", "verifying", "recording",
                              "diagnosing", "promoting", "checking", "advancing", "ending"}
         /\ JobOK(runner[t].job)
         /\ runner[t].at # "idle" => runner[t].id \in JobsOf(t)
    /\ lock \in Teams \cup {None}
    /\ head \in Commit
    /\ faults \in 0..MaxFaults
    /\ admitted \subseteq Jobs
    /\ approved \subseteq Gated \X Commit

Knows(r, c) ==
    \/ r.candidate = c
    \/ \E k \in DOMAIN r.history : r.history[k].candidate = c

\* A record that says merged is true of the repository, whatever a crash
\* leaves of the log: the target contains that candidate (integrations.ts:236
\* comes after the promotion).
MergedIsPromoted ==
    \A t \in Teams : \A k \in DOMAIN versions[t] : \A j \in JobsOf(t) :
      LET r == versions[t][k].jobs[j]
      IN  r.phase = "merged" => IsPrefix(r.candidate, head) /\ j \in Range(head)

\* The target only moves to a candidate whose verification against exactly
\* that target, and whose receipt where one is required, is already on disk.
PromotesDurableCandidate ==
    [][head' # head /\ Last(head') # Foreign =>
         LET j == Last(head')
             r == Disk(TeamOf[j]).jobs[j]
         IN  /\ r.phase = "verified" /\ r.target = head /\ r.candidate = head'
             /\ j \in Gated => r.receipt = head']_vars

\* Once the target contains the source of a job, no log that a crash may
\* leave has forgotten the candidate that brought it in, so that a restart can
\* recognise the promotion instead of repeating it (integrations.ts:219, and
\* the ambiguous promotion of docs/autonomous-architecture.md:90).
PromotionRemembered ==
    \A t \in Teams : \A k \in DOMAIN versions[t] : \A j \in JobsOf(t) :
      \A n \in DOMAIN head : head[n] = j => Knows(versions[t][k].jobs[j], SubSeq(head, 1, n))

\* What enqueue() or approve() has acknowledged survives every crash
\* (integrations.ts:78, :117 and :156 flush before they acknowledge again).
AcknowledgedIsDurable ==
    /\ \A j \in admitted : Disk(TeamOf[j]).jobs[j].phase # "absent"
    /\ \A x \in approved : Knows(Disk(TeamOf[x[1]]).jobs[x[1]], x[2])

\* Between the observation of the target and the end of the run no other Team
\* is at work on the same target, and an abandonment beside it does not open
\* the lock.
Owning(t) == runner[t].at \in {"observing", "admitting", "verifying", "recording", "diagnosing",
                               "promoting", "checking", "advancing"}
RunnersExclude == \A t \in Teams : Owning(t) => lock = t

\* Every event the service appends is one the projection accepts: otherwise
\* the Team can never be read again.
LogReplays == \A t \in Teams : ~Mem(t).failure

\* A queued job ends, unless a crash takes back an admission nobody was told
\* of or some job waits for its review.
AwaitsReview(r) == r.phase = "verified" /\ r.receipt = None
JobSettles ==
    \A j \in Jobs :
      LET t == TeamOf[j]
      IN  Mem(t).jobs[j].phase = "queued" ~>
            \/ ~Unfinished(Mem(t).jobs[j])
            \/ Mem(t).failure
            \/ \E k \in Gated : AwaitsReview(Mem(TeamOf[k]).jobs[k])
=============================================================================
