--------------------------- MODULE DurableJournal --------------------------
(***************************************************************************)
(* The JSONL journal under every store of the coordinator                  *)
(* (durable-journal.ts), with the file it writes and the ways an append    *)
(* can fail: a reducer that refuses, a write that fails with none, part or *)
(* all of its line in the file, a sync that fails, the death of the        *)
(* process, and a power loss that drops what was never synced.             *)
(*                                                                         *)
(* An instance serialises its appends through the promise chain `pending`, *)
(* here a queue.  The published state is represented by the events that    *)
(* were reduced into it, so the private counter `sequence` is its length.  *)
(* Reducers differ from store to store; all that matters here is which     *)
(* event a reducer refuses in which state: the constant Rejects.           *)
(* Limits on the record size only make an open fail and are left out.      *)
(***************************************************************************)
EXTENDS Integers, Sequences

CONSTANTS
    Callers,
    Events,
    Rejects(_, _),  \* Rejects(state, event): reduce() or make() throws
    Faults,         \* the faults considered, of "io", "crash", "power"
    MaxLines,       \* bound on the lines of the file
    None

ASSUME JournalAssumption ==
    /\ None \notin Events
    /\ None \notin Callers
    /\ MaxLines \in Nat
    /\ Faults \subseteq {"io", "crash", "power"}

VARIABLES
    file,       \* the complete lines of the file; event None is a malformed one
    tail,       \* whether an incomplete line follows them
    synced,     \* that many lines survive a power loss
    owned,      \* an open instance holds the file's lock
    state,      \* its published state
    queue,      \* its appends in order, the one in progress first
    stage,      \* how far that one is: "none", "write" or "sync"
    uncertain,
    closing,
    status      \* [Callers -> the state of the caller's append()]

vars == <<file, tail, synced, owned, state, queue, stage, uncertain, closing, status>>

disk == <<file, tail, synced>>
instance == <<owned, state, queue, stage, uncertain, closing>>

Line(e, n)  == [event |-> e, number |-> n]
Payload(list) == [k \in 1..Len(list) |-> list[k].event]

\* What replay demands of the file.
Replayable(lines) ==
    \A k \in 1..Len(lines) :
      /\ lines[k].number = k
      /\ lines[k].event # None
      /\ ~Rejects(Payload(SubSeq(lines, 1, k - 1)), lines[k].event)

Init ==
    /\ file = << >> /\ tail = FALSE /\ synced = 0
    /\ owned = FALSE /\ state = << >> /\ queue = << >> /\ stage = "none"
    /\ uncertain = FALSE /\ closing = FALSE
    /\ status = [c \in Callers |-> "idle"]

----------------------------------------------------------------------------

\* open(): the lock, then a replay that stops at the first line it cannot use.
\* An open that throws releases the lock and changes nothing.
Open ==
    /\ ~owned
    /\ ~tail
    /\ Replayable(file)
    /\ owned' = TRUE
    /\ state' = Payload(file)
    /\ uncertain' = FALSE
    /\ closing' = FALSE
    /\ UNCHANGED <<disk, queue, stage, status>>

Call(c, e) ==
    /\ owned
    /\ status[c] = "idle"
    /\ IF closing
       THEN /\ status' = [status EXCEPT ![c] = "error"]
            /\ UNCHANGED queue
       ELSE /\ status' = [status EXCEPT ![c] = "waiting"]
            /\ queue' = Append(queue, [caller |-> c, event |-> e])
    /\ UNCHANGED <<disk, owned, state, stage, uncertain, closing>>

\* The append in progress ends with the given answer.
Answer(answer) ==
    /\ status' = [status EXCEPT ![Head(queue).caller] = answer]
    /\ queue' = Tail(queue)
    /\ stage' = "none"

Begins == queue # << >> /\ stage = "none"

\* Mutation (here and below): the definition that follows with a plausible
\* mistake, kept to show which property notices it.
UncertainLeftWaiting ==
    /\ Begins
    /\ Rejects(state, Head(queue).event)
    /\ Answer("error")
    /\ UNCHANGED <<disk, owned, state, uncertain, closing>>

Refuse ==
    /\ Begins
    /\ uncertain \/ Rejects(state, Head(queue).event)
    /\ Answer("error")
    /\ UNCHANGED <<disk, owned, state, uncertain, closing>>

\* Mutation of Admit.
AdmitUnreduced ==
    /\ Begins
    /\ ~uncertain
    /\ Len(file) < MaxLines
    /\ stage' = "write"
    /\ UNCHANGED <<disk, owned, state, queue, uncertain, closing, status>>

\* make() and reduce() accept the event in the current state.
Admit ==
    /\ Begins
    /\ ~uncertain
    /\ ~Rejects(state, Head(queue).event)
    /\ Len(file) < MaxLines
    /\ stage' = "write"
    /\ UNCHANGED <<disk, owned, state, queue, uncertain, closing, status>>

\* The line of the append in progress reaches the file: after an incomplete one
\* it completes a malformed line instead.
WholeLine ==
    /\ file' = Append(file, Line(IF tail THEN None ELSE Head(queue).event, Len(state) + 1))
    /\ tail' = FALSE

Write ==
    /\ stage = "write"
    /\ WholeLine
    /\ stage' = "sync"
    /\ UNCHANGED <<synced, owned, state, queue, uncertain, closing, status>>

\* Mutation of WriteFails.
WriteFailureForgotten ==
    /\ "io" \in Faults
    /\ stage = "write"
    /\ \/ UNCHANGED <<file, tail>>
       \/ tail' = TRUE /\ UNCHANGED file
       \/ WholeLine
    /\ Answer("error")
    /\ UNCHANGED <<synced, owned, state, uncertain, closing>>

WriteFails ==
    /\ "io" \in Faults
    /\ stage = "write"
    /\ \/ UNCHANGED <<file, tail>>
       \/ tail' = TRUE /\ UNCHANGED file
       \/ WholeLine
    /\ Answer("error")
    /\ uncertain' = TRUE
    /\ UNCHANGED <<synced, owned, state, closing>>

\* Mutation of Sync.
SyncSkipped ==
    /\ stage = "sync"
    /\ state' = Append(state, Head(queue).event)
    /\ Answer("ok")
    /\ UNCHANGED <<disk, owned, uncertain, closing>>

\* sync() returns, the new state is published, the caller gets its snapshot.
Sync ==
    /\ stage = "sync"
    /\ synced' = Len(file)
    /\ state' = Append(state, Head(queue).event)
    /\ Answer("ok")
    /\ UNCHANGED <<file, tail, owned, uncertain, closing>>

\* Mutation of SyncFails.
SyncFailureForgotten ==
    /\ "io" \in Faults
    /\ stage = "sync"
    /\ Answer("error")
    /\ UNCHANGED <<disk, owned, state, uncertain, closing>>

SyncFails ==
    /\ "io" \in Faults
    /\ stage = "sync"
    /\ Answer("error")
    /\ uncertain' = TRUE
    /\ UNCHANGED <<disk, owned, state, closing>>

Close ==
    /\ owned
    /\ ~closing
    /\ closing' = TRUE
    /\ UNCHANGED <<disk, owned, state, queue, stage, uncertain, status>>

\* Mutation of Release.
ReleaseAtOnce ==
    /\ closing
    /\ owned' = FALSE
    /\ state' = << >>
    /\ UNCHANGED <<disk, queue, stage, uncertain, closing, status>>

\* The lock is released after the appends that were pending when close() was
\* called; later ones were refused by append().
Release ==
    /\ owned
    /\ closing
    /\ queue = << >>
    /\ owned' = FALSE
    /\ state' = << >>
    /\ UNCHANGED <<disk, queue, stage, uncertain, closing, status>>

\* The caller of a finished append makes another one.
Again(c) ==
    /\ status[c] \in {"ok", "error", "lost"}
    /\ status' = [status EXCEPT ![c] = "idle"]
    /\ UNCHANGED <<disk, instance>>

----------------------------------------------------------------------------
\* The process dies with its callers and its lock.
InstanceGone ==
    /\ owned' = FALSE /\ state' = << >> /\ queue' = << >> /\ stage' = "none"
    /\ uncertain' = FALSE /\ closing' = FALSE
    /\ status' = [c \in Callers |-> IF status[c] = "waiting" THEN "lost" ELSE status[c]]

\* A write in progress may have reached the file in part or as a whole.
Crash ==
    /\ "crash" \in Faults
    /\ owned
    /\ \/ UNCHANGED <<file, tail>>
       \/ stage = "write" /\ tail' = TRUE /\ UNCHANGED file
       \/ stage = "write" /\ WholeLine
    /\ InstanceGone
    /\ UNCHANGED synced

\* The machine loses power: of the lines that were not synced a suffix is gone,
\* and the first one lost may remain in part.
PowerLoss ==
    /\ "power" \in Faults
    /\ \E k \in synced..Len(file) :
         /\ file' = SubSeq(file, 1, k)
         /\ tail' \in IF k < Len(file) \/ tail \/ stage = "write" THEN BOOLEAN ELSE {FALSE}
    /\ InstanceGone
    /\ UNCHANGED synced

----------------------------------------------------------------------------

Step == Refuse \/ Admit \/ Write \/ WriteFails \/ Sync \/ SyncFails

Next ==
    \/ Open
    \/ \E c \in Callers, e \in Events : Call(c, e)
    \/ Step
    \/ Close
    \/ Release
    \/ \E c \in Callers : Again(c)
    \/ Crash
    \/ PowerLoss

Spec == Init /\ [][Next]_vars

\* The promise chain runs and file operations return.
FairSpec == Spec /\ WF_vars(Step) /\ WF_vars(Release)

----------------------------------------------------------------------------
(***************************************************************************)
(* Properties.                                                             *)
(***************************************************************************)

\* Every variable is well formed; in particular a line is never malformed.
TypeOK ==
    /\ file \in Seq([event : Events, number : Nat \ {0}])
    /\ tail \in BOOLEAN
    /\ synced \in 0..Len(file)
    /\ owned \in BOOLEAN
    /\ state \in Seq(Events)
    /\ queue \in Seq([caller : Callers, event : Events])
    /\ stage \in {"none", "write", "sync"}
    /\ uncertain \in BOOLEAN
    /\ closing \in BOOLEAN
    /\ status \in [Callers -> {"idle", "waiting", "ok", "error", "lost"}]

\* Whatever failed before, a file that ends with a complete line can be
\* replayed: sequence numbers are contiguous and the reducer accepts every
\* event again, so no failure short of a torn line needs a restored backup.
AlwaysReplayable == ~tail => Replayable(file)

\* The published state is the file, except for the append in progress and for
\* the event of an uncertain write.
PublishedIsPrefix ==
    owned => /\ Len(file) \in {Len(state), Len(state) + 1}
             /\ state = Payload(SubSeq(file, 1, Len(state)))
             /\ Len(file) > Len(state) => stage = "sync" \/ uncertain
             /\ tail => uncertain

\* close() answers every append it accepted before it gives up the lock.
NobodyAbandoned == ~owned => \A c \in Callers : status[c] # "waiting"

\* Every append is answered.
EveryCallAnswered == \A c \in Callers : status[c] = "waiting" ~> status[c] # "waiting"

\* The journal implements an atomic log: see AtomicLog.
CallState ==
    [c \in Callers |->
       CASE status[c] = "idle" -> "idle"
         [] status[c] = "ok" -> "ok"
         [] status[c] \in {"error", "lost"} -> "failed"
         [] status[c] = "waiting" ->
              IF stage = "sync" /\ Head(queue).caller = c THEN "added" ELSE "open"]

Atomic == INSTANCE AtomicLog WITH log <- file, safe <- synced, call <- CallState

ImplementsAtomicLog == Atomic!Spec

=============================================================================
