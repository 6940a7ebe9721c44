----------------------------- MODULE AtomicLog -----------------------------
(***************************************************************************)
(* What a durable journal promises its callers: a log of numbered events   *)
(* to which each call adds its event at most once, while the call is open. *)
(* A call that succeeds has added its event, and the log will never lose   *)
(* an event at or below the last one a call succeeded with.  A call that   *)
(* fails may or may not have added its event.  Events above the promised   *)
(* ones may disappear, from the end only.                                  *)
(***************************************************************************)
EXTENDS Integers, Sequences

CONSTANTS Callers, Events, Rejects(_, _)

VARIABLES
    log,        \* Seq([event : Events, number : Nat])
    safe,       \* the events 1..safe are never lost
    call        \* [Callers -> the state of the caller's call]

vars == <<log, safe, call>>

Payload(list) == [k \in 1..Len(list) |-> list[k].event]

Init ==
    /\ log = << >>
    /\ safe = 0
    /\ call = [c \in Callers |-> "idle"]

Ask(c) ==
    /\ call[c] = "idle"
    /\ call' = [call EXCEPT ![c] = "open"]
    /\ UNCHANGED <<log, safe>>

Add(c, e) ==
    /\ call[c] = "open"
    /\ ~Rejects(Payload(log), e)
    /\ log' = Append(log, [event |-> e, number |-> Len(log) + 1])
    /\ call' = [call EXCEPT ![c] = "added"]
    /\ UNCHANGED safe

Succeed(c) ==
    /\ call[c] = "added"
    /\ call' = [call EXCEPT ![c] = "ok"]
    /\ safe' = Len(log)
    /\ UNCHANGED log

\* Calls end without success: refused at once, failed, or cut off by a crash that also
\* takes events nobody was promised, or adds one event of a call it cuts off.
Fail(C) ==
    /\ \A c \in C : call[c] \in {"idle", "open", "added"}
    /\ call' = [c \in Callers |-> IF c \in C THEN "failed" ELSE call[c]]
    /\ \/ log' = log
       \/ \E c \in C, e \in Events :
            /\ call[c] = "open"
            /\ ~Rejects(Payload(log), e)
            /\ log' = Append(log, [event |-> e, number |-> Len(log) + 1])
       \/ \E k \in safe..Len(log) : log' = SubSeq(log, 1, k)
    /\ UNCHANGED safe

Again(c) ==
    /\ call[c] \in {"ok", "failed"}
    /\ call' = [call EXCEPT ![c] = "idle"]
    /\ UNCHANGED <<log, safe>>

Next ==
    \/ \E c \in Callers : Ask(c) \/ Succeed(c) \/ Again(c) \/ \E e \in Events : Add(c, e)
    \/ \E C \in SUBSET Callers : Fail(C)

Spec == Init /\ [][Next]_vars

=============================================================================
