------------------------------ MODULE JobQueue -------------------------------
(***************************************************************************)
(* One BullMQ job as the bridge uses it.  Every queue of queues.ts has     *)
(* the same options (attempts 5 with a backoff, completed jobs trimmed,    *)
(* failed jobs kept) and every job has an id made from the row it serves,  *)
(* so a queue is a function from those ids to the records below.  BullMQ   *)
(* itself is outside the repository: these operators are what the bridge   *)
(* relies on.                                                              *)
(***************************************************************************)
EXTENDS Naturals

CONSTANTS
    Attempts,   \* defaultJobOptions.attempts
    MaxStalls   \* BullMQ's maxStalledCount, 1 unless a worker sets it

ASSUME QueueAssumption == Attempts \in Nat \ {0} /\ MaxStalls \in Nat

JobState == {"none", "wait", "active", "completed", "failed"}

\* "wait" stands for BullMQ's waiting and delayed sets: a backoff only says
\* when the next attempt may start.
Job == [state : JobState, tries : Nat, stalls : Nat]

NoJob == [state |-> "none", tries |-> 0, stalls |-> 0]

\* queue.add under an id that exists, in whatever state, changes nothing.
Added(j) == IF j.state = "none" THEN [NoJob EXCEPT !.state = "wait"] ELSE j

Started(j) == [j EXCEPT !.state = "active"]

Completed(j) == [j EXCEPT !.state = "completed"]

\* The processor threw UnrecoverableError: no further attempt.
GivenUp(j) == [j EXCEPT !.state = "failed"]

\* The processor threw any other error.
Thrown(j) ==
    [j EXCEPT !.tries = @ + 1,
              !.state = IF j.tries + 1 < Attempts THEN "wait" ELSE "failed"]

\* An active job whose worker died is found by the stalled-job check.
Unstalled(j) ==
    [j EXCEPT !.stalls = @ + 1,
              !.state = IF j.stalls < MaxStalls THEN "wait" ELSE "failed"]

\* removeOnComplete trims the oldest completed jobs and frees their ids.
Trimmed(j) == NoJob
=============================================================================
