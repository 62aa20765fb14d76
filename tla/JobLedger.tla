------------------------------ MODULE JobLedger ------------------------------
(***************************************************************************)
(* What the job queue promises of a job, without queues, clocks, processes *)
(* or goroutines: its attempts fail in order and at most MaxAttempts of    *)
(* them count, it is dead-lettered only when they all failed, and it is    *)
(* completed or let go of only after it was submitted.  Nothing is ever    *)
(* taken back.  A job may be executed more than once, and completed by one *)
(* execution after another one failed: the queue does not promise less.    *)
(***************************************************************************)
EXTENDS Integers

CONSTANTS Job, MaxAttempts

VARIABLES
  accepted,    \* jobs whose submission succeeded
  failed,      \* which attempts of a job failed
  completed,   \* jobs that an attempt completed
  buried,      \* jobs that are dead-lettered
  dropped      \* jobs that were let go of

vars == <<accepted, failed, completed, buried, dropped>>

Init ==
  /\ accepted = {} /\ completed = {} /\ buried = {} /\ dropped = {}
  /\ failed = [j \in Job |-> {}]

Submit(j) ==
  /\ j \notin accepted
  /\ accepted' = accepted \cup {j}
  /\ UNCHANGED <<failed, completed, buried, dropped>>

(* Attempt n of job j fails, and those before it failed already.           *)
Fail(j, n) ==
  /\ j \in accepted /\ 1..(n - 1) \subseteq failed[j]
  /\ failed' = [failed EXCEPT ![j] = @ \cup {n}]
  /\ UNCHANGED <<accepted, completed, buried, dropped>>

Complete(j) ==
  /\ j \in accepted
  /\ completed' = completed \cup {j}
  /\ UNCHANGED <<accepted, failed, buried, dropped>>

Bury(j) ==
  /\ j \in accepted /\ failed[j] = 1..MaxAttempts
  /\ buried' = buried \cup {j}
  /\ UNCHANGED <<accepted, failed, completed, dropped>>

(* A process that dies lets go of several jobs at once.                    *)
Drop(js) ==
  /\ js \subseteq accepted
  /\ dropped' = dropped \cup js
  /\ UNCHANGED <<accepted, failed, completed, buried>>

Next ==
  \/ \E j \in Job : Submit(j) \/ Complete(j) \/ Bury(j)
  \/ \E j \in Job, n \in 1..MaxAttempts : Fail(j, n)
  \/ \E js \in SUBSET Job : Drop(js)

Spec == Init /\ [][Next]_vars
=============================================================================
