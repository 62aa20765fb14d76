------------------------------ MODULE JobQueue ------------------------------
(***************************************************************************)
(* The Redis-backed job queue of internal/workers (Pool) over              *)
(* internal/redis (Client): producers LPUSH jobs on queue:jobs, the worker *)
(* goroutines of every cmd/worker process promote due entries of           *)
(* queue:jobs:delayed, BRPOP, run the processor of the job, and send a     *)
(* failed job back with a linear backoff or to queue:jobs:dead.            *)
(*                                                                         *)
(* One step is one Redis command, or one local decision of a goroutine.    *)
(* The payload of a job is abstracted to the job's identity; an entry is   *)
(* what the JSON text of a job tells apart (two entries with equal fields  *)
(* are the same member of the sorted set, as in Redis).  Time is counted   *)
(* in abstract ticks: Backoff ticks stand for the code's 5 seconds.        *)
(***************************************************************************)
EXTENDS Integers, Sequences, FiniteSets

CONSTANTS
  Job,            \* jobs that producers may submit, one per call of Enqueue
  Registered,     \* those whose type has a processor in the pool
  Worker,         \* worker goroutines, of all processes
  Pool,           \* cmd/worker processes
  PoolOf,         \* the process a goroutine belongs to
  Skew,           \* how far the clock of a goroutine's process runs ahead
  Ahead,          \* how far the clock of the producers runs ahead
  MaxAttempts,    \* Job.MaxAttempts, 3 in the code
  Backoff,        \* ticks of delay per failed attempt
  Disruptions,    \* which of "crash", "redis", "stop" may happen
  MaxDisruptions, \* bound: how many of them may happen in a behaviour
  None            \* no entry

ASSUME JobQueueAssumption ==
  /\ Registered \subseteq Job
  /\ PoolOf \in [Worker -> Pool]
  /\ Skew \in [Worker -> Nat]
  /\ Ahead \in Nat
  /\ MaxAttempts \in Nat \ {0}
  /\ Backoff \in Nat \ {0}
  /\ Disruptions \subseteq {"crash", "redis", "stop"}
  /\ MaxDisruptions \in Nat
  /\ None \notin [job : Job, attempts : 0..MaxAttempts, at : Nat]

(* What the JSON text of a job distinguishes: the job, how often it failed *)
(* and when it may run (Job.Attempts, Job.ScheduledAt).                    *)
Entry == [job : Job, attempts : 0..MaxAttempts, at : Nat]

VARIABLES
  \* Redis
  ready,       \* queue:jobs, the next BRPOP takes the head
  delayed,     \* queue:jobs:delayed, scored by the entry's at
  dead,        \* queue:jobs:dead, which nothing reads: a set
  \* the worker processes
  stopping,    \* the pool's context is cancelled
  pc,          \* where a goroutine stands in its loop
  todo,        \* entries PromoteReadyDelayed read and has not pushed yet
  cur,         \* the entry a goroutine has in its hands
  \* the environment
  clock,
  disrupted,   \* number of disruptions so far
  \* history
  accepted,    \* jobs whose Enqueue succeeded
  born,        \* ScheduledAt of a job when it was enqueued
  failed,      \* which attempts of a job (the first is 1) returned an error
  completed,   \* jobs a processor finished without error
  givenUp      \* jobs the code let go of: an error that is only logged, a crash

redisVars == <<ready, delayed, dead>>
goVars == <<stopping, pc, todo, cur>>
history == <<accepted, born, failed, completed, givenUp>>
vars == <<redisVars, goVars, clock, disrupted, history>>

(* "top"     before the context check at the head of the loop              *)
(* "push"    in PromoteReadyDelayed, about to LPUSH an entry of todo       *)
(* "rem"     in PromoteReadyDelayed, about to ZREM the entry it pushed     *)
(* "pop"     in (or about to call) BRPOP                                   *)
(* "redelay" holds an entry that is not due yet, about to ZADD it          *)
(* "run"     in Processor.Process                                          *)
(* "retry"   Process failed, about to ZADD the next attempt                *)
(* "bury"    Process failed for the last time, about to LPUSH it as dead   *)
(* "exit"    the goroutine returned                                        *)
InHand == {"redelay", "run", "retry", "bury"}
PC == {"top", "push", "rem", "pop", "exit"} \cup InHand

Holds(w, j) == pc[w] \in InHand /\ cur[w].job = j

Now(w) == clock + Skew[w]

-----------------------------------------------------------------------------

Init ==
  /\ ready = <<>> /\ delayed = {} /\ dead = {}
  /\ stopping = [p \in Pool |-> FALSE]
  /\ pc = [w \in Worker |-> "top"]
  /\ todo = [w \in Worker |-> {}]
  /\ cur = [w \in Worker |-> None]
  /\ clock = 0
  /\ disrupted = 0
  /\ accepted = {}
  /\ born = [j \in Job |-> 0]
  /\ failed = [j \in Job |-> {}]
  /\ completed = {}
  /\ givenUp = {}

(* The goroutine moves on to l with nothing in its hands.                  *)
GoTo(w, l) ==
  /\ pc' = [pc EXCEPT ![w] = l]
  /\ cur' = [cur EXCEPT ![w] = None]

(* The goroutine moves on to l with entry e in its hands.                  *)
Take(w, e, l) ==
  /\ pc' = [pc EXCEPT ![w] = l]
  /\ cur' = [cur EXCEPT ![w] = e]

Live(w) == ~stopping[PoolOf[w]]

(* Pool.Enqueue, and its twin webhook.Handler.enqueue.                     *)
Enqueue(j) ==
  /\ j \notin accepted
  /\ ready' = Append(ready, [job |-> j, attempts |-> 0, at |-> clock + Ahead])
  /\ accepted' = accepted \cup {j}
  /\ born' = [born EXCEPT ![j] = clock + Ahead]
  /\ UNCHANGED <<delayed, dead, goVars, clock, disrupted, failed, completed,
                 givenUp>>

-----------------------------------------------------------------------------
(* The loop of one goroutine.                                              *)

(* The head of the loop sees the cancelled context.                        *)
Exit(w) ==
  /\ pc[w] = "top" /\ ~Live(w)
  /\ GoTo(w, "exit")
  /\ UNCHANGED <<redisVars, stopping, todo, clock, disrupted, history>>

(* Mutant: the score range excludes its upper end.                         *)
DueBefore(now) == {e \in delayed : e.at < now}

(* The members of the score range -inf .. now.                             *)
Due(now) == {e \in delayed : e.at <= now}

(* Mutant: the loop goes on without looking at the context.                *)
ReadDueUnchecked(w) ==
  /\ pc[w] = "top"
  /\ todo' = [todo EXCEPT ![w] = Due(Now(w))]
  /\ GoTo(w, IF Due(Now(w)) = {} THEN "pop" ELSE "push")
  /\ UNCHANGED <<redisVars, stopping, clock, disrupted, history>>

(* ZRANGEBYSCORE -inf now: the entries to promote, read once.              *)
ReadDue(w) ==
  /\ pc[w] = "top" /\ Live(w)
  /\ todo' = [todo EXCEPT ![w] = Due(Now(w))]
  /\ GoTo(w, IF Due(Now(w)) = {} THEN "pop" ELSE "push")
  /\ UNCHANGED <<redisVars, stopping, clock, disrupted, history>>

(* LPUSH of the next promoted entry, in the order of the scores.           *)
PushDue(w) ==
  /\ pc[w] = "push" /\ Live(w)
  /\ \E e \in todo[w] :
       /\ \A f \in todo[w] : e.at <= f.at
       /\ ready' = Append(ready, e)
       /\ todo' = [todo EXCEPT ![w] = @ \ {e}]
       /\ Take(w, e, "rem")
  /\ UNCHANGED <<delayed, dead, stopping, clock, disrupted, history>>

(* ZREM of the entry just pushed.                                          *)
RemDue(w) ==
  /\ pc[w] = "rem" /\ Live(w)
  /\ delayed' = delayed \ {cur[w]}
  /\ GoTo(w, IF todo[w] = {} THEN "pop" ELSE "push")
  /\ UNCHANGED <<ready, dead, stopping, todo, clock, disrupted, history>>

(* Mutant: an entry that is not due is skipped and not put back.           *)
DispatchSkipsEarly(w, e) ==
  \/ /\ e.at > Now(w)
     /\ GoTo(w, "top")
     /\ UNCHANGED givenUp
  \/ /\ e.at <= Now(w) /\ e.job \in Registered
     /\ Take(w, e, "run")
     /\ UNCHANGED givenUp

(* BRPOP took entry e: it is delayed again when it is not due, dropped     *)
(* when no processor is registered for its type, and run otherwise.        *)
Dispatch(w, e) ==
  \/ /\ e.at > Now(w)
     /\ Take(w, e, "redelay")
     /\ UNCHANGED givenUp
  \/ /\ e.at <= Now(w) /\ e.job \notin Registered
     /\ GoTo(w, "top")
     /\ givenUp' = givenUp \cup {e.job}
  \/ /\ e.at <= Now(w) /\ e.job \in Registered
     /\ Take(w, e, "run")
     /\ UNCHANGED givenUp

(* A goroutine that is already blocked in BRPOP when the pool is stopped   *)
(* still receives an entry: the client does not watch the context of a     *)
(* command it has sent.                                                    *)
Pop(w) ==
  /\ pc[w] = "pop" /\ ready # <<>>
  /\ ready' = Tail(ready)
  /\ Dispatch(w, Head(ready))
  /\ UNCHANGED <<delayed, dead, stopping, todo, clock, disrupted, accepted,
                 born, failed, completed>>

(* BRPOP ends after pollInterval with nothing.                             *)
PopTimeout(w) ==
  /\ pc[w] = "pop" /\ ready = <<>>
  /\ GoTo(w, "top")
  /\ UNCHANGED <<redisVars, stopping, todo, clock, disrupted, history>>

(* ZADD of an entry that is not due, or of the next attempt of a job.      *)
Delay(w) ==
  /\ pc[w] \in {"redelay", "retry"} /\ Live(w)
  /\ delayed' = delayed \cup {cur[w]}
  /\ GoTo(w, "top")
  /\ UNCHANGED <<ready, dead, stopping, todo, clock, disrupted, history>>

(* LPUSH on the dead-letter list.                                          *)
Bury(w) ==
  /\ pc[w] = "bury" /\ Live(w)
  /\ dead' = dead \cup {cur[w]}
  /\ GoTo(w, "top")
  /\ UNCHANGED <<ready, delayed, stopping, todo, clock, disrupted, history>>

(* Process returned nil.                                                   *)
Succeed(w) ==
  /\ pc[w] = "run"
  /\ completed' = completed \cup {cur[w].job}
  /\ GoTo(w, "top")
  /\ UNCHANGED <<redisVars, stopping, todo, clock, disrupted, accepted, born,
                 failed, givenUp>>

(* Mutants: the comparison is off by one, in either direction.             *)
AnotherAttemptLate(n) == n <= MaxAttempts
AnotherAttemptEarly(n) == n + 1 < MaxAttempts

(* Whether the n-th failure leaves the job another attempt.                *)
AnotherAttempt(n) == n < MaxAttempts

(* Mutant: the backoff is computed before the attempt is counted.          *)
RetryAtUncounted(now, n) == now + (n - 1) * Backoff

(* ScheduledAt of the attempt after the n-th failure.                      *)
RetryAt(now, n) == now + n * Backoff

(* The job of entry e after n failures, to be run again at t.              *)
Attempted(e, n, t) == [job |-> e.job, attempts |-> n, at |-> t]

(* Process returned an error.  Under a cancelled context it may do so for  *)
(* that reason alone.                                                      *)
Fail(w) ==
  LET n == cur[w].attempts + 1 IN
  /\ pc[w] = "run"
  /\ failed' = [failed EXCEPT ![cur[w].job] = @ \cup {n}]
  /\ \/ /\ AnotherAttempt(n)
        /\ Take(w, Attempted(cur[w], n, RetryAt(Now(w), n)), "retry")
     \/ /\ ~AnotherAttempt(n)
        /\ Take(w, Attempted(cur[w], n, cur[w].at), "bury")
  /\ UNCHANGED <<redisVars, stopping, todo, clock, disrupted, accepted, born,
                 completed, givenUp>>

-----------------------------------------------------------------------------
(* Cancelled contexts and failed commands.                                 *)

(* PromoteReadyDelayed or Dequeue returns an error, which is logged: the   *)
(* entries not promoted yet stay where they are.                           *)
Abandon(w, l) ==
  /\ todo' = [todo EXCEPT ![w] = {}]
  /\ GoTo(w, l)
  /\ UNCHANGED givenUp

(* EnqueueDelayed or EnqueueDead returns an error, which is logged: the    *)
(* entry in the goroutine's hands is gone.                                 *)
LetGo(w) ==
  /\ pc[w] \in {"redelay", "retry", "bury"}
  /\ givenUp' = givenUp \cup {cur[w].job}
  /\ GoTo(w, "top")
  /\ UNCHANGED todo

(* Every Redis command issued with the cancelled context fails.            *)
Refused(w) ==
  /\ ~Live(w)
  /\ \/ pc[w] \in {"push", "rem"} /\ Abandon(w, "pop")
     \/ pc[w] = "pop" /\ Abandon(w, "top")
     \/ LetGo(w)
  /\ UNCHANGED <<redisVars, stopping, clock, disrupted, accepted, born,
                 failed, completed>>

Disrupt(d) ==
  /\ d \in Disruptions
  /\ disrupted < MaxDisruptions
  /\ disrupted' = disrupted + 1

(* A Redis command fails; it may have been carried out and only its reply  *)
(* lost.  An enqueue that was carried out is Delay or Bury.                *)
RedisFails(w) ==
  /\ Disrupt("redis")
  /\ \/ /\ pc[w] = "top" /\ Live(w)
        /\ Abandon(w, "pop")
        /\ UNCHANGED redisVars
     \/ /\ pc[w] \in {"push", "rem"}
        /\ Abandon(w, "pop")
        /\ UNCHANGED redisVars
     \/ /\ pc[w] = "push"
        /\ \E e \in todo[w] :
             (\A f \in todo[w] : e.at <= f.at) /\ ready' = Append(ready, e)
        /\ Abandon(w, "pop")
        /\ UNCHANGED <<delayed, dead>>
     \/ /\ pc[w] = "rem"
        /\ delayed' = delayed \ {cur[w]}
        /\ Abandon(w, "pop")
        /\ UNCHANGED <<ready, dead>>
     \/ /\ pc[w] = "pop"
        /\ Abandon(w, "top")
        /\ UNCHANGED redisVars
     \/ /\ pc[w] = "pop" /\ ready # <<>>
        /\ ready' = Tail(ready)
        /\ givenUp' = givenUp \cup {Head(ready).job}
        /\ GoTo(w, "top")
        /\ UNCHANGED <<delayed, dead, todo>>
     \/ /\ LetGo(w)
        /\ UNCHANGED redisVars
  /\ UNCHANGED <<stopping, clock, accepted, born, failed, completed>>

(* The process dies, or its 30 second shutdown timeout ends it, and it is  *)
(* started again.                                                          *)
Crash(p) ==
  LET mine == {w \in Worker : PoolOf[w] = p} IN
  /\ Disrupt("crash")
  /\ givenUp' = givenUp \cup {j \in Job : \E w \in mine : Holds(w, j)}
  /\ stopping' = [stopping EXCEPT ![p] = FALSE]
  /\ pc' = [w \in Worker |-> IF w \in mine THEN "top" ELSE pc[w]]
  /\ todo' = [w \in Worker |-> IF w \in mine THEN {} ELSE todo[w]]
  /\ cur' = [w \in Worker |-> IF w \in mine THEN None ELSE cur[w]]
  /\ UNCHANGED <<redisVars, clock, accepted, born, failed, completed>>

(* Pool.Stop cancels the context of the process's goroutines.              *)
Stop(p) ==
  /\ Disrupt("stop")
  /\ ~stopping[p]
  /\ stopping' = [stopping EXCEPT ![p] = TRUE]
  /\ UNCHANGED <<redisVars, pc, todo, cur, clock, history>>

(* The goroutines have all returned, the process ends and is started again.*)
Restart(p) ==
  /\ stopping[p]
  /\ \A w \in Worker : PoolOf[w] = p => pc[w] = "exit"
  /\ stopping' = [stopping EXCEPT ![p] = FALSE]
  /\ pc' = [w \in Worker |-> IF PoolOf[w] = p THEN "top" ELSE pc[w]]
  /\ UNCHANGED <<redisVars, todo, cur, clock, disrupted, history>>

(* Time is only ever compared with the at of an entry, so it passes only   *)
(* while some entry waits for it.                                          *)
Tick ==
  /\ \E e \in delayed \cup {cur[w] : w \in {v \in Worker : pc[v] \in InHand}} :
       \/ e.at > clock
       \/ \E w \in Worker : e.at > Now(w)
  /\ clock' = clock + 1
  /\ UNCHANGED <<redisVars, goVars, disrupted, history>>

-----------------------------------------------------------------------------

(* What a goroutine does by itself.                                        *)
Step(w) ==
  \/ Exit(w) \/ ReadDue(w) \/ PushDue(w) \/ RemDue(w)
  \/ Pop(w) \/ PopTimeout(w) \/ Delay(w) \/ Bury(w)
  \/ Succeed(w) \/ Fail(w) \/ Refused(w)

Next ==
  \/ \E j \in Job : Enqueue(j)
  \/ \E w \in Worker : Step(w) \/ RedisFails(w)
  \/ \E p \in Pool : Crash(p) \/ Stop(p) \/ Restart(p)
  \/ Tick

Spec == Init /\ [][Next]_vars

(* The Go scheduler runs every goroutine, a stopped process is started     *)
(* again by its supervisor and time passes.  Nothing is assumed of the     *)
(* producers, of the outcome of Process, or of the disruptions.            *)
FairSpec ==
  /\ Spec
  /\ \A w \in Worker : WF_vars(Step(w))
  /\ \A p \in Pool : WF_vars(Restart(p))
  /\ WF_vars(Tick)

-----------------------------------------------------------------------------
(* What the queue promises.                                                *)

Elems(s) == {s[i] : i \in DOMAIN s}

(* Entries that may still lead to an execution, wherever they are.         *)
LiveEntries ==
  Elems(ready) \cup delayed \cup (UNION {todo[w] : w \in Worker})
    \cup {cur[w] : w \in {v \in Worker : pc[v] \in {"rem", "redelay", "run", "retry"}}}

(* Entries whose next stop is the dead-letter list, or that reached it.    *)
SpentEntries == dead \cup {cur[w] : w \in {v \in Worker : pc[v] = "bury"}}

(* Every variable holds a value of its type, and a goroutine has an entry  *)
(* in its hands exactly where the loop of Pool.worker has one.             *)
TypeOK ==
  /\ ready \in Seq(Entry) /\ delayed \subseteq Entry /\ dead \subseteq Entry
  /\ stopping \in [Pool -> BOOLEAN]
  /\ pc \in [Worker -> PC]
  /\ todo \in [Worker -> SUBSET Entry]
  /\ cur \in [Worker -> Entry \cup {None}]
  /\ \A w \in Worker : cur[w] \in Entry <=> pc[w] \in InHand \cup {"rem"}
  /\ clock \in Nat /\ disrupted \in 0..MaxDisruptions
  /\ accepted \subseteq Job /\ born \in [Job -> Nat]
  /\ failed \in [Job -> SUBSET (1..MaxAttempts)]
  /\ completed \subseteq Job /\ givenUp \subseteq Job

(* A job whose Enqueue succeeded is queued, delayed, in the hands of a     *)
(* goroutine, finished, dead-lettered, or one the code knowingly let go of:*)
(* promotion, re-delay and retry never drop it on the way.                 *)
Accounted ==
  \A j \in accepted :
    \/ \E e \in Elems(ready) \cup delayed \cup dead : e.job = j
    \/ \E w \in Worker : Holds(w, j)
    \/ j \in completed \cup givenUp

(* An entry that counts n failed attempts was earned by failures of its    *)
(* attempts 1 to n; one that may still run has an attempt left, and a job  *)
(* is dead-lettered only after its MaxAttempts-th attempt failed.          *)
AttemptsEarned ==
  /\ \A e \in LiveEntries :
       e.attempts < MaxAttempts /\ 1..e.attempts \subseteq failed[e.job]
  /\ \A e \in SpentEntries :
       e.attempts = MaxAttempts /\ 1..MaxAttempts \subseteq failed[e.job]

(* The linear backoff adds up: by the clock of the process that runs it,   *)
(* the attempt after n failures never starts before n * (n + 1) / 2        *)
(* backoffs have passed since the time the job was submitted for.          *)
RetrySpacing ==
  \A w \in Worker : pc[w] = "run" =>
    LET n == cur[w].attempts IN
    2 * (Now(w) - born[cur[w].job]) >= Backoff * (n * (n + 1))

(* Every accepted job is finished, dead-lettered or let go of in the end.  *)
JobsFinish ==
  \A j \in Job :
    j \in accepted ~> (j \in completed \cup givenUp \/ \E e \in dead : e.job = j)

(* Pool.Stop returns: the goroutines of a stopped process all exit.        *)
StopReturns ==
  \A p \in Pool :
    stopping[p] ~> (~stopping[p] \/ \A w \in Worker : PoolOf[w] = p => pc[w] = "exit")

Ledger ==
  INSTANCE JobLedger WITH
    buried <- {e.job : e \in dead}, dropped <- givenUp

(* Whatever goroutines, clocks and processes do, a job goes through the    *)
(* steps of JobLedger: attempts fail in order, and it is dead-lettered     *)
(* only after all of them.                                                 *)
ImplementsLedger == Ledger!Spec

=============================================================================
