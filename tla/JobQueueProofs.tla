--------------------------- MODULE JobQueueProofs ---------------------------
(***************************************************************************)
(* Proofs about queue:jobs from both ends.  About JobQueue, for any jobs,  *)
(* goroutines, processes, number of attempts, backoff and disruptions, and *)
(* that it implements JobLedger; and about Webhook, the intake that fills  *)
(* it, for any events, requests and disturbances.                          *)
(***************************************************************************)
EXTENDS JobQueue, Webhook, FiniteSetTheorems, TLAPS

USE JobQueueAssumption

-----------------------------------------------------------------------------
(* The inductive invariant.                                                *)

(* An entry was submitted, its first attempt is scheduled for the time the *)
(* job was submitted for and later attempts after the backoffs so far.     *)
WellFormed(e) ==
  /\ e \in Entry
  /\ e.job \in accepted
  /\ e.attempts = 0 => e.at = born[e.job]
  /\ 2 * (e.at - born[e.job]) >= Backoff * (e.attempts * (e.attempts + 1))

EntriesOK ==
  /\ \A e \in LiveEntries : WellFormed(e)
  /\ \A w \in Worker : pc[w] = "run" => cur[w].at <= Now(w)

(* The clocks of all worker processes agree.                               *)
SynchronizedClocks == \A w \in Worker : Skew[w] = 0

(* With agreeing clocks, what was promoted is due, so an entry of the      *)
(* ready list that is not due has never been delayed.                      *)
PromotedDue ==
  /\ \A w \in Worker : \A e \in todo[w] : e.at <= clock
  /\ \A w \in Worker : pc[w] = "rem" => cur[w].at <= clock
  /\ \A e \in Elems(ready) : e.at <= clock \/ e.attempts = 0

(* Entries of the sorted set that some goroutine pushed on the ready list  *)
(* and is about to remove: they no longer vouch for their job.             *)
Doomed == {cur[w] : w \in {v \in Worker : pc[v] = "rem"}}

(* The last attempt an entry in a goroutine's hands vouches for.  One that *)
(* is about to be put back may be merged with a doomed member of the       *)
(* sorted set, so it vouches for the attempt before only.                  *)
Level(w) == IF pc[w] = "run" THEN cur[w].attempts ELSE cur[w].attempts - 1

(* Something other than a doomed entry will see to attempt a of job j.     *)
Covered(j, a) ==
  \/ \E e \in Elems(ready) : e.job = j /\ e.attempts >= a
  \/ \E e \in delayed \ Doomed : e.job = j /\ e.attempts >= a
  \/ \E w \in Worker : Holds(w, j) /\ Level(w) >= a
  \/ \E e \in dead : e.job = j
  \/ j \in completed \cup givenUp

AllCovered ==
  /\ \A j \in accepted : Covered(j, -1)
  /\ \A w \in Worker : pc[w] = "rem" => Covered(cur[w].job, cur[w].attempts)

-----------------------------------------------------------------------------
(* The elements of a sequence.                                             *)

(* LPUSH adds one element.                                                 *)
LEMMA ElemsAppend ==
  ASSUME NEW S, NEW s \in Seq(S), NEW e \in S
  PROVE  /\ Append(s, e) \in Seq(S)
         /\ Elems(Append(s, e)) = Elems(s) \cup {e}
<1>1. /\ Append(s, e) \in Seq(S)
      /\ DOMAIN Append(s, e) = 1..(Len(s) + 1)
      /\ Append(s, e)[Len(s) + 1] = e
      /\ \A i \in 1..Len(s) : Append(s, e)[i] = s[i]
  OBVIOUS
<1>2. DOMAIN s = 1..Len(s) /\ Len(s) \in Nat
  OBVIOUS
<1> QED BY <1>1, <1>2 DEF Elems

(* BRPOP takes one element.                                                *)
LEMMA ElemsTail ==
  ASSUME NEW S, NEW s \in Seq(S), s # <<>>
  PROVE  /\ Head(s) \in S
         /\ Tail(s) \in Seq(S)
         /\ Elems(s) = Elems(Tail(s)) \cup {Head(s)}
<1>1. Head(s) \in S /\ Tail(s) \in Seq(S) /\ Head(s) = s[1]
  OBVIOUS
<1>2. DOMAIN s = 1..Len(s) /\ Len(s) \in Nat \ {0}
  OBVIOUS
<1>3. /\ DOMAIN Tail(s) = 1..(Len(s) - 1)
      /\ \A i \in 1..(Len(s) - 1) : Tail(s)[i] = s[i + 1]
  BY <1>2
<1>4. ASSUME NEW x \in Elems(s)
      PROVE  x \in Elems(Tail(s)) \cup {Head(s)}
  <2>1. PICK i \in 1..Len(s) : x = s[i]
    BY <1>2 DEF Elems
  <2>2. CASE i = 1
    BY <2>1, <2>2, <1>1
  <2>3. CASE i # 1
    <3>1. i - 1 \in 1..(Len(s) - 1) /\ Tail(s)[i - 1] = x
      BY <2>1, <2>3, <1>2, <1>3
    <3> QED BY <3>1, <1>3 DEF Elems
  <2> QED BY <2>2, <2>3
<1>5. ASSUME NEW x \in Elems(Tail(s)) \cup {Head(s)}
      PROVE  x \in Elems(s)
  <2>1. CASE x = Head(s)
    <3>1. 1 \in DOMAIN s
      BY <1>2
    <3> QED BY <2>1, <3>1, <1>1 DEF Elems
  <2>2. CASE x \in Elems(Tail(s))
    <3>1. PICK i \in 1..(Len(s) - 1) : x = s[i + 1]
      BY <2>2, <1>3 DEF Elems
    <3>2. i + 1 \in DOMAIN s
      BY <3>1, <1>2
    <3> QED BY <3>1, <3>2 DEF Elems
  <2> QED BY <2>1, <2>2
<1> QED BY <1>1, <1>4, <1>5

(* The elements of a sequence over S are in S.                             *)
LEMMA ElemsType ==
  ASSUME NEW S, NEW s \in Seq(S)
  PROVE  Elems(s) \subseteq S
BY DEF Elems

-----------------------------------------------------------------------------
(* Type correctness.                                                       *)

(* A running attempt is one of MaxAttempts: the one fact about entries that*)
(* the type of failed and of the next entry depends on.                    *)
RunsLive == \A w \in Worker : pc[w] = "run" => cur[w].attempts < MaxAttempts

(* The entry of the next attempt, or of the last one.                      *)
LEMMA EntryNext ==
  ASSUME NEW e \in Entry, NEW n \in 1..MaxAttempts, NEW t \in Nat
  PROVE  /\ Attempted(e, n, t) \in Entry
         /\ Attempted(e, n, e.at) \in Entry
BY DEF Entry, Attempted

(* The types of a goroutine's place in the loop and of what it holds.      *)
HandsOK ==
  /\ pc \in [Worker -> PC]
  /\ cur \in [Worker -> Entry \cup {None}]
  /\ \A w \in Worker : cur[w] \in Entry <=> pc[w] \in InHand \cup {"rem"}

LEMMA GoToType ==
  ASSUME HandsOK, NEW w \in Worker, NEW l \in {"top", "push", "pop", "exit"},
         GoTo(w, l)
  PROVE  HandsOK'
<1>1. None \notin Entry
  BY DEF Entry
<1> QED BY <1>1 DEF HandsOK, GoTo, PC, InHand

LEMMA TakeType ==
  ASSUME HandsOK, NEW w \in Worker, NEW l \in InHand \cup {"rem"},
         NEW e \in Entry, Take(w, e, l)
  PROVE  HandsOK'
BY DEF HandsOK, Take, PC, InHand

LEMMA TypeInit == Init => TypeOK
BY SMT DEF Init, TypeOK, PC, InHand, Entry

(* Each step keeps the types.                                              *)
LEMMA TypeStep ==
  ASSUME TypeOK, RunsLive, [Next]_vars
  PROVE  TypeOK'
<1> USE DEF TypeOK, redisVars, goVars, history
<1>0. HandsOK
  BY DEF HandsOK
<1>1. ASSUME NEW j \in Job, Enqueue(j)
      PROVE  TypeOK'
  <2>1. [job |-> j, attempts |-> 0, at |-> clock + Ahead] \in Entry
    BY DEF Entry
  <2>2. ready' \in Seq(Entry)
    BY <1>1, <2>1 DEF Enqueue
  <2> QED BY <1>1, <2>2 DEF Enqueue
<1>2. ASSUME NEW w \in Worker, Exit(w)
      PROVE  TypeOK'
  <2>1. HandsOK'
    BY <1>0, <1>2, GoToType DEF Exit
  <2> QED BY <1>2, <2>1 DEF Exit, HandsOK
<1>3. ASSUME NEW w \in Worker, ReadDue(w)
      PROVE  TypeOK'
  <2>1. HandsOK'
    BY <1>0, <1>3, GoToType DEF ReadDue
  <2> QED BY <1>3, <2>1 DEF ReadDue, HandsOK, Due
<1>4. ASSUME NEW w \in Worker, PushDue(w)
      PROVE  TypeOK'
  <2>1. PICK e \in todo[w] : /\ ready' = Append(ready, e)
                             /\ todo' = [todo EXCEPT ![w] = @ \ {e}]
                             /\ Take(w, e, "rem")
    BY <1>4 DEF PushDue
  <2>2. HandsOK'
    BY <1>0, <2>1, TakeType
  <2>3. ready' \in Seq(Entry) /\ todo' \in [Worker -> SUBSET Entry]
    BY <2>1, ElemsAppend
  <2>4. UNCHANGED <<delayed, dead, stopping, clock, disrupted, history>>
    BY <1>4 DEF PushDue
  <2> QED BY <2>2, <2>3, <2>4 DEF HandsOK
<1>5. ASSUME NEW w \in Worker, RemDue(w)
      PROVE  TypeOK'
  <2>1. HandsOK'
    BY <1>0, <1>5, GoToType DEF RemDue
  <2> QED BY <1>5, <2>1 DEF RemDue, HandsOK
<1>6. ASSUME NEW w \in Worker, Pop(w)
      PROVE  TypeOK'
  <2>1. Head(ready) \in Entry /\ ready' \in Seq(Entry)
    BY <1>6, ElemsTail DEF Pop
  <2>2. Head(ready).job \in Job
    BY <2>1 DEF Entry
  <2>3. HandsOK' /\ givenUp' \subseteq Job
    BY <1>0, <1>6, <2>1, <2>2, GoToType, TakeType DEF Pop, Dispatch, InHand
  <2> QED BY <1>6, <2>1, <2>3 DEF Pop, HandsOK
<1>7. ASSUME NEW w \in Worker, PopTimeout(w)
      PROVE  TypeOK'
  <2>1. HandsOK'
    BY <1>0, <1>7, GoToType DEF PopTimeout
  <2> QED BY <1>7, <2>1 DEF PopTimeout, HandsOK
<1>8. ASSUME NEW w \in Worker, Delay(w)
      PROVE  TypeOK'
  <2>1. HandsOK' /\ cur[w] \in Entry
    BY <1>0, <1>8, GoToType DEF Delay, InHand
  <2> QED BY <1>8, <2>1 DEF Delay, HandsOK
<1>9. ASSUME NEW w \in Worker, Bury(w)
      PROVE  TypeOK'
  <2>1. HandsOK' /\ cur[w] \in Entry
    BY <1>0, <1>9, GoToType DEF Bury, InHand
  <2> QED BY <1>9, <2>1 DEF Bury, HandsOK
<1>10. ASSUME NEW w \in Worker, Succeed(w)
       PROVE  TypeOK'
  <2>1. HandsOK' /\ cur[w].job \in Job
    BY <1>0, <1>10, GoToType DEF Succeed, InHand, Entry
  <2> QED BY <1>10, <2>1 DEF Succeed, HandsOK
<1>11. ASSUME NEW w \in Worker, Fail(w)
       PROVE  TypeOK'
  <2> DEFINE n == cur[w].attempts + 1
  <2>1. /\ cur[w] \in Entry /\ cur[w].job \in Job
        /\ n \in 1..MaxAttempts
    BY <1>11 DEF Fail, RunsLive, InHand, Entry
  <2>2. /\ Attempted(cur[w], n, RetryAt(Now(w), n)) \in Entry
        /\ Attempted(cur[w], n, cur[w].at) \in Entry
    <3>1. n * Backoff \in Nat /\ Now(w) \in Nat
      BY <2>1 DEF Now
    <3>2. RetryAt(Now(w), n) \in Nat
      BY <3>1 DEF RetryAt
    <3> QED BY <2>1, <3>2, EntryNext
  <2>3. HandsOK'
    BY <1>0, <1>11, <2>2, TakeType DEF Fail, InHand
  <2>4. failed' \in [Job -> SUBSET (1..MaxAttempts)]
    BY <1>11, <2>1 DEF Fail
  <2> QED BY <1>11, <2>3, <2>4 DEF Fail, HandsOK
<1>12. ASSUME NEW w \in Worker, Refused(w)
       PROVE  TypeOK'
  <2>1. HandsOK'
    BY <1>0, <1>12, GoToType DEF Refused, Abandon, LetGo
  <2>2. todo' \in [Worker -> SUBSET Entry] /\ givenUp' \subseteq Job
    <3>1. pc[w] \in InHand => cur[w].job \in Job
      BY DEF Entry
    <3> QED BY <1>12, <3>1 DEF Refused, Abandon, LetGo, InHand
  <2> QED BY <1>12, <2>1, <2>2 DEF Refused, HandsOK
<1>13. ASSUME NEW w \in Worker, RedisFails(w)
       PROVE  TypeOK'
  <2>1. HandsOK'
    BY <1>0, <1>13, GoToType DEF RedisFails, Abandon, LetGo
  <2>2. todo' \in [Worker -> SUBSET Entry] /\ givenUp' \subseteq Job
    <3>1. pc[w] \in InHand => cur[w].job \in Job
      BY DEF Entry
    <3>2. ready # <<>> => Head(ready) \in Entry
      BY ElemsTail
    <3>3. ready # <<>> => Head(ready).job \in Job
      BY <3>2 DEF Entry
    <3> QED BY <1>13, <3>1, <3>3 DEF RedisFails, Abandon, LetGo, InHand
  <2>3. ready' \in Seq(Entry) /\ delayed' \subseteq Entry /\ dead' \subseteq Entry
    <3>1. ready # <<>> => Tail(ready) \in Seq(Entry)
      BY ElemsTail
    <3>2. \A e \in todo[w] : Append(ready, e) \in Seq(Entry)
      BY ElemsAppend
    <3> QED BY <1>13, <3>1, <3>2 DEF RedisFails
  <2> QED BY <1>13, <2>1, <2>2, <2>3 DEF RedisFails, Disrupt, HandsOK
<1>14. ASSUME NEW p \in Pool, Crash(p)
       PROVE  TypeOK'
  <2>1. HandsOK'
    <3>1. None \notin Entry
      BY DEF Entry
    <3> QED BY <1>0, <1>14, <3>1 DEF Crash, HandsOK, PC, InHand
  <2> QED BY <1>14, <2>1 DEF Crash, Disrupt, HandsOK
<1>15. ASSUME NEW p \in Pool, Stop(p)
       PROVE  TypeOK'
  BY <1>15 DEF Stop, Disrupt
<1>16. ASSUME NEW p \in Pool, Restart(p)
       PROVE  TypeOK'
  BY <1>16 DEF Restart, PC, InHand
<1>17. CASE Tick
  BY <1>17 DEF Tick
<1>18. CASE UNCHANGED vars
  BY <1>18 DEF vars
<1> QED
  BY <1>1, <1>2, <1>3, <1>4, <1>5, <1>6, <1>7, <1>8, <1>9, <1>10, <1>11, <1>12,
     <1>13, <1>14, <1>15, <1>16, <1>17, <1>18 DEF Next, Step

-----------------------------------------------------------------------------
(* Where entries come from.                                                *)

(* A goroutine that goes on empty-handed disturbs no other.                *)
LEMMA GoToHeld ==
  ASSUME HandsOK, NEW w \in Worker, NEW l \in {"top", "push", "pop", "exit"},
         GoTo(w, l), NEW v \in Worker, pc'[v] \in InHand \cup {"rem"}
  PROVE  v # w /\ pc'[v] = pc[v] /\ cur'[v] = cur[v]
BY DEF HandsOK, GoTo, InHand

(* Nor does one that takes an entry.                                       *)
LEMMA TakeHeld ==
  ASSUME HandsOK, NEW w \in Worker, NEW l, NEW e, Take(w, e, l)
  PROVE  /\ pc'[w] = l /\ cur'[w] = e
         /\ \A v \in Worker \ {w} : pc'[v] = pc[v] /\ cur'[v] = cur[v]
BY DEF HandsOK, Take

(* What the producers and a failed execution create.                       *)
Submitted(e) ==
  \E j \in Job : Enqueue(j) /\ e = [job |-> j, attempts |-> 0, at |-> clock + Ahead]

Retried(e) ==
  \E w \in Worker : LET n == cur[w].attempts + 1 IN
    Fail(w) /\ AnotherAttempt(n) /\ e = Attempted(cur[w], n, RetryAt(Now(w), n))

Exhausted(e) ==
  \E w \in Worker : LET n == cur[w].attempts + 1 IN
    Fail(w) /\ ~AnotherAttempt(n) /\ e = Attempted(cur[w], n, cur[w].at)

(* Membership in the two sets of entries, spelled out.                     *)
LEMMA LiveIff ==
  ASSUME NEW e
  PROVE  e \in LiveEntries <=>
           \/ e \in Elems(ready) \/ e \in delayed
           \/ \E v \in Worker : e \in todo[v]
           \/ \E v \in Worker : pc[v] \in {"rem", "redelay", "run", "retry"} /\ e = cur[v]
<1>1. e \in UNION {todo[w] : w \in Worker} <=> \E v \in Worker : e \in todo[v]
  OBVIOUS
<1>2. e \in {cur[w] : w \in {v \in Worker : pc[v] \in {"rem", "redelay", "run", "retry"}}}
        <=> \E v \in Worker : pc[v] \in {"rem", "redelay", "run", "retry"} /\ e = cur[v]
  OBVIOUS
<1> QED BY <1>1, <1>2 DEF LiveEntries

LEMMA SpentIff ==
  ASSUME NEW e
  PROVE  e \in SpentEntries <=> e \in dead \/ \E v \in Worker : pc[v] = "bury" /\ e = cur[v]
<1>1. e \in {cur[w] : w \in {v \in Worker : pc[v] = "bury"}}
        <=> \E v \in Worker : pc[v] = "bury" /\ e = cur[v]
  OBVIOUS
<1> QED BY <1>1 DEF SpentEntries

LEMMA LiveStep ==
  ASSUME TypeOK, [Next]_vars, NEW e \in LiveEntries'
  PROVE  e \in LiveEntries \/ Submitted(e) \/ Retried(e)
<1> DEFINE Holding == {"rem", "redelay", "run", "retry"}
           InHands == \E v \in Worker : pc[v] \in Holding /\ e = cur[v]
<1> USE DEF redisVars, goVars, history
<1>0. HandsOK /\ ready \in Seq(Entry) /\ \A w \in Worker : todo[w] \subseteq Entry
  BY DEF TypeOK, HandsOK
<1>b. e \in LiveEntries <=>
        e \in Elems(ready) \/ e \in delayed \/ (\E v \in Worker : e \in todo[v]) \/ InHands
  BY LiveIff
<1>a. \/ e \in Elems(ready') \/ e \in delayed'
      \/ \E v \in Worker : e \in todo'[v]
      \/ \E v \in Worker : pc'[v] \in Holding /\ e = cur'[v]
  <2>1. e \in UNION {todo'[w] : w \in Worker} <=> \E v \in Worker : e \in todo'[v]
    OBVIOUS
  <2>2. e \in {cur'[w] : w \in {v \in Worker : pc'[v] \in Holding}}
          <=> \E v \in Worker : pc'[v] \in Holding /\ e = cur'[v]
    OBVIOUS
  <2>3. LiveEntries' = Elems(ready') \cup delayed' \cup (UNION {todo'[w] : w \in Worker})
                         \cup {cur'[w] : w \in {v \in Worker : pc'[v] \in Holding}}
    BY DEF LiveEntries, Elems
  <2> QED BY <2>1, <2>2, <2>3
<1>1. ASSUME NEW j \in Job, Enqueue(j)
      PROVE  e \in LiveEntries \/ Submitted(e)
  <2>1. [job |-> j, attempts |-> 0, at |-> clock + Ahead] \in Entry
    BY DEF Entry, TypeOK
  <2>2. Elems(ready') = Elems(ready) \cup {[job |-> j, attempts |-> 0, at |-> clock + Ahead]}
    BY <1>0, <1>1, <2>1, ElemsAppend DEF Enqueue
  <2> QED BY <1>1, <1>a, <1>b, <2>2 DEF Enqueue, Submitted
<1>2. ASSUME NEW w \in Worker, Exit(w)
      PROVE  e \in LiveEntries
  BY <1>0, <1>2, <1>a, <1>b, GoToHeld DEF Exit, InHand
<1>3. ASSUME NEW w \in Worker, ReadDue(w)
      PROVE  e \in LiveEntries
  BY <1>0, <1>3, <1>a, <1>b, GoToHeld DEF ReadDue, Due, InHand, TypeOK
<1>4. ASSUME NEW w \in Worker, PushDue(w)
      PROVE  e \in LiveEntries
  <2>1. PICK f \in todo[w] : /\ ready' = Append(ready, f)
                             /\ todo' = [todo EXCEPT ![w] = @ \ {f}]
                             /\ Take(w, f, "rem")
    BY <1>4 DEF PushDue
  <2>2. Elems(ready') = Elems(ready) \cup {f}
    BY <1>0, <2>1, ElemsAppend
  <2>3. \A v \in Worker : todo'[v] \subseteq todo[v]
    BY <1>0, <2>1 DEF TypeOK
  <2>4. delayed' = delayed /\ f \in LiveEntries
    BY <1>4, LiveIff DEF PushDue
  <2>5. /\ cur'[w] = f
        /\ \A v \in Worker \ {w} : pc'[v] = pc[v] /\ cur'[v] = cur[v]
    BY <1>0, <2>1, TakeHeld
  <2> QED BY <1>a, <1>b, <2>2, <2>3, <2>4, <2>5
<1>5. ASSUME NEW w \in Worker, RemDue(w)
      PROVE  e \in LiveEntries
  BY <1>0, <1>5, <1>a, <1>b, GoToHeld DEF RemDue, InHand
<1>6. ASSUME NEW w \in Worker, Pop(w)
      PROVE  e \in LiveEntries
  <2>1. Elems(ready) = Elems(ready') \cup {Head(ready)}
    BY <1>0, <1>6, ElemsTail DEF Pop
  <2>2. GoTo(w, "top") \/ \E l \in {"redelay", "run"} : Take(w, Head(ready), l)
    BY <1>6 DEF Pop, Dispatch
  <2>3. UNCHANGED <<delayed, todo>>
    BY <1>6 DEF Pop
  <2> QED BY <1>0, <1>a, <1>b, <2>1, <2>2, <2>3, GoToHeld, TakeHeld DEF InHand
<1>7. ASSUME NEW w \in Worker, PopTimeout(w)
      PROVE  e \in LiveEntries
  BY <1>0, <1>7, <1>a, <1>b, GoToHeld DEF PopTimeout, InHand
<1>8. ASSUME NEW w \in Worker, Delay(w)
      PROVE  e \in LiveEntries
  BY <1>0, <1>8, <1>a, <1>b, GoToHeld DEF Delay, InHand
<1>9. ASSUME NEW w \in Worker, Bury(w)
      PROVE  e \in LiveEntries
  BY <1>0, <1>9, <1>a, <1>b, GoToHeld DEF Bury, InHand
<1>10. ASSUME NEW w \in Worker, Succeed(w)
       PROVE  e \in LiveEntries
  BY <1>0, <1>10, <1>a, <1>b, GoToHeld DEF Succeed, InHand
<1>11. ASSUME NEW w \in Worker, Fail(w)
       PROVE  e \in LiveEntries \/ Retried(e)
  <2> DEFINE n == cur[w].attempts + 1
  <2>1. UNCHANGED <<ready, delayed, todo>>
    BY <1>11 DEF Fail
  <2>2. \/ /\ AnotherAttempt(n)
           /\ Take(w, Attempted(cur[w], n, RetryAt(Now(w), n)), "retry")
        \/ \E f : Take(w, f, "bury")
    BY <1>11 DEF Fail
  <2>3. ASSUME e = cur'[w], pc'[w] \in Holding
        PROVE  Retried(e)
    BY <1>0, <1>11, <2>2, <2>3, TakeHeld DEF Retried
  <2>4. \A v \in Worker \ {w} : pc'[v] = pc[v] /\ cur'[v] = cur[v]
    BY <1>0, <2>2, TakeHeld
  <2> QED BY <1>a, <1>b, <2>1, <2>3, <2>4
<1>12. ASSUME NEW w \in Worker, Refused(w)
       PROVE  e \in LiveEntries
  <2>1. GoTo(w, "top") \/ GoTo(w, "pop")
    BY <1>12 DEF Refused, Abandon, LetGo
  <2>2. \A v \in Worker : todo'[v] \subseteq todo[v]
    BY <1>12 DEF Refused, Abandon, LetGo, TypeOK
  <2>3. UNCHANGED <<ready, delayed>>
    BY <1>12 DEF Refused
  <2> QED BY <1>0, <1>a, <1>b, <2>1, <2>2, <2>3, GoToHeld DEF InHand
<1>13. ASSUME NEW w \in Worker, RedisFails(w)
       PROVE  e \in LiveEntries
  <2>1. GoTo(w, "top") \/ GoTo(w, "pop")
    BY <1>13 DEF RedisFails, Abandon, LetGo
  <2>2. \A v \in Worker : todo'[v] \subseteq todo[v]
    BY <1>13 DEF RedisFails, Abandon, LetGo, TypeOK
  <2>3. \/ ready' = ready
        \/ \E f \in todo[w] : ready' = Append(ready, f)
        \/ ready # <<>> /\ ready' = Tail(ready)
    BY <1>13 DEF RedisFails
  <2>4. Elems(ready') \subseteq Elems(ready) \cup todo[w]
    <3>1. CASE ready' = ready
      BY <3>1
    <3>2. ASSUME NEW f \in todo[w], ready' = Append(ready, f)
          PROVE  Elems(ready') \subseteq Elems(ready) \cup todo[w]
      BY <1>0, <3>2, ElemsAppend
    <3>3. CASE ready # <<>> /\ ready' = Tail(ready)
      BY <1>0, <3>3, ElemsTail
    <3> QED BY <2>3, <3>1, <3>2, <3>3
  <2>5. delayed' \subseteq delayed
    BY <1>13 DEF RedisFails
  <2> QED BY <1>0, <1>a, <1>b, <2>1, <2>2, <2>4, <2>5, GoToHeld DEF InHand
<1>14. ASSUME NEW p \in Pool, Crash(p)
       PROVE  e \in LiveEntries
  BY <1>0, <1>14, <1>a, <1>b DEF Crash
<1>15. ASSUME NEW p \in Pool, Stop(p)
       PROVE  e \in LiveEntries
  BY <1>15, <1>a, <1>b DEF Stop
<1>16. ASSUME NEW p \in Pool, Restart(p)
       PROVE  e \in LiveEntries
  BY <1>16, <1>a, <1>b DEF Restart
<1>17. CASE Tick
  BY <1>17, <1>a, <1>b DEF Tick
<1>18. CASE UNCHANGED vars
  BY <1>18, <1>a, <1>b DEF vars
<1> QED
  BY <1>1, <1>2, <1>3, <1>4, <1>5, <1>6, <1>7, <1>8, <1>9, <1>10, <1>11, <1>12,
     <1>13, <1>14, <1>15, <1>16, <1>17, <1>18 DEF Next, Step

(* What only grows, and the submission time of a job, which is fixed.      *)
LEMMA HistoryStep ==
  ASSUME TypeOK, [Next]_vars
  PROVE  /\ accepted \subseteq accepted'
         /\ \A j \in accepted : born'[j] = born[j]
         /\ \A j \in Job : failed[j] \subseteq failed'[j]
         /\ clock <= clock'
         /\ dead \subseteq dead'
         /\ completed \subseteq completed' /\ givenUp \subseteq givenUp'
<1> USE DEF TypeOK, redisVars, goVars, history
<1>1. ASSUME NEW j \in Job, Enqueue(j)
      PROVE  /\ accepted \subseteq accepted'
             /\ \A k \in accepted : born'[k] = born[k]
             /\ UNCHANGED <<failed, clock, dead, completed, givenUp>>
  BY <1>1 DEF Enqueue
<1>2. ASSUME NEW w \in Worker, Step(w) \/ RedisFails(w)
      PROVE  /\ UNCHANGED <<accepted, born, clock>>
             /\ dead \subseteq dead'
             /\ completed \subseteq completed' /\ givenUp \subseteq givenUp'
  BY <1>2 DEF Step, RedisFails, Exit, ReadDue, PushDue, RemDue, Pop, Dispatch,
              PopTimeout, Delay, Bury, Succeed, Fail, Refused, Abandon, LetGo
<1>3. ASSUME NEW w \in Worker, Step(w) \/ RedisFails(w), NEW j \in Job
      PROVE  failed[j] \subseteq failed'[j]
  <2>1. CASE Fail(w)
    BY <2>1 DEF Fail
  <2>2. CASE ~Fail(w)
    BY <1>3, <2>2 DEF Step, RedisFails, Exit, ReadDue, PushDue, RemDue, Pop,
                      PopTimeout, Delay, Bury, Succeed, Refused
  <2> QED BY <2>1, <2>2
<1>4. ASSUME NEW p \in Pool, Crash(p) \/ Stop(p) \/ Restart(p)
      PROVE  /\ UNCHANGED <<accepted, born, failed, clock, dead, completed>>
             /\ givenUp \subseteq givenUp'
  BY <1>4 DEF Crash, Stop, Restart
<1>5. CASE Tick
  BY <1>5 DEF Tick
<1>6. CASE UNCHANGED vars
  BY <1>6 DEF vars
<1> QED BY <1>1, <1>2, <1>3, <1>4, <1>5, <1>6 DEF Next

LEMMA SpentStep ==
  ASSUME TypeOK, [Next]_vars, NEW e \in SpentEntries'
  PROVE  e \in SpentEntries \/ Exhausted(e)
<1> DEFINE InHands == \E v \in Worker : pc[v] = "bury" /\ e = cur[v]
<1> USE DEF redisVars, goVars, history
<1>0. HandsOK /\ ready \in Seq(Entry)
  BY DEF TypeOK, HandsOK
<1>a. e \in dead' \/ \E v \in Worker : pc'[v] = "bury" /\ e = cur'[v]
  <2>1. e \in {cur'[w] : w \in {v \in Worker : pc'[v] = "bury"}}
          <=> \E v \in Worker : pc'[v] = "bury" /\ e = cur'[v]
    OBVIOUS
  <2>2. SpentEntries' = dead' \cup {cur'[w] : w \in {v \in Worker : pc'[v] = "bury"}}
    BY DEF SpentEntries
  <2> QED BY <2>1, <2>2
<1>b. e \in SpentEntries <=> e \in dead \/ InHands
  BY SpentIff
<1>1. ASSUME NEW w \in Worker, dead' = dead,
             \E l \in {"top", "push", "pop", "exit"} : GoTo(w, l)
      PROVE  e \in SpentEntries
  BY <1>0, <1>1, <1>a, <1>b, GoToHeld DEF InHand
<1>2. ASSUME NEW w \in Worker, dead' = dead,
             \E f, l : l # "bury" /\ Take(w, f, l)
      PROVE  e \in SpentEntries
  BY <1>0, <1>2, <1>a, <1>b, TakeHeld
<1>3. ASSUME NEW w \in Worker,
             \/ Exit(w) \/ ReadDue(w) \/ RemDue(w) \/ PopTimeout(w)
             \/ Delay(w) \/ Succeed(w) \/ Refused(w) \/ RedisFails(w)
      PROVE  e \in SpentEntries
  <2>1. dead' = dead
    BY <1>3 DEF Exit, ReadDue, RemDue, PopTimeout, Delay, Succeed, Refused, RedisFails
  <2>2. \E l \in {"top", "push", "pop", "exit"} : GoTo(w, l)
    BY <1>3 DEF Exit, ReadDue, RemDue, PopTimeout, Delay, Succeed, Refused,
                RedisFails, Abandon, LetGo
  <2> QED BY <1>1, <2>1, <2>2
<1>4. ASSUME NEW w \in Worker, PushDue(w)
      PROVE  e \in SpentEntries
  <2>1. dead' = dead /\ \E f, l : l # "bury" /\ Take(w, f, l)
    BY <1>4 DEF PushDue
  <2> QED BY <1>2, <2>1
<1>5. ASSUME NEW w \in Worker, Pop(w)
      PROVE  e \in SpentEntries
  <2>1. dead' = dead
    BY <1>5 DEF Pop
  <2>2. GoTo(w, "top") \/ \E f, l : l # "bury" /\ Take(w, f, l)
    BY <1>5 DEF Pop, Dispatch
  <2> QED BY <1>1, <1>2, <2>1, <2>2
<1>6. ASSUME NEW w \in Worker, Bury(w)
      PROVE  e \in SpentEntries
  <2>1. GoTo(w, "top") /\ dead' = dead \cup {cur[w]} /\ pc[w] = "bury"
    BY <1>6 DEF Bury
  <2> QED BY <1>0, <1>a, <1>b, <2>1, GoToHeld DEF InHand
<1>7. ASSUME NEW w \in Worker, Fail(w)
      PROVE  e \in SpentEntries \/ Exhausted(e)
  <2> DEFINE n == cur[w].attempts + 1
  <2>1. dead' = dead
    BY <1>7 DEF Fail
  <2>2. CASE \E f : Take(w, f, "retry")
    BY <1>2, <2>1, <2>2
  <2>3. CASE ~AnotherAttempt(n) /\ Take(w, Attempted(cur[w], n, cur[w].at), "bury")
    <3>1. cur'[w] = Attempted(cur[w], n, cur[w].at)
          /\ \A v \in Worker \ {w} : pc'[v] = pc[v] /\ cur'[v] = cur[v]
      BY <1>0, <2>3, TakeHeld
    <3>2. ASSUME e = cur'[w]
          PROVE  Exhausted(e)
      BY <1>7, <2>3, <3>1, <3>2 DEF Exhausted
    <3> QED BY <1>a, <1>b, <2>1, <3>1, <3>2
  <2> QED BY <1>7, <2>2, <2>3 DEF Fail
<1>8. ASSUME NEW p \in Pool, Crash(p) \/ Stop(p) \/ Restart(p)
      PROVE  e \in SpentEntries
  <2>1. dead' = dead
    BY <1>8 DEF Crash, Stop, Restart
  <2>2. ASSUME NEW v \in Worker, pc'[v] = "bury"
        PROVE  pc[v] = "bury" /\ cur'[v] = cur[v]
    BY <1>0, <1>8, <2>2 DEF Crash, Stop, Restart
  <2> QED BY <1>a, <1>b, <2>1, <2>2
<1>9. CASE \/ \E j \in Job : Enqueue(j)
           \/ Tick
           \/ UNCHANGED vars
  BY <1>9, <1>a, <1>b DEF Enqueue, Tick, vars
<1> QED
  BY <1>3, <1>4, <1>5, <1>6, <1>7, <1>8, <1>9 DEF Next, Step

(* A goroutine runs an entry because it just popped it when it was due, or *)
(* has been running it.                                                    *)
LEMMA RunStep ==
  ASSUME TypeOK, [Next]_vars, NEW v \in Worker, pc'[v] = "run"
  PROVE  \/ pc[v] = "run" /\ cur'[v] = cur[v]
         \/ cur'[v].at <= Now(v)
<1> USE DEF redisVars, goVars, history
<1>0. HandsOK
  BY DEF TypeOK, HandsOK
<1>1. ASSUME NEW w \in Worker, \E l \in {"top", "push", "pop", "exit"} : GoTo(w, l)
      PROVE  pc[v] = "run" /\ cur'[v] = cur[v]
  BY <1>0, <1>1, GoToHeld DEF InHand
<1>2. ASSUME NEW w \in Worker, \E f, l : l # "run" /\ Take(w, f, l)
      PROVE  pc[v] = "run" /\ cur'[v] = cur[v]
  BY <1>0, <1>2, TakeHeld
<1>3. ASSUME NEW w \in Worker,
             \/ Exit(w) \/ ReadDue(w) \/ RemDue(w) \/ PopTimeout(w) \/ Bury(w)
             \/ Delay(w) \/ Succeed(w) \/ Refused(w) \/ RedisFails(w)
      PROVE  pc[v] = "run" /\ cur'[v] = cur[v]
  <2>1. \E l \in {"top", "push", "pop", "exit"} : GoTo(w, l)
    BY <1>3 DEF Exit, ReadDue, RemDue, PopTimeout, Bury, Delay, Succeed, Refused,
                RedisFails, Abandon, LetGo
  <2> QED BY <1>1, <2>1
<1>4. ASSUME NEW w \in Worker, PushDue(w) \/ Fail(w)
      PROVE  pc[v] = "run" /\ cur'[v] = cur[v]
  <2>1. \E f, l : l # "run" /\ Take(w, f, l)
    BY <1>4 DEF PushDue, Fail
  <2> QED BY <1>2, <2>1
<1>5. ASSUME NEW w \in Worker, Pop(w)
      PROVE  \/ pc[v] = "run" /\ cur'[v] = cur[v]
             \/ cur'[v].at <= Now(v)
  <2>1. CASE GoTo(w, "top")
    BY <1>1, <2>1
  <2>2. CASE Take(w, Head(ready), "redelay")
    BY <1>2, <2>2
  <2>3. CASE Head(ready).at <= Now(w) /\ Take(w, Head(ready), "run")
    BY <1>0, <2>3, TakeHeld
  <2> QED BY <1>5, <2>1, <2>2, <2>3 DEF Pop, Dispatch
<1>6. ASSUME NEW p \in Pool, Crash(p) \/ Stop(p) \/ Restart(p)
      PROVE  pc[v] = "run" /\ cur'[v] = cur[v]
  BY <1>0, <1>6 DEF Crash, Stop, Restart
<1>7. CASE \/ \E j \in Job : Enqueue(j)
           \/ Tick
           \/ UNCHANGED vars
  BY <1>7 DEF Enqueue, Tick, vars
<1> QED
  BY <1>3, <1>4, <1>5, <1>6, <1>7 DEF Next, Step

-----------------------------------------------------------------------------
(* Attempts and schedules.                                                 *)

QueueInv == TypeOK /\ AttemptsEarned /\ EntriesOK

LEMMA QueueInvInit == Init => QueueInv
<1> SUFFICES ASSUME Init PROVE QueueInv
  OBVIOUS
<1>1. TypeOK
  BY TypeInit
<1>2. Elems(ready) = {} /\ LiveEntries = {} /\ SpentEntries = {}
  <2>1. Elems(ready) = {}
    BY DEF Init, Elems
  <2>2. \A e : e \notin LiveEntries
    BY <2>1, LiveIff DEF Init
  <2>3. \A e : e \notin SpentEntries
    BY SpentIff DEF Init
  <2> QED BY <2>1, <2>2, <2>3
<1> QED BY <1>1, <1>2 DEF QueueInv, AttemptsEarned, EntriesOK, Init

(* The schedule of a retry: n + 1 more backoffs after the n there were.    *)
LEMMA NextSchedule ==
  ASSUME NEW n \in Nat, NEW at \in Nat, NEW b \in Nat, NEW now \in Nat,
         2 * (at - b) >= Backoff * (n * (n + 1)), at <= now
  PROVE  2 * (RetryAt(now, n + 1) - b) >= Backoff * ((n + 1) * (n + 2))
<1>1. Backoff * ((n + 1) * (n + 2)) = Backoff * (n * (n + 1)) + 2 * ((n + 1) * Backoff)
  OBVIOUS
<1>2. Backoff * (n * (n + 1)) \in Nat /\ (n + 1) * Backoff \in Nat
  OBVIOUS
<1> QED BY <1>1, <1>2 DEF RetryAt

LEMMA QueueInvStep ==
  ASSUME QueueInv, [Next]_vars
  PROVE  QueueInv'
<1>0. TypeOK /\ AttemptsEarned /\ EntriesOK
  BY DEF QueueInv
<1>1. RunsLive
  <2> SUFFICES ASSUME NEW w \in Worker, pc[w] = "run"
               PROVE  cur[w].attempts < MaxAttempts
    BY DEF RunsLive
  <2>1. cur[w] \in LiveEntries
    BY LiveIff
  <2> QED BY <1>0, <2>1 DEF AttemptsEarned
<1>2. TypeOK'
  BY <1>0, <1>1, TypeStep
<1>3. /\ accepted \subseteq accepted'
      /\ \A j \in accepted : born'[j] = born[j]
      /\ \A j \in Job : failed[j] \subseteq failed'[j]
      /\ clock <= clock'
  BY <1>0, HistoryStep
<1>4. ASSUME NEW w \in Worker, Fail(w)
      PROVE  LET n == cur[w].attempts + 1 IN
             /\ cur[w] \in LiveEntries /\ cur[w] \in Entry /\ n \in 1..MaxAttempts
             /\ 1..n \subseteq failed'[cur[w].job]
             /\ cur[w].at <= Now(w) /\ Now(w) \in Nat
  <2> DEFINE n == cur[w].attempts + 1
  <2>1. pc[w] = "run" /\ cur[w] \in LiveEntries
    BY <1>4, LiveIff DEF Fail
  <2>2. cur[w] \in Entry /\ cur[w].job \in Job /\ cur[w].attempts \in Nat
    BY <1>0, <2>1 DEF EntriesOK, WellFormed, Entry
  <2>3. cur[w].attempts < MaxAttempts /\ 1..cur[w].attempts \subseteq failed[cur[w].job]
    BY <1>0, <2>1 DEF AttemptsEarned
  <2>4. failed'[cur[w].job] = failed[cur[w].job] \cup {n}
    BY <1>0, <1>4, <2>2 DEF Fail, TypeOK
  <2>5. Now(w) \in Nat /\ cur[w].at <= Now(w)
    BY <1>0, <2>1 DEF EntriesOK, Now, TypeOK
  <2> QED BY <2>1, <2>2, <2>3, <2>4, <2>5
<1>5. ASSUME NEW e \in LiveEntries'
      PROVE  /\ WellFormed(e)'
             /\ e.attempts < MaxAttempts /\ 1..e.attempts \subseteq failed'[e.job]
  <2>1. CASE e \in LiveEntries
    <3>1. WellFormed(e) /\ e.attempts < MaxAttempts /\ 1..e.attempts \subseteq failed[e.job]
      BY <1>0, <2>1 DEF EntriesOK, AttemptsEarned
    <3>2. e.job \in accepted /\ e.job \in Job
      BY <3>1 DEF WellFormed, Entry
    <3> QED BY <1>3, <3>1, <3>2 DEF WellFormed
  <2>2. CASE Submitted(e)
    <3>1. PICK j \in Job :
            Enqueue(j) /\ e = [job |-> j, attempts |-> 0, at |-> clock + Ahead]
      BY <2>2 DEF Submitted
    <3>2. e.job \in accepted' /\ e.at = born'[e.job] /\ e.at \in Nat
      BY <1>0, <3>1 DEF Enqueue, TypeOK
    <3>3. e \in Entry /\ e.attempts = 0
      BY <1>0, <3>1 DEF TypeOK, Entry
    <3> QED BY <3>2, <3>3 DEF WellFormed
  <2>3. CASE Retried(e)
    <3>1. PICK w \in Worker :
            /\ Fail(w) /\ AnotherAttempt(cur[w].attempts + 1)
            /\ e = Attempted(cur[w], cur[w].attempts + 1,
                             RetryAt(Now(w), cur[w].attempts + 1))
      BY <2>3 DEF Retried
    <3> DEFINE m == cur[w].attempts
               j == cur[w].job
    <3>2. /\ cur[w] \in LiveEntries /\ cur[w] \in Entry /\ m + 1 \in 1..MaxAttempts
          /\ 1..(m + 1) \subseteq failed'[j]
          /\ cur[w].at <= Now(w) /\ Now(w) \in Nat
      BY <1>4, <3>1
    <3>3. e.job = j /\ e.attempts = m + 1 /\ e.at = RetryAt(Now(w), m + 1)
      BY <3>1 DEF Attempted
    <3>4. m \in Nat /\ cur[w].at \in Nat /\ j \in accepted
          /\ 2 * (cur[w].at - born[j]) >= Backoff * (m * (m + 1))
      BY <1>0, <3>2 DEF EntriesOK, WellFormed, Entry
    <3>5. born[j] \in Nat /\ born'[j] = born[j] /\ j \in accepted'
      BY <1>0, <1>3, <3>4 DEF TypeOK
    <3>6. 2 * (RetryAt(Now(w), m + 1) - born[j]) >= Backoff * ((m + 1) * (m + 2))
      BY <3>2, <3>4, <3>5, NextSchedule
    <3>7. RetryAt(Now(w), m + 1) \in Nat
      <4>1. (m + 1) * Backoff \in Nat
        BY <3>4
      <4> QED BY <3>2, <4>1 DEF RetryAt
    <3>8. e \in Entry
      BY <3>1, <3>2, <3>7, EntryNext
    <3>9. e.attempts + 1 = m + 2 /\ e.attempts # 0 /\ e.attempts < MaxAttempts
      BY <3>1, <3>3, <3>4 DEF AnotherAttempt
    <3>10. 2 * (e.at - born'[e.job]) >= Backoff * (e.attempts * (e.attempts + 1))
      BY <3>3, <3>5, <3>6, <3>9
    <3> QED BY <3>2, <3>3, <3>5, <3>8, <3>9, <3>10 DEF WellFormed
  <2> QED BY <1>0, <2>1, <2>2, <2>3, LiveStep
<1>6. ASSUME NEW e \in SpentEntries'
      PROVE  e.attempts = MaxAttempts /\ 1..MaxAttempts \subseteq failed'[e.job]
  <2>1. CASE e \in SpentEntries
    <3>1. e \in Entry
      <4>1. e \in dead \/ \E v \in Worker : pc[v] = "bury" /\ e = cur[v]
        BY <2>1, SpentIff
      <4> QED BY <1>0, <4>1 DEF TypeOK, InHand
    <3>2. e.job \in Job
      BY <3>1 DEF Entry
    <3>3. e.attempts = MaxAttempts /\ 1..MaxAttempts \subseteq failed[e.job]
      BY <1>0, <2>1 DEF AttemptsEarned
    <3> QED BY <1>3, <3>2, <3>3
  <2>2. CASE Exhausted(e)
    <3>1. PICK w \in Worker :
            /\ Fail(w) /\ ~AnotherAttempt(cur[w].attempts + 1)
            /\ e = Attempted(cur[w], cur[w].attempts + 1, cur[w].at)
      BY <2>2 DEF Exhausted
    <3>2. e.job = cur[w].job /\ e.attempts = cur[w].attempts + 1
      BY <3>1 DEF Attempted
    <3>3. cur[w].attempts + 1 = MaxAttempts
      BY <1>4, <3>1 DEF AnotherAttempt
    <3> QED BY <1>4, <3>1, <3>2, <3>3
  <2> QED BY <1>0, <2>1, <2>2, SpentStep
<1>7. ASSUME NEW v \in Worker, pc'[v] = "run"
      PROVE  cur'[v].at <= Now(v)'
  <2>1. cur'[v].at <= Now(v)
    BY <1>0, <1>7, RunStep DEF EntriesOK
  <2>2. cur'[v].at \in Nat
    BY <1>2, <1>7 DEF TypeOK, InHand, Entry
  <2>3. Now(v) \in Nat /\ Now(v)' \in Nat /\ Now(v) <= Now(v)'
    BY <1>0, <1>2, <1>3 DEF TypeOK, Now
  <2> QED BY <2>1, <2>2, <2>3
<1>8. EntriesOK'
  BY <1>5, <1>7 DEF EntriesOK
<1>9. AttemptsEarned'
  BY <1>5, <1>6 DEF AttemptsEarned
<1> QED BY <1>2, <1>8, <1>9 DEF QueueInv

THEOREM QueueInvariant == Spec => []QueueInv
<1>1. Init => QueueInv
  BY QueueInvInit
<1>2. QueueInv /\ [Next]_vars => QueueInv'
  BY QueueInvStep
<1> QED BY <1>1, <1>2, PTL DEF Spec

(* Every variable of the queue keeps its type.                             *)
THEOREM TypeCorrect == Spec => []TypeOK
<1>1. QueueInv => TypeOK
  BY DEF QueueInv
<1> QED BY <1>1, QueueInvariant, PTL

(* Attempts are counted by failures: no entry is dead-lettered early, none *)
(* runs after its last attempt.                                            *)
THEOREM AttemptsAreEarned == Spec => []AttemptsEarned
<1>1. QueueInv => AttemptsEarned
  BY DEF QueueInv
<1> QED BY <1>1, QueueInvariant, PTL

(* The linear backoff holds across retries, promotions, crashes and skewed *)
(* clocks.                                                                 *)
THEOREM RetriesAreSpaced == Spec => []RetrySpacing
<1>1. QueueInv => RetrySpacing
  <2> SUFFICES ASSUME QueueInv, NEW w \in Worker, pc[w] = "run"
               PROVE  2 * (Now(w) - born[cur[w].job])
                        >= Backoff * (cur[w].attempts * (cur[w].attempts + 1))
    BY DEF RetrySpacing
  <2> DEFINE n == cur[w].attempts
             j == cur[w].job
  <2>1. cur[w] \in LiveEntries /\ cur[w].at <= Now(w)
    BY LiveIff DEF QueueInv, EntriesOK
  <2>2. cur[w] \in Entry /\ j \in accepted
        /\ 2 * (cur[w].at - born[j]) >= Backoff * (n * (n + 1))
    BY <2>1 DEF QueueInv, EntriesOK, WellFormed
  <2>3. cur[w].at \in Nat /\ n \in Nat /\ Now(w) \in Nat /\ born[j] \in Nat
    BY <2>2 DEF QueueInv, TypeOK, Entry, Now
  <2>4. Backoff * (n * (n + 1)) \in Nat
    BY <2>3
  <2> QED BY <2>1, <2>2, <2>3, <2>4
<1> QED BY <1>1, QueueInvariant, PTL

-----------------------------------------------------------------------------
(* No job is lost while the clocks agree.                                  *)

CoverInv == QueueInv /\ PromotedDue /\ AllCovered

LEMMA DoomedIff ==
  ASSUME NEW e
  PROVE  e \in Doomed <=> \E v \in Worker : pc[v] = "rem" /\ e = cur[v]
BY DEF Doomed

(* A goroutine that moves on empty-handed dooms nothing.                   *)
LEMMA GoToDoomed ==
  ASSUME HandsOK, NEW w \in Worker, NEW l \in {"top", "push", "pop", "exit"},
         GoTo(w, l)
  PROVE  Doomed' \subseteq Doomed
<1> SUFFICES ASSUME NEW e, e \in Doomed'
             PROVE  e \in Doomed
  OBVIOUS
<1>1. PICK v \in Worker : pc'[v] = "rem" /\ e = cur'[v]
  BY DEF Doomed
<1>2. pc[v] = "rem" /\ e = cur[v]
  BY <1>1, GoToHeld
<1> QED BY <1>2, DoomedIff

(* One that takes an entry dooms at most that entry.                       *)
LEMMA TakeDoomed ==
  ASSUME HandsOK, NEW w \in Worker, NEW l, NEW f, Take(w, f, l)
  PROVE  \A e \in Doomed' : e \in Doomed \/ (l = "rem" /\ e = f)
<1> SUFFICES ASSUME NEW e, e \in Doomed', ~(l = "rem" /\ e = f)
             PROVE  e \in Doomed
  OBVIOUS
<1>1. PICK v \in Worker : pc'[v] = "rem" /\ e = cur'[v]
  BY DEF Doomed
<1>2. v # w /\ pc[v] = "rem" /\ e = cur[v]
  BY <1>1, TakeHeld
<1> QED BY <1>2, DoomedIff

(* A job stays covered when each piece of evidence for it either remains   *)
(* or is replaced by another.                                              *)
LEMMA CoverKept ==
  ASSUME NEW j, NEW a, Covered(j, a),
         \A e \in Elems(ready) : e.job = j /\ e.attempts >= a
            => e \in Elems(ready') \/ Covered(j, a)',
         \A e \in delayed \ Doomed : e.job = j /\ e.attempts >= a
            => e \in delayed' \ Doomed' \/ Covered(j, a)',
         \A w \in Worker : Holds(w, j) /\ Level(w) >= a
            => (Holds(w, j) /\ Level(w) >= a)' \/ Covered(j, a)',
         dead \subseteq dead',
         completed \cup givenUp \subseteq completed' \cup givenUp'
  PROVE  Covered(j, a)'
<1>1. CASE \E e \in Elems(ready) : e.job = j /\ e.attempts >= a
  BY <1>1 DEF Covered, Elems
<1>2. CASE \E e \in delayed \ Doomed : e.job = j /\ e.attempts >= a
  BY <1>2 DEF Covered
<1>3. CASE \E w \in Worker : Holds(w, j) /\ Level(w) >= a
  BY <1>3 DEF Covered
<1>4. CASE (\E e \in dead : e.job = j) \/ j \in completed \cup givenUp
  BY <1>4 DEF Covered
<1> QED BY <1>1, <1>2, <1>3, <1>4 DEF Covered

(* What is promoted is due, when the clocks agree.                         *)
LEMMA PromotedStep ==
  ASSUME SynchronizedClocks, TypeOK, PromotedDue, [Next]_vars
  PROVE  PromotedDue'
<1> USE DEF redisVars, goVars, history
<1>0. HandsOK /\ ready \in Seq(Entry) /\ clock \in Nat
      /\ \A w \in Worker : todo[w] \subseteq Entry /\ Now(w) = clock
  BY DEF TypeOK, HandsOK, SynchronizedClocks, Now
<1>a. \A e \in Entry : e.at \in Nat /\ e.attempts \in Nat
  BY DEF Entry
<1>b. Elems(ready) \subseteq Entry
  BY <1>0, ElemsType
<1>c. \A w \in Worker : pc[w] = "rem" => cur[w] \in Entry
  BY <1>0 DEF HandsOK
<1>1. ASSUME NEW w \in Worker, \E l \in {"top", "push", "pop", "exit"} : GoTo(w, l),
             clock' = clock, todo' = [todo EXCEPT ![w] = {}] \/ todo' = todo,
             \A e \in Elems(ready') : e \in Elems(ready) \/ e.at <= clock
      PROVE  PromotedDue'
  <2>1. \A v \in Worker : pc'[v] = "rem" => pc[v] = "rem" /\ cur'[v] = cur[v]
    BY <1>0, <1>1, GoToHeld
  <2>2. \A v \in Worker : todo'[v] \subseteq todo[v]
    BY <1>1 DEF TypeOK
  <2> QED BY <1>1, <2>1, <2>2 DEF PromotedDue, Elems
<1>2. ASSUME NEW w \in Worker, \E f, l : l # "rem" /\ Take(w, f, l),
             clock' = clock, todo' = todo, Elems(ready') \subseteq Elems(ready)
      PROVE  PromotedDue'
  <2>1. \A v \in Worker : pc'[v] = "rem" => pc[v] = "rem" /\ cur'[v] = cur[v]
    BY <1>0, <1>2, TakeHeld
  <2> QED BY <1>2, <2>1 DEF PromotedDue, Elems
<1>3. ASSUME NEW j \in Job, Enqueue(j)
      PROVE  PromotedDue'
  <2> DEFINE x == [job |-> j, attempts |-> 0, at |-> clock + Ahead]
  <2>1. x \in Entry /\ x.attempts = 0
    BY <1>0 DEF Entry
  <2>2. Elems(ready') = Elems(ready) \cup {x}
    BY <1>0, <1>3, <2>1, ElemsAppend DEF Enqueue
  <2>3. \A e \in Elems(ready') : e.at <= clock' \/ e.attempts = 0
    BY <1>3, <2>1, <2>2 DEF PromotedDue, Enqueue
  <2> QED BY <1>3, <2>3 DEF PromotedDue, Enqueue, Elems
<1>4. ASSUME NEW w \in Worker, ReadDue(w)
      PROVE  PromotedDue'
  <2>1. \A v \in Worker : pc'[v] = "rem" => pc[v] = "rem" /\ cur'[v] = cur[v]
    BY <1>0, <1>4, GoToHeld DEF ReadDue
  <2>2. \A v \in Worker : \A e \in todo'[v] : e \in todo[v] \/ e.at <= clock
    BY <1>0, <1>4 DEF ReadDue, Due, TypeOK
  <2> QED BY <1>4, <2>1, <2>2 DEF PromotedDue, Elems, ReadDue
<1>5. ASSUME NEW w \in Worker, PushDue(w)
      PROVE  PromotedDue'
  <2>1. PICK e \in todo[w] : /\ ready' = Append(ready, e)
                             /\ todo' = [todo EXCEPT ![w] = @ \ {e}]
                             /\ Take(w, e, "rem")
    BY <1>5 DEF PushDue
  <2>2. e \in Entry /\ e.at <= clock
    BY <1>0, <2>1 DEF PromotedDue
  <2>3. Elems(ready') = Elems(ready) \cup {e}
    BY <1>0, <2>1, <2>2, ElemsAppend
  <2>4. \A v \in Worker : pc'[v] = "rem" => cur'[v] = e \/ (pc[v] = "rem" /\ cur'[v] = cur[v])
    BY <1>0, <2>1, TakeHeld
  <2>5. \A v \in Worker : todo'[v] \subseteq todo[v]
    BY <2>1 DEF TypeOK
  <2>6. clock' = clock
    BY <1>5 DEF PushDue
  <2> QED BY <2>2, <2>3, <2>4, <2>5, <2>6 DEF PromotedDue, Elems
<1>6. ASSUME NEW w \in Worker, Pop(w)
      PROVE  PromotedDue'
  <2>1. Elems(ready') \subseteq Elems(ready)
    BY <1>0, <1>6, ElemsTail DEF Pop
  <2>2. clock' = clock /\ todo' = todo
    BY <1>6 DEF Pop
  <2>3. GoTo(w, "top") \/ \E f, l : l # "rem" /\ Take(w, f, l)
    BY <1>6 DEF Pop, Dispatch
  <2> QED BY <1>1, <1>2, <2>1, <2>2, <2>3
<1>7. ASSUME NEW w \in Worker, Fail(w)
      PROVE  PromotedDue'
  <2>1. \E f, l : l # "rem" /\ Take(w, f, l)
    BY <1>7 DEF Fail
  <2>2. clock' = clock /\ todo' = todo /\ ready' = ready
    BY <1>7 DEF Fail
  <2> QED BY <1>2, <2>1, <2>2
<1>8. ASSUME NEW w \in Worker,
             \/ Exit(w) \/ RemDue(w) \/ PopTimeout(w) \/ Bury(w)
             \/ Delay(w) \/ Succeed(w) \/ Refused(w)
      PROVE  PromotedDue'
  <2>1. \E l \in {"top", "push", "pop", "exit"} : GoTo(w, l)
    BY <1>8 DEF Exit, RemDue, PopTimeout, Bury, Delay, Succeed, Refused, Abandon, LetGo
  <2>2. clock' = clock /\ ready' = ready
    BY <1>8 DEF Exit, RemDue, PopTimeout, Bury, Delay, Succeed, Refused
  <2>3. todo' = [todo EXCEPT ![w] = {}] \/ todo' = todo
    BY <1>8 DEF Exit, RemDue, PopTimeout, Bury, Delay, Succeed, Refused, Abandon, LetGo
  <2> QED BY <1>1, <2>1, <2>2, <2>3
<1>9. ASSUME NEW w \in Worker, RedisFails(w)
      PROVE  PromotedDue'
  <2>1. \E l \in {"top", "push", "pop", "exit"} : GoTo(w, l)
    BY <1>9 DEF RedisFails, Abandon, LetGo
  <2>2. clock' = clock /\ (todo' = [todo EXCEPT ![w] = {}] \/ todo' = todo)
    BY <1>9 DEF RedisFails, Abandon, LetGo
  <2>3. \/ ready' = ready
        \/ ready # <<>> /\ ready' = Tail(ready)
        \/ \E e \in todo[w] : ready' = Append(ready, e)
    BY <1>9 DEF RedisFails
  <2>4. ready # <<>> => Elems(Tail(ready)) \subseteq Elems(ready)
    BY <1>0, ElemsTail
  <2>5. \A e \in todo[w] : e.at <= clock /\ Elems(Append(ready, e)) = Elems(ready) \cup {e}
    BY <1>0, ElemsAppend DEF PromotedDue
  <2>6. \A e \in Elems(ready') : e \in Elems(ready) \/ e.at <= clock
    <3>1. CASE ready' = ready
      BY <3>1
    <3>2. CASE ready # <<>> /\ ready' = Tail(ready)
      BY <2>4, <3>2
    <3>3. CASE \E e \in todo[w] : ready' = Append(ready, e)
      BY <2>5, <3>3
    <3> QED BY <2>3, <3>1, <3>2, <3>3
  <2> QED BY <1>1, <2>1, <2>2, <2>6
<1>10. ASSUME NEW p \in Pool, Crash(p)
       PROVE  PromotedDue'
  <2>1. \A v \in Worker : /\ pc'[v] = "rem" => pc[v] = "rem" /\ cur'[v] = cur[v]
                          /\ todo'[v] \subseteq todo[v]
    BY <1>10 DEF Crash
  <2> QED BY <1>10, <2>1 DEF PromotedDue, Elems, Crash
<1>11. ASSUME NEW p \in Pool, Stop(p) \/ Restart(p)
       PROVE  PromotedDue'
  <2>1. \A v \in Worker : pc'[v] = "rem" => pc[v] = "rem"
    BY <1>0, <1>11 DEF Stop, Restart, HandsOK
  <2>2. UNCHANGED <<ready, todo, cur, clock>>
    BY <1>11 DEF Stop, Restart
  <2> QED BY <2>1, <2>2 DEF PromotedDue, Elems
<1>12. CASE Tick
  <2>1. \A e \in Entry : e.at <= clock => e.at <= clock'
    BY <1>0, <1>12, <1>a DEF Tick
  <2>2. UNCHANGED <<ready, todo, cur, pc>>
    BY <1>12 DEF Tick
  <2> QED BY <1>0, <1>b, <1>c, <2>1, <2>2 DEF PromotedDue, Elems
<1>13. CASE UNCHANGED vars
  BY <1>13 DEF PromotedDue, Elems, vars
<1> QED
  BY <1>3, <1>4, <1>5, <1>6, <1>7, <1>8, <1>9, <1>10, <1>11, <1>12, <1>13 DEF Next, Step

(* A goroutine pops an entry early only in its first attempt, and then no  *)
(* promoted entry of that job is around to be removed.                     *)
LEMMA EarlyPop ==
  ASSUME SynchronizedClocks, CoverInv, ready # <<>>, Head(ready).at > clock,
         NEW v \in Worker, pc[v] = "rem", cur[v].job = Head(ready).job
  PROVE  cur[v].attempts > Head(ready).attempts
<1> DEFINE x == Head(ready)
           y == cur[v]
<1>0. TypeOK /\ EntriesOK /\ PromotedDue
  BY DEF CoverInv, QueueInv
<1>1. x \in Elems(ready) /\ x \in Entry
  BY <1>0, ElemsTail DEF TypeOK
<1>2. x.at \in Nat /\ clock \in Nat /\ x.attempts = 0
  <2>1. x.at \in Nat /\ clock \in Nat
    BY <1>0, <1>1 DEF Entry, TypeOK
  <2>2. x.at <= clock \/ x.attempts = 0
    BY <1>0, <1>1 DEF PromotedDue
  <2>3. x.at > clock
    OBVIOUS
  <2> QED BY <2>1, <2>2, <2>3
<1>3. x \in LiveEntries /\ y \in LiveEntries
  BY <1>1, LiveIff
<1>4. x.at = born[x.job]
  BY <1>0, <1>2, <1>3 DEF EntriesOK, WellFormed
<1>5. y.at <= clock /\ y.at \in Nat /\ y.attempts \in Nat
  BY <1>0, <1>3 DEF PromotedDue, EntriesOK, WellFormed, Entry
<1>6. y.attempts = 0 => y.at = born[y.job]
  BY <1>0, <1>3 DEF EntriesOK, WellFormed
<1> QED BY <1>2, <1>4, <1>5, <1>6

(* What a step leaves of a job's evidence: a job stays covered, and so does*)
(* the attempt a removal is about to make redundant.                       *)
LEMMA CoverStep ==
  ASSUME SynchronizedClocks, CoverInv, [Next]_vars, NEW j \in Job,
         NEW a \in Nat \cup {-1}, Covered(j, a),
         \/ a = -1
         \/ \E v \in Worker : pc[v] = "rem" /\ cur[v].job = j /\ cur[v].attempts = a
  PROVE  Covered(j, a)'
<1> USE DEF redisVars, goVars, history
<1>0. HandsOK /\ ready \in Seq(Entry) /\ dead \subseteq Entry /\ clock \in Nat
      /\ TypeOK /\ delayed \subseteq Entry
      /\ (\A w \in Worker : todo[w] \subseteq Entry /\ Now(w) = clock)
  BY DEF CoverInv, QueueInv, TypeOK, HandsOK, SynchronizedClocks, Now
<1>a. \A e \in Entry : e.at \in Nat /\ e.attempts \in Nat
  BY DEF Entry
<1>b. \A w \in Worker : pc[w] \in InHand => cur[w] \in Entry
  BY <1>0 DEF HandsOK
<1>c. \A w \in Worker : pc[w] = "rem" => cur[w] \in Doomed
  BY DoomedIff
<1>1. ASSUME NEW w \in Worker, \E l \in {"top", "push", "pop", "exit"} : GoTo(w, l),
             Elems(ready) \subseteq Elems(ready'),
             delayed \ Doomed \subseteq delayed',
             dead \subseteq dead',
             completed \cup givenUp \subseteq completed' \cup givenUp',
             Holds(w, j) /\ Level(w) >= a => Covered(j, a)'
      PROVE  Covered(j, a)'
  <2>1. Doomed' \subseteq Doomed
    BY <1>0, <1>1, GoToDoomed
  <2>2. \A v \in Worker : v # w => pc'[v] = pc[v] /\ cur'[v] = cur[v]
    BY <1>0, <1>1 DEF GoTo, HandsOK
  <2>3. \A v \in Worker : Holds(v, j) /\ Level(v) >= a
            => (Holds(v, j) /\ Level(v) >= a)' \/ Covered(j, a)'
    BY <1>1, <2>2 DEF Holds, Level
  <2> QED BY <1>1, <2>1, <2>3, CoverKept
<1>2. ASSUME NEW w \in Worker, pc[w] \notin InHand,
             \E l \in {"top", "push", "pop", "exit"} : GoTo(w, l),
             Elems(ready) \subseteq Elems(ready'),
             delayed \ Doomed \subseteq delayed',
             dead \subseteq dead',
             completed \cup givenUp \subseteq completed' \cup givenUp'
      PROVE  Covered(j, a)'
  BY <1>1, <1>2 DEF Holds
<1>3. ASSUME NEW w \in Worker, NEW f, NEW l \in InHand \cup {"rem"}, Take(w, f, l),
             \A e \in Elems(ready) : e.job = j /\ e.attempts >= a
                => e \in Elems(ready') \/ Covered(j, a)',
             l = "rem" => f \in Elems(ready'),
             delayed \subseteq delayed',
             dead \subseteq dead',
             completed \cup givenUp \subseteq completed' \cup givenUp',
             Holds(w, j) /\ Level(w) >= a => (Holds(w, j) /\ Level(w) >= a)'
      PROVE  Covered(j, a)'
  <2>1. \A e \in Doomed' : e \in Doomed \/ (l = "rem" /\ e = f)
    BY <1>0, <1>3, TakeDoomed
  <2>2. \A v \in Worker : v # w => pc'[v] = pc[v] /\ cur'[v] = cur[v]
    BY <1>0, <1>3, TakeHeld
  <2>3. \A v \in Worker : Holds(v, j) /\ Level(v) >= a
            => (Holds(v, j) /\ Level(v) >= a)' \/ Covered(j, a)'
    BY <1>3, <2>2 DEF Holds, Level
  <2>4. \A e \in delayed \ Doomed : e.job = j /\ e.attempts >= a
            => e \in delayed' \ Doomed' \/ Covered(j, a)'
    <3> SUFFICES ASSUME NEW e \in delayed \ Doomed, e.job = j, e.attempts >= a,
                        e \notin delayed' \ Doomed'
                 PROVE  Covered(j, a)'
      OBVIOUS
    <3>1. e \in Elems(ready')
      BY <1>3, <2>1
    <3> QED BY <3>1 DEF Covered, Elems
  <2> QED BY <1>3, <2>3, <2>4, CoverKept
<1>4. ASSUME NEW k \in Job, Enqueue(k)
      PROVE  Covered(j, a)'
  <2> DEFINE x == [job |-> k, attempts |-> 0, at |-> clock + Ahead]
  <2>1. x \in Entry
    BY <1>0 DEF Entry
  <2>2. Elems(ready') = Elems(ready) \cup {x}
    BY <1>0, <1>4, <2>1, ElemsAppend DEF Enqueue
  <2>3. UNCHANGED <<delayed, dead, pc, cur, completed, givenUp>>
    BY <1>4 DEF Enqueue
  <2>4. Doomed' = Doomed
    BY <2>3 DEF Doomed
  <2> QED BY <2>2, <2>3, <2>4, CoverKept DEF Holds, Level
<1>5. ASSUME NEW w \in Worker, Exit(w) \/ ReadDue(w) \/ RemDue(w) \/ PopTimeout(w)
      PROVE  Covered(j, a)'
  <2>1. pc[w] \notin InHand
    BY <1>5 DEF Exit, ReadDue, RemDue, PopTimeout, InHand
  <2>2. \E l \in {"top", "push", "pop", "exit"} : GoTo(w, l)
    BY <1>5 DEF Exit, ReadDue, RemDue, PopTimeout
  <2>3. UNCHANGED <<ready, dead, completed, givenUp>>
    BY <1>5 DEF Exit, ReadDue, RemDue, PopTimeout
  <2>4. delayed \ Doomed \subseteq delayed'
    BY <1>5, <1>c DEF Exit, ReadDue, RemDue, PopTimeout
  <2> QED BY <1>2, <2>1, <2>2, <2>3, <2>4
<1>6. ASSUME NEW w \in Worker, PushDue(w)
      PROVE  Covered(j, a)'
  <2>1. PICK e \in todo[w] : ready' = Append(ready, e) /\ Take(w, e, "rem")
    BY <1>6 DEF PushDue
  <2>2. Elems(ready') = Elems(ready) \cup {e}
    BY <1>0, <2>1, ElemsAppend
  <2>3. UNCHANGED <<delayed, dead, completed, givenUp>> /\ pc[w] \notin InHand
    BY <1>6 DEF PushDue, InHand
  <2> QED BY <1>3, <2>1, <2>2, <2>3 DEF Holds
<1>7. ASSUME NEW w \in Worker, Pop(w)
      PROVE  Covered(j, a)'
  <2> DEFINE x == Head(ready)
  <2>1. /\ x \in Entry /\ x \in Elems(ready)
        /\ \A e \in Elems(ready) : e = x \/ e \in Elems(ready')
    BY <1>0, <1>7, ElemsTail DEF Pop
  <2>2. UNCHANGED <<delayed, dead, completed>> /\ pc[w] \notin InHand
    BY <1>7 DEF Pop, InHand
  <2>3. CASE x.at > clock /\ Take(w, x, "redelay") /\ UNCHANGED givenUp
    <3>1. ASSUME x.job = j, x.attempts >= a
          PROVE  a = -1
      BY <1>7, <2>3, <3>1, <1>a, <2>1, EarlyPop DEF Pop
    <3>2. x.job = j /\ x.attempts >= a => Covered(j, a)'
      <4> SUFFICES ASSUME x.job = j, x.attempts >= a
                   PROVE  Covered(j, a)'
        OBVIOUS
      <4>1. pc'[w] = "redelay" /\ cur'[w] = x
        BY <1>0, <2>3, TakeHeld
      <4>2. (Holds(w, j) /\ Level(w) >= a)'
        BY <1>a, <2>1, <3>1, <4>1 DEF Holds, Level, InHand
      <4> QED BY <4>2 DEF Covered
    <3> QED BY <1>3, <2>1, <2>2, <2>3, <3>2 DEF Holds, InHand
  <2>4. CASE GoTo(w, "top") /\ givenUp' = givenUp \cup {x.job}
    <3>1. CASE x.job = j
      BY <2>4, <3>1 DEF Covered
    <3>2. CASE x.job # j
      <4>1. Doomed' \subseteq Doomed
        BY <1>0, <2>4, GoToDoomed
      <4>2. \A v \in Worker : v # w => pc'[v] = pc[v] /\ cur'[v] = cur[v]
        BY <1>0, <2>4 DEF GoTo, HandsOK
      <4>3. \A v \in Worker : Holds(v, j) /\ Level(v) >= a
                => (Holds(v, j) /\ Level(v) >= a)' \/ Covered(j, a)'
        BY <2>2, <4>2 DEF Holds, Level
      <4> QED BY <2>1, <2>2, <2>4, <3>2, <4>1, <4>3, CoverKept
    <3> QED BY <3>1, <3>2
  <2>5. CASE Take(w, x, "run") /\ UNCHANGED givenUp
    <3>1. x.job = j /\ x.attempts >= a => Covered(j, a)'
      <4> SUFFICES ASSUME x.job = j, x.attempts >= a
                   PROVE  Covered(j, a)'
        OBVIOUS
      <4>1. pc'[w] = "run" /\ cur'[w] = x
        BY <1>0, <2>5, TakeHeld
      <4>2. (Holds(w, j) /\ Level(w) >= a)'
        BY <4>1 DEF Holds, Level, InHand
      <4> QED BY <4>2 DEF Covered
    <3> QED BY <1>3, <2>1, <2>2, <2>5, <3>1 DEF Holds, InHand
  <2> QED BY <1>0, <1>7, <2>3, <2>4, <2>5 DEF Pop, Dispatch
<1>8. ASSUME NEW w \in Worker, Delay(w)
      PROVE  Covered(j, a)'
  <2> DEFINE y == cur[w]
  <2>1. /\ pc[w] \in {"redelay", "retry"} /\ GoTo(w, "top")
        /\ delayed' = delayed \cup {y}
        /\ UNCHANGED <<ready, dead, completed, givenUp>>
    BY <1>8 DEF Delay
  <2>2. y \in Entry /\ Level(w) = y.attempts - 1
    BY <1>b, <2>1 DEF InHand, Level
  <2>3. Doomed' \subseteq Doomed
    BY <1>0, <2>1, GoToDoomed
  <2>4. \A v \in Worker : v # w => pc'[v] = pc[v] /\ cur'[v] = cur[v]
    BY <1>0, <2>1 DEF GoTo, HandsOK
  <2>5. CASE ~(Holds(w, j) /\ Level(w) >= a)
    BY <1>1, <2>1, <2>5
  <2>6. CASE Holds(w, j) /\ Level(w) >= a /\ y \notin Doomed
    <3>1. y \in delayed' \ Doomed' /\ y.job = j /\ y.attempts >= a
      BY <1>a, <2>1, <2>2, <2>3, <2>6 DEF Holds
    <3> QED BY <3>1 DEF Covered
  <2>7. CASE Holds(w, j) /\ Level(w) >= a /\ y \in Doomed
    <3>1. PICK v \in Worker : pc[v] = "rem" /\ cur[v] = y
      BY <2>7, DoomedIff
    <3>2. PICK b \in Nat : b = y.attempts /\ y.job = j /\ b >= a
      BY <1>a, <2>2, <2>7 DEF Holds
    <3>3. Covered(j, b)
      BY <3>1, <3>2 DEF CoverInv, AllCovered
    <3>4. ~(Level(w) >= b)
      BY <2>2, <3>2
    <3>5. \A n \in Int : n >= b => n >= a
      BY <3>2
    <3>6. CASE \E e \in Elems(ready) \cup (delayed \ Doomed) : e.job = j /\ e.attempts >= b
      <4>1. PICK e \in Elems(ready) \cup (delayed \ Doomed) : e.job = j /\ e.attempts >= b
        BY <3>6
      <4>2. e \in Entry /\ e.attempts >= a
        <5>1. Elems(ready) \subseteq Entry
          BY <1>0, ElemsType
        <5>2. e \in Entry
          BY <1>0, <4>1, <5>1
        <5>3. e.attempts \in Int
          BY <1>a, <5>2
        <5> QED BY <3>5, <4>1, <5>2, <5>3
      <4>3. e \in Elems(ready') \cup (delayed' \ Doomed')
        BY <2>1, <2>3, <4>1
      <4> QED BY <4>1, <4>2, <4>3 DEF Covered, Elems
    <3>7. CASE \E u \in Worker : Holds(u, j) /\ Level(u) >= b
      <4>1. PICK u \in Worker : Holds(u, j) /\ Level(u) >= b
        BY <3>7
      <4>2. u # w /\ Level(u) \in Int
        BY <1>a, <1>b, <3>4, <4>1 DEF Holds, Level
      <4>3. Level(u) >= a
        BY <3>5, <4>1, <4>2
      <4>4. (Holds(u, j) /\ Level(u) >= a)'
        BY <2>4, <4>1, <4>2, <4>3 DEF Holds, Level
      <4> QED BY <4>4 DEF Covered
    <3>8. CASE (\E e \in dead : e.job = j) \/ j \in completed \cup givenUp
      BY <2>1, <3>8 DEF Covered
    <3> QED BY <3>3, <3>6, <3>7, <3>8 DEF Covered
  <2> QED BY <2>5, <2>6, <2>7
<1>9. ASSUME NEW w \in Worker, Bury(w)
      PROVE  Covered(j, a)'
  <2>1. /\ GoTo(w, "top") /\ dead' = dead \cup {cur[w]}
        /\ UNCHANGED <<ready, delayed, completed, givenUp>>
    BY <1>9 DEF Bury
  <2>2. Holds(w, j) => Covered(j, a)'
    BY <2>1 DEF Holds, Covered
  <2> QED BY <1>1, <2>1, <2>2
<1>10. ASSUME NEW w \in Worker, Succeed(w)
       PROVE  Covered(j, a)'
  <2>1. /\ GoTo(w, "top") /\ completed' = completed \cup {cur[w].job}
        /\ UNCHANGED <<ready, delayed, dead, givenUp>>
    BY <1>10 DEF Succeed
  <2>2. Holds(w, j) => Covered(j, a)'
    BY <2>1 DEF Holds, Covered
  <2> QED BY <1>1, <2>1, <2>2
<1>11. ASSUME NEW w \in Worker, Fail(w)
       PROVE  Covered(j, a)'
  <2> DEFINE n == cur[w].attempts + 1
  <2>1. pc[w] = "run" /\ UNCHANGED <<ready, delayed, dead, completed, givenUp>>
    BY <1>11 DEF Fail
  <2>2. PICK t : \E m \in {"retry", "bury"} : Take(w, Attempted(cur[w], n, t), m)
    BY <1>11 DEF Fail
  <2>l. PICK l \in {"retry", "bury"} : Take(w, Attempted(cur[w], n, t), l)
    BY <2>2
  <2>3. pc'[w] = l /\ cur'[w] = Attempted(cur[w], n, t)
    BY <1>0, <2>l, TakeHeld
  <2>4. cur'[w].job = cur[w].job /\ cur'[w].attempts = cur[w].attempts + 1
    BY <2>3 DEF Attempted
  <2>5. cur[w].attempts \in Nat
    BY <1>a, <1>b, <2>1 DEF InHand
  <2>6. Holds(w, j) /\ Level(w) >= a => (Holds(w, j) /\ Level(w) >= a)'
    BY <2>1, <2>3, <2>4, <2>5 DEF Holds, Level, InHand
  <2> QED BY <1>3, <2>1, <2>l, <2>6 DEF InHand
<1>12. ASSUME NEW w \in Worker, LetGo(w), UNCHANGED <<redisVars, completed>>
       PROVE  Covered(j, a)'
  <2>1. GoTo(w, "top") /\ givenUp' = givenUp \cup {cur[w].job}
    BY <1>12 DEF LetGo
  <2>2. Holds(w, j) => Covered(j, a)'
    BY <2>1 DEF Holds, Covered
  <2> QED BY <1>1, <1>12, <2>1, <2>2
<1>13. ASSUME NEW w \in Worker, NEW l \in {"top", "pop"}, Abandon(w, l),
              pc[w] \notin InHand, UNCHANGED <<dead, completed>>,
              Elems(ready) \subseteq Elems(ready'), delayed \ Doomed \subseteq delayed'
       PROVE  Covered(j, a)'
  BY <1>2, <1>13 DEF Abandon
<1>14. ASSUME NEW w \in Worker, Refused(w)
       PROVE  Covered(j, a)'
  <2>1. UNCHANGED <<redisVars, completed>>
    BY <1>14 DEF Refused
  <2>2. \/ LetGo(w)
        \/ pc[w] \notin InHand /\ \E l \in {"top", "pop"} : Abandon(w, l)
    BY <1>14 DEF Refused, InHand
  <2> QED BY <1>12, <1>13, <2>1, <2>2
<1>15. ASSUME NEW w \in Worker, RedisFails(w)
       PROVE  Covered(j, a)'
  <2>1. completed' = completed
    BY <1>15 DEF RedisFails
  <2>2. CASE LetGo(w) /\ UNCHANGED redisVars
    BY <1>12, <2>1, <2>2
  <2>3. CASE /\ pc[w] \notin InHand /\ \E l \in {"top", "pop"} : Abandon(w, l)
             /\ dead' = dead
             /\ \/ ready' = ready
                \/ \E e \in todo[w] : ready' = Append(ready, e)
             /\ \/ delayed' = delayed
                \/ pc[w] = "rem" /\ delayed' = delayed \ {cur[w]}
    <3>1. Elems(ready) \subseteq Elems(ready')
      <4>1. \A e \in todo[w] : Elems(Append(ready, e)) = Elems(ready) \cup {e}
        BY <1>0, ElemsAppend
      <4> QED BY <2>3, <4>1
    <3>2. delayed \ Doomed \subseteq delayed'
      BY <1>c, <2>3
    <3> QED BY <1>13, <2>1, <2>3, <3>1, <3>2
  <2>4. CASE /\ pc[w] = "pop" /\ ready # <<>>
             /\ ready' = Tail(ready)
             /\ givenUp' = givenUp \cup {Head(ready).job}
             /\ GoTo(w, "top")
             /\ UNCHANGED <<delayed, dead, todo>>
    <3>1. CASE Head(ready).job = j
      BY <2>4, <3>1 DEF Covered
    <3>2. CASE Head(ready).job # j
      <4>1. Doomed' \subseteq Doomed
        BY <1>0, <2>4, GoToDoomed
      <4>2. \A v \in Worker : v # w => pc'[v] = pc[v] /\ cur'[v] = cur[v]
        BY <1>0, <2>4 DEF GoTo, HandsOK
      <4>3. \A v \in Worker : Holds(v, j) /\ Level(v) >= a
                => (Holds(v, j) /\ Level(v) >= a)' \/ Covered(j, a)'
        BY <2>4, <4>2 DEF Holds, Level, InHand
      <4>4. \A e \in Elems(ready) : e = Head(ready) \/ e \in Elems(ready')
        BY <1>0, <2>4, ElemsTail
      <4> QED BY <2>1, <2>4, <3>2, <4>1, <4>3, <4>4, CoverKept
    <3> QED BY <3>1, <3>2
  <2> QED BY <1>15, <2>2, <2>3, <2>4 DEF RedisFails, InHand
<1>16. ASSUME NEW p \in Pool, Crash(p)
       PROVE  Covered(j, a)'
  <2>1. UNCHANGED <<redisVars, completed>> /\ givenUp \subseteq givenUp'
    BY <1>16 DEF Crash
  <2>2. \A v \in Worker :
          \/ PoolOf[v] = p /\ pc'[v] = "top"
          \/ PoolOf[v] # p /\ pc'[v] = pc[v] /\ cur'[v] = cur[v]
    BY <1>16 DEF Crash
  <2>3. \A v \in Worker : PoolOf[v] = p /\ Holds(v, j) => j \in givenUp'
    BY <1>16 DEF Crash
  <2>4. Doomed' \subseteq Doomed
    BY <2>2 DEF Doomed
  <2>5. \A v \in Worker : Holds(v, j) /\ Level(v) >= a
            => (Holds(v, j) /\ Level(v) >= a)' \/ Covered(j, a)'
    BY <2>2, <2>3 DEF Holds, Level, Covered
  <2> QED BY <2>1, <2>4, <2>5, CoverKept
<1>17. ASSUME NEW p \in Pool, Stop(p) \/ Restart(p)
       PROVE  Covered(j, a)'
  <2>1. UNCHANGED <<redisVars, cur, completed, givenUp>>
    BY <1>17 DEF Stop, Restart
  <2>2. \A v \in Worker : pc'[v] = pc[v] \/ (pc[v] = "exit" /\ pc'[v] = "top")
    BY <1>0, <1>17 DEF Stop, Restart, HandsOK
  <2>3. Doomed' \subseteq Doomed
    BY <2>1, <2>2 DEF Doomed
  <2> QED BY <2>1, <2>2, <2>3, CoverKept DEF Holds, Level, InHand
<1>18. CASE Tick \/ UNCHANGED vars
  <2>1. UNCHANGED <<redisVars, pc, cur, completed, givenUp>>
    BY <1>18 DEF Tick, vars
  <2> QED BY <2>1 DEF Covered, Elems, Doomed, Holds, Level
<1> QED
  BY <1>4, <1>5, <1>6, <1>7, <1>8, <1>9, <1>10, <1>11, <1>14, <1>15, <1>16, <1>17,
     <1>18 DEF Next, Step

(* A goroutine comes to remove an entry by pushing it on the ready list.   *)
LEMMA NewRem ==
  ASSUME TypeOK, [Next]_vars, NEW v \in Worker, pc'[v] = "rem"
  PROVE  (pc[v] = "rem" /\ cur[v] = cur'[v]) \/ cur'[v] \in Elems(ready')
<1> USE DEF redisVars, goVars, history
<1>0. HandsOK /\ ready \in Seq(Entry)
  BY DEF TypeOK, HandsOK
<1>1. ASSUME NEW w \in Worker, \E l \in {"top", "push", "pop", "exit"} : GoTo(w, l)
      PROVE  pc[v] = "rem" /\ cur[v] = cur'[v]
  BY <1>0, <1>1, GoToHeld
<1>2. ASSUME NEW w \in Worker, \E f, l : l # "rem" /\ Take(w, f, l)
      PROVE  pc[v] = "rem" /\ cur[v] = cur'[v]
  BY <1>0, <1>2, TakeHeld
<1>3. ASSUME NEW w \in Worker,
             \/ Exit(w) \/ ReadDue(w) \/ RemDue(w) \/ PopTimeout(w) \/ Bury(w)
             \/ Delay(w) \/ Succeed(w) \/ Refused(w) \/ RedisFails(w)
      PROVE  pc[v] = "rem" /\ cur[v] = cur'[v]
  <2>1. \E l \in {"top", "push", "pop", "exit"} : GoTo(w, l)
    BY <1>3 DEF Exit, ReadDue, RemDue, PopTimeout, Bury, Delay, Succeed, Refused,
                RedisFails, Abandon, LetGo
  <2> QED BY <1>1, <2>1
<1>4. ASSUME NEW w \in Worker, Pop(w) \/ Fail(w)
      PROVE  pc[v] = "rem" /\ cur[v] = cur'[v]
  <2>1. GoTo(w, "top") \/ \E f, l : l # "rem" /\ Take(w, f, l)
    BY <1>4 DEF Pop, Dispatch, Fail
  <2> QED BY <1>1, <1>2, <2>1
<1>5. ASSUME NEW w \in Worker, PushDue(w)
      PROVE  (pc[v] = "rem" /\ cur[v] = cur'[v]) \/ cur'[v] \in Elems(ready')
  <2>1. PICK e \in todo[w] : ready' = Append(ready, e) /\ Take(w, e, "rem")
    BY <1>5 DEF PushDue
  <2>2. e \in Elems(ready')
    BY <1>0, <2>1, ElemsAppend DEF TypeOK
  <2> QED BY <1>0, <2>1, <2>2, TakeHeld
<1>6. ASSUME NEW p \in Pool, Crash(p) \/ Stop(p) \/ Restart(p)
      PROVE  pc[v] = "rem" /\ cur[v] = cur'[v]
  BY <1>0, <1>6 DEF Crash, Stop, Restart, HandsOK
<1>7. CASE \/ \E j \in Job : Enqueue(j)
           \/ Tick
           \/ UNCHANGED vars
  BY <1>7 DEF Enqueue, Tick, vars
<1> QED
  BY <1>3, <1>4, <1>5, <1>6, <1>7 DEF Next, Step

(* Every accepted job stays accounted for, in every state of the system.   *)
LEMMA CoverInvStep ==
  ASSUME SynchronizedClocks, CoverInv, [Next]_vars
  PROVE  CoverInv'
<1>0. QueueInv /\ PromotedDue /\ AllCovered /\ TypeOK
  BY DEF CoverInv, QueueInv
<1>1. QueueInv'
  BY <1>0, QueueInvStep
<1>2. PromotedDue'
  BY <1>0, PromotedStep
<1>3. ASSUME NEW j \in accepted'
      PROVE  Covered(j, -1)'
  <2>1. CASE j \in accepted
    <3>1. j \in Job /\ Covered(j, -1)
      BY <1>0, <2>1 DEF AllCovered, TypeOK
    <3> QED BY <3>1, CoverStep
  <2>2. CASE j \notin accepted
    <3>1. Enqueue(j)
      BY <1>3, <2>2 DEF Next, Step, Enqueue, Exit, ReadDue, PushDue, RemDue, Pop,
           PopTimeout, Delay, Bury, Succeed, Fail, Refused, RedisFails, Crash,
           Stop, Restart, Tick, vars, history
    <3> DEFINE x == [job |-> j, attempts |-> 0, at |-> clock + Ahead]
    <3>2. j \in Job /\ x \in Entry
      BY <1>0, <1>1, <1>3 DEF QueueInv, TypeOK, Entry
    <3>3. x \in Elems(ready')
      BY <1>0, <3>1, <3>2, ElemsAppend DEF Enqueue, TypeOK
    <3> QED BY <3>3 DEF Covered, Elems
  <2> QED BY <2>1, <2>2
<1>4. ASSUME NEW v \in Worker, pc'[v] = "rem"
      PROVE  Covered(cur[v].job, cur[v].attempts)'
  <2>1. PICK e : e = cur'[v]
    OBVIOUS
  <2>2. e \in Entry /\ e.job \in Job /\ e.attempts \in Nat
    BY <1>1, <1>4, <2>1 DEF QueueInv, TypeOK, Entry
  <2>3. CASE pc[v] = "rem" /\ cur[v] = e
    <3>1. Covered(e.job, e.attempts)
      BY <1>0, <2>3 DEF AllCovered
    <3>2. Covered(e.job, e.attempts)'
      BY <2>2, <2>3, <3>1, CoverStep
    <3> QED BY <2>1, <3>2
  <2>4. CASE ~(pc[v] = "rem" /\ cur[v] = e)
    <3>1. e \in Elems(ready')
      BY <1>0, <1>4, <2>1, <2>4, NewRem
    <3>2. Covered(e.job, e.attempts)'
      BY <2>2, <3>1 DEF Covered, Elems
    <3> QED BY <2>1, <3>2
  <2> QED BY <2>3, <2>4
<1>5. AllCovered'
  BY <1>3, <1>4 DEF AllCovered
<1> QED BY <1>1, <1>2, <1>5 DEF CoverInv

(* At-least-once: with agreeing clocks, whatever is promoted, delayed,     *)
(* retried or crashed in whatever order, an accepted job never vanishes.   *)
THEOREM NoJobVanishes ==
  ASSUME SynchronizedClocks
  PROVE  Spec => []Accounted
<1>1. Init => CoverInv
  <2> SUFFICES ASSUME Init PROVE CoverInv
    OBVIOUS
  <2>1. QueueInv
    BY QueueInvInit
  <2>2. Elems(ready) = {}
    BY DEF Init, Elems
  <2> QED BY <2>1, <2>2 DEF CoverInv, PromotedDue, AllCovered, Init
<1>2. CoverInv /\ [Next]_vars => CoverInv'
  BY CoverInvStep
<1>3. CoverInv => Accounted
  <2> SUFFICES ASSUME CoverInv, NEW j \in accepted
               PROVE  \/ \E e \in Elems(ready) \cup delayed \cup dead : e.job = j
                      \/ \E w \in Worker : Holds(w, j)
                      \/ j \in completed \cup givenUp
    BY DEF Accounted
  <2>1. Covered(j, -1)
    BY DEF CoverInv, AllCovered
  <2> QED BY <2>1 DEF Covered
<1> QED BY <1>1, <1>2, <1>3, PTL DEF Spec

-----------------------------------------------------------------------------
(* JobQueue implements JobLedger: every step of the queue is a step of the *)
(* ledger or leaves it alone.                                              *)

SpentAccepted == \A e \in SpentEntries : e.job \in accepted

LedgerInv == QueueInv /\ SpentAccepted

LEMMA LedgerInvInit == Init => LedgerInv
<1> SUFFICES ASSUME Init PROVE LedgerInv
  OBVIOUS
<1>1. QueueInv
  BY QueueInvInit
<1>2. \A e : e \notin SpentEntries
  BY SpentIff DEF Init
<1> QED BY <1>1, <1>2 DEF LedgerInv, SpentAccepted

LEMMA LedgerInvStep ==
  ASSUME LedgerInv, [Next]_vars
  PROVE  LedgerInv'
<1>0. QueueInv /\ SpentAccepted /\ TypeOK /\ EntriesOK
  BY DEF LedgerInv, QueueInv
<1>1. QueueInv'
  BY <1>0, QueueInvStep
<1>2. accepted \subseteq accepted'
  BY <1>0, HistoryStep
<1>3. ASSUME NEW e \in SpentEntries'
      PROVE  e.job \in accepted'
  <2>1. CASE e \in SpentEntries
    BY <1>0, <1>2, <2>1 DEF SpentAccepted
  <2>2. CASE Exhausted(e)
    <3>1. PICK w \in Worker :
            Fail(w) /\ e = Attempted(cur[w], cur[w].attempts + 1, cur[w].at)
      BY <2>2 DEF Exhausted
    <3>2. cur[w] \in LiveEntries
      BY <3>1, LiveIff DEF Fail
    <3>3. e.job = cur[w].job
      BY <3>1 DEF Attempted
    <3> QED BY <1>0, <1>2, <3>2, <3>3 DEF EntriesOK, WellFormed
  <2> QED BY <1>0, <2>1, <2>2, SpentStep
<1> QED BY <1>1, <1>3 DEF LedgerInv, SpentAccepted

(* Whatever entry a goroutine or the ready list has, its job was accepted. *)
LEMMA HeldAccepted ==
  ASSUME LedgerInv
  PROVE  /\ accepted \subseteq Job
         /\ \A w \in Worker : pc[w] \in InHand => cur[w].job \in accepted
         /\ ready # <<>> => Head(ready).job \in accepted
<1>0. TypeOK /\ EntriesOK /\ SpentAccepted
  BY DEF LedgerInv, QueueInv
<1>1. ASSUME NEW w \in Worker, pc[w] \in InHand
      PROVE  cur[w].job \in accepted
  <2>1. CASE pc[w] = "bury"
    BY <1>0, <2>1, SpentIff DEF SpentAccepted
  <2>2. CASE pc[w] # "bury"
    <3>1. cur[w] \in LiveEntries
      BY <1>1, <2>2, LiveIff DEF InHand
    <3> QED BY <1>0, <3>1 DEF EntriesOK, WellFormed
  <2> QED BY <2>1, <2>2
<1>2. ASSUME ready # <<>>
      PROVE  Head(ready).job \in accepted
  <2>1. Head(ready) \in Elems(ready)
    <3>1. ready \in Seq(Entry)
      BY <1>0 DEF TypeOK
    <3> QED BY <1>2, <3>1, ElemsTail
  <2>2. Head(ready) \in LiveEntries
    BY <2>1, LiveIff
  <2> QED BY <1>0, <2>2 DEF EntriesOK, WellFormed
<1> QED BY <1>0, <1>1, <1>2 DEF TypeOK

(* What each step of the queue is in the ledger.                           *)
LEMMA LedgerStep ==
  ASSUME LedgerInv, [Next]_vars
  PROVE  [Ledger!Next]_(Ledger!vars)
<1> USE DEF redisVars, goVars, history
<1>0. TypeOK /\ EntriesOK /\ AttemptsEarned /\ SpentAccepted
  BY DEF LedgerInv, QueueInv
<1>a. /\ accepted \subseteq Job
      /\ \A w \in Worker : pc[w] \in InHand => cur[w].job \in accepted
      /\ ready # <<>> => Head(ready).job \in accepted
  BY HeldAccepted
<1>1. ASSUME NEW j \in Job, Enqueue(j)
      PROVE  Ledger!Submit(j)
  BY <1>1 DEF Enqueue, Ledger!Submit
<1>2. ASSUME NEW w \in Worker, Fail(w)
      PROVE  \E j \in Job, n \in 1..MaxAttempts : Ledger!Fail(j, n)
  <2> DEFINE j == cur[w].job
             n == cur[w].attempts + 1
  <2>1. pc[w] = "run" /\ cur[w] \in LiveEntries
    BY <1>2, LiveIff DEF Fail
  <2>2. cur[w].attempts \in Nat /\ j \in Job /\ j \in accepted
    BY <1>0, <2>1 DEF EntriesOK, WellFormed, Entry
  <2>3. cur[w].attempts < MaxAttempts /\ 1..cur[w].attempts \subseteq failed[j]
    BY <1>0, <2>1 DEF AttemptsEarned
  <2>a. MaxAttempts \in Nat
    BY JobQueueAssumption
  <2>4. n \in 1..MaxAttempts /\ n - 1 = cur[w].attempts
    BY <2>2, <2>3, <2>a
  <2>5. Ledger!Fail(j, n)
    BY <1>2, <2>2, <2>3, <2>4 DEF Fail, Ledger!Fail
  <2> QED BY <2>2, <2>4, <2>5
<1>3. ASSUME NEW w \in Worker, Succeed(w)
      PROVE  \E j \in Job : Ledger!Complete(j)
  BY <1>a, <1>3 DEF Succeed, Ledger!Complete, InHand
<1>4. ASSUME NEW w \in Worker, Bury(w)
      PROVE  \E j \in Job : Ledger!Bury(j)
  <2>1. cur[w] \in SpentEntries /\ cur[w].job \in accepted /\ cur[w].job \in Job
    BY <1>a, <1>4, SpentIff DEF Bury, InHand
  <2>2. 1..MaxAttempts \subseteq failed[cur[w].job]
    BY <1>0, <2>1 DEF AttemptsEarned
  <2>3. failed[cur[w].job] = 1..MaxAttempts
    BY <1>0, <2>1, <2>2 DEF TypeOK
  <2>4. {e.job : e \in dead \cup {cur[w]}} = {e.job : e \in dead} \cup {cur[w].job}
    OBVIOUS
  <2> QED BY <1>4, <2>1, <2>3, <2>4 DEF Bury, Ledger!Bury
<1>5. ASSUME NEW js \in SUBSET accepted, givenUp' = givenUp \cup js,
             UNCHANGED <<accepted, failed, completed, dead>>
      PROVE  \E ks \in SUBSET Job : Ledger!Drop(ks)
  BY <1>a, <1>5 DEF Ledger!Drop
<1>6. ASSUME UNCHANGED <<accepted, failed, completed, dead, givenUp>>
      PROVE  UNCHANGED Ledger!vars
  BY <1>6 DEF Ledger!vars
<1>7. ASSUME NEW w \in Worker, Step(w) \/ RedisFails(w), ~Fail(w), ~Succeed(w), ~Bury(w)
      PROVE  /\ UNCHANGED <<accepted, failed, completed, dead>>
             /\ \/ UNCHANGED givenUp
                \/ \E j \in accepted : givenUp' = givenUp \cup {j}
  <2>1. CASE Pop(w)
    BY <1>a, <2>1 DEF Pop, Dispatch
  <2>2. CASE Refused(w)
    BY <1>a, <2>2 DEF Refused, Abandon, LetGo, InHand
  <2>3. CASE RedisFails(w)
    BY <1>a, <2>3 DEF RedisFails, Abandon, LetGo, InHand
  <2>4. CASE \/ Exit(w) \/ ReadDue(w) \/ PushDue(w) \/ RemDue(w)
             \/ PopTimeout(w) \/ Delay(w)
    BY <2>4 DEF Exit, ReadDue, PushDue, RemDue, PopTimeout, Delay
  <2> QED BY <1>7, <2>1, <2>2, <2>3, <2>4 DEF Step
<1>8. ASSUME NEW p \in Pool, Crash(p)
      PROVE  /\ UNCHANGED <<accepted, failed, completed, dead>>
             /\ \E js \in SUBSET accepted : givenUp' = givenUp \cup js
  <2> DEFINE js == {j \in Job : \E w \in {v \in Worker : PoolOf[v] = p} : Holds(w, j)}
  <2>1. js \subseteq accepted
    BY <1>a DEF Holds
  <2> QED BY <1>8, <2>1 DEF Crash
<1>9. ASSUME NEW p \in Pool, Stop(p) \/ Restart(p)
      PROVE  UNCHANGED <<accepted, failed, completed, dead, givenUp>>
  BY <1>9 DEF Stop, Restart
<1>10. CASE Tick \/ UNCHANGED vars
  BY <1>6, <1>10 DEF Tick, vars
<1>11. CASE \E w \in Worker : Step(w) \/ RedisFails(w)
  <2>1. PICK w \in Worker : Step(w) \/ RedisFails(w)
    BY <1>11
  <2>2. CASE Fail(w) \/ Succeed(w) \/ Bury(w)
    BY <1>2, <1>3, <1>4, <2>2 DEF Ledger!Next
  <2>3. CASE ~Fail(w) /\ ~Succeed(w) /\ ~Bury(w)
    <3>1. /\ UNCHANGED <<accepted, failed, completed, dead>>
          /\ \/ UNCHANGED givenUp
             \/ \E js \in SUBSET accepted : givenUp' = givenUp \cup js
      BY <1>7, <2>1, <2>3
    <3> QED BY <1>5, <1>6, <3>1 DEF Ledger!Next
  <2> QED BY <2>2, <2>3
<1>12. CASE \E p \in Pool : Crash(p) \/ Stop(p) \/ Restart(p)
  <2>1. PICK p \in Pool : Crash(p) \/ Stop(p) \/ Restart(p)
    BY <1>12
  <2>2. CASE Crash(p)
    BY <1>5, <1>8, <2>2 DEF Ledger!Next
  <2>3. CASE Stop(p) \/ Restart(p)
    BY <1>6, <1>9, <2>3
  <2> QED BY <2>1, <2>2, <2>3
<1>13. CASE \E j \in Job : Enqueue(j)
  BY <1>1, <1>13 DEF Ledger!Next
<1> QED BY <1>10, <1>11, <1>12, <1>13 DEF Next

(* The queue goes through the steps of the ledger, for any jobs, workers,  *)
(* processes, clocks and disruptions.                                      *)
THEOREM QueueImplementsLedger == Spec => ImplementsLedger
<1>1. Init => Ledger!Init
  BY DEF Init, Ledger!Init
<1>2. Init => LedgerInv
  BY LedgerInvInit
<1>3. LedgerInv /\ [Next]_vars => LedgerInv'
  BY LedgerInvStep
<1>4. LedgerInv /\ [Next]_vars => [Ledger!Next]_(Ledger!vars)
  BY LedgerStep
<1> QED BY <1>1, <1>2, <1>3, <1>4, PTL DEF Spec, ImplementsLedger, Ledger!Spec


-----------------------------------------------------------------------------
(* The intake.                                                             *)

HIDE JobQueueAssumption
USE WebhookAssumption

(* The invariant of the intake.                                            *)

(* Requests that have passed dedup with MessageID k and have no job yet.   *)
Passed(k) == {r \in Request : stage[r] = "enqueue" /\ Id(r) = k}

(* Every pass is paid for: by the key that exists, by one that expired, or *)
(* by a failure of Redis.                                                  *)
PassesEarned ==
  \A k \in MsgId :
    queued[k] + Cardinality(Passed(k))
      <= expired[k] + opened[k] + (IF k \in seen THEN 1 ELSE 0)

(* Whoever meets a key, or is about to answer 200, leaves nothing behind   *)
(* that nobody claims.                                                     *)
Settled(e) == jobs[e] > 0 \/ (MessageID[e] # NoId /\ Claimed(MessageID[e]))

KeysClaimed ==
  /\ \A k \in seen : Claimed(k)
  /\ \A r \in Request : stage[r] = "reply" /\ code[r] = 200 => Settled(ev[r])
  /\ \A e \in acked : Settled(e)

IntakeInv == HookTypeOK /\ KeysClaimed /\ PassesEarned

-----------------------------------------------------------------------------
(* The types of the intake.                                                *)

LEMMA HookTypeInit == HookInit => HookTypeOK
BY DEF HookInit, HookTypeOK

LEMMA HookTypeStep ==
  ASSUME HookTypeOK, [HookNext]_hookVars
  PROVE  HookTypeOK'
<1> USE DEF HookTypeOK, hookRedisVars, reqVars, postmarkVars, hookHistory
<1>0. \A r \in Request : stage[r] # "idle" => ev[r] \in Event /\ Id(r) \in MsgId \cup {NoId}
  BY DEF Id
<1>1. ASSUME NEW e \in Event, NEW r \in Request, Post(e, r)
      PROVE  HookTypeOK'
  BY <1>1 DEF Post
<1>2. ASSUME NEW r \in Request, Verify(r)
      PROVE  HookTypeOK'
  BY <1>2 DEF Verify
<1>3. ASSUME NEW r \in Request, Reject(r)
      PROVE  HookTypeOK'
  BY <1>3 DEF Reject, Answer, Disturb
<1>4. ASSUME NEW r \in Request, Dedup(r)
      PROVE  HookTypeOK'
  <2>0. UNCHANGED <<jobs, postmarkVars, disturbed, expired, hookHistory>>
    BY <1>4 DEF Dedup
  <2>1. stage[r] = "dedup" /\ Id(r) \in MsgId \cup {NoId}
    BY <1>0, <1>4 DEF Dedup
  <2>2. CASE Answer(r, 200) /\ UNCHANGED <<seen, granted>>
    <3>1. /\ stage' \in [Request -> {"idle", "verify", "dedup", "enqueue", "reply"}]
          /\ code' \in [Request -> {0, 200, 401, 500}]
          /\ \A q \in Request : stage'[q] = IF q = r THEN "reply" ELSE stage[q]
      BY <2>2 DEF Answer
    <3>2. UNCHANGED <<ev, gone, seen, granted>>
      BY <2>2 DEF Answer
    <3>3. \A q \in Request : granted'[q] => stage'[q] = "enqueue"
      BY <2>1, <3>1, <3>2
    <3>4. granted' \in [Request -> BOOLEAN] /\ gone' \in [Request -> BOOLEAN]
      BY <3>2
    <3>5. \A q \in Request : stage'[q] = "idle" <=> ev'[q] = NoEvent
      BY <2>1, <3>1, <3>2
    <3> QED BY <2>0, <3>1, <3>2, <3>3, <3>4, <3>5
  <2>3. CASE /\ stage' = [stage EXCEPT ![r] = "enqueue"]
             /\ UNCHANGED <<ev, code, gone>>
             /\ \/ UNCHANGED <<seen, granted>>
                \/ /\ Id(r) \in MsgId
                   /\ seen' = seen \cup {Id(r)}
                   /\ granted' = [granted EXCEPT ![r] = TRUE]
    <3>1. /\ stage' \in [Request -> {"idle", "verify", "dedup", "enqueue", "reply"}]
          /\ \A q \in Request : stage'[q] = IF q = r THEN "enqueue" ELSE stage[q]
      BY <2>3
    <3>2. granted' = granted \/ granted' = [granted EXCEPT ![r] = TRUE]
      BY <2>3
    <3>3. granted' \in [Request -> BOOLEAN] /\ seen' \subseteq MsgId
      <4>1. granted' \in [Request -> BOOLEAN]
        <5>1. CASE granted' = granted
          BY <5>1
        <5>2. CASE granted' = [granted EXCEPT ![r] = TRUE]
          BY <5>2
        <5> QED BY <3>2, <5>1, <5>2
      <4>2. seen' = seen \/ (Id(r) \in MsgId /\ seen' = seen \cup {Id(r)})
        BY <2>3
      <4> QED BY <4>1, <4>2
    <3>4. \A q \in Request : granted'[q] => granted[q] \/ q = r
      BY <3>2
    <3>5. UNCHANGED <<jobs, ev, code, gone, tries, acked, disturbed, expired, queued,
                      opened, wasted>>
      BY <2>0, <2>3
    <3> QED BY <2>1, <3>1, <3>3, <3>4, <3>5
  <2> QED BY <1>4, <2>2, <2>3 DEF Dedup
<1>5. ASSUME NEW r \in Request, DedupFails(r)
      PROVE  HookTypeOK'
  <2>1. stage[r] = "dedup" /\ Id(r) \in MsgId
    BY <1>0, <1>5 DEF DedupFails
  <2>2. opened' \in [MsgId -> Nat] /\ seen' \subseteq MsgId
    BY <1>5, <2>1 DEF DedupFails
  <2>3. disturbed' \in 0..MaxDisturbances
    BY <1>5 DEF DedupFails, Disturb
  <2>4. granted' = granted \/ granted' = [granted EXCEPT ![r] = TRUE]
    BY <1>5 DEF DedupFails
  <2>5. /\ stage' = [stage EXCEPT ![r] = "enqueue"]
        /\ UNCHANGED <<jobs, ev, code, gone, postmarkVars, expired, queued, wasted>>
    BY <1>5 DEF DedupFails
  <2>6. /\ stage' \in [Request -> {"idle", "verify", "dedup", "enqueue", "reply"}]
        /\ granted' \in [Request -> BOOLEAN]
        /\ \A q \in Request : stage'[q] = IF q = r THEN "enqueue" ELSE stage[q]
        /\ \A q \in Request : granted'[q] => granted[q] \/ q = r
    <3>1. granted' \in [Request -> BOOLEAN]
      <4>1. CASE granted' = granted
        BY <4>1
      <4>2. CASE granted' = [granted EXCEPT ![r] = TRUE]
        BY <4>2
      <4> QED BY <2>4, <4>1, <4>2
    <3>2. \A q \in Request : granted'[q] => granted[q] \/ q = r
      BY <2>4
    <3>3. /\ stage' \in [Request -> {"idle", "verify", "dedup", "enqueue", "reply"}]
          /\ \A q \in Request : stage'[q] = IF q = r THEN "enqueue" ELSE stage[q]
      BY <2>5
    <3> QED BY <3>1, <3>2, <3>3
  <2> QED BY <2>1, <2>2, <2>3, <2>5, <2>6
<1>6. ASSUME NEW r \in Request, HookEnqueue(r)
      PROVE  HookTypeOK'
  BY <1>0, <1>6 DEF HookEnqueue, Push, Answer
<1>7. ASSUME NEW r \in Request, EnqueueFails(r)
      PROVE  HookTypeOK'
  BY <1>0, <1>7 DEF EnqueueFails, Push, NoPush, Answer, Disturb
<1>8. ASSUME NEW r \in Request, Reply(r)
      PROVE  HookTypeOK'
  BY <1>0, <1>8 DEF Reply
<1>9. ASSUME NEW r \in Request, HangUp(r)
      PROVE  HookTypeOK'
  BY <1>9 DEF HangUp, Disturb
<1>10. CASE ServerCrash
  BY <1>10 DEF ServerCrash, Disturb
<1>11. ASSUME NEW k \in MsgId, Expire(k)
       PROVE  HookTypeOK'
  BY <1>11 DEF Expire
<1>12. CASE UNCHANGED hookVars
  BY <1>12 DEF hookVars
<1> QED
  BY <1>1, <1>2, <1>3, <1>4, <1>5, <1>6, <1>7, <1>8, <1>9, <1>10, <1>11, <1>12
  DEF HookNext
-----------------------------------------------------------------------------
(* Nothing is swallowed.                                                   *)

(* A MessageID stays claimed: a job is never taken back, and an owner of a *)
(* key that ends without a job is on record.                               *)
LEMMA ClaimedStep ==
  ASSUME HookTypeOK, [HookNext]_hookVars, NEW k \in MsgId, Claimed(k)
  PROVE  Claimed(k)'
<1> USE DEF HookTypeOK, hookRedisVars, reqVars, postmarkVars, hookHistory
<1>1. ASSUME \A e \in Event : jobs[e] > 0 => jobs'[e] > 0,
             wasted \subseteq wasted',
             \A q \in Request : granted[q] /\ Id(q) = k =>
               (granted[q] /\ Id(q) = k)' \/ Claimed(k)'
      PROVE  Claimed(k)'
  BY <1>1 DEF Claimed
<1>2. ASSUME NEW r \in Request, Push(r), stage[r] = "enqueue"
      PROVE  /\ \A e \in Event : jobs[e] > 0 => jobs'[e] > 0
             /\ Id(r) = k => Claimed(k)'
  <2>1. ev[r] \in Event
    BY <1>2
  <2>2. \A e \in Event : jobs'[e] = IF e = ev[r] THEN jobs[e] + 1 ELSE jobs[e]
    BY <1>2, <2>1 DEF Push
  <2>3. jobs'[ev[r]] > 0
    BY <2>1, <2>2
  <2> QED BY <2>1, <2>2, <2>3 DEF Claimed, Id
<1>3. ASSUME NEW r \in Request, NoPush(r), granted[r], Id(r) = k
      PROVE  Claimed(k)'
  BY <1>3 DEF NoPush, Claimed
<1>4. ASSUME NEW r \in Request, HookEnqueue(r) \/ EnqueueFails(r)
      PROVE  Claimed(k)'
  <2>1. \A e \in Event : jobs[e] > 0 => jobs'[e] > 0
    BY <1>2, <1>4 DEF HookEnqueue, EnqueueFails, NoPush
  <2>2. wasted \subseteq wasted'
    BY <1>4 DEF HookEnqueue, EnqueueFails, Push, NoPush
  <2>3. \A q \in Request \ {r} : granted'[q] = granted[q] /\ Id(q)' = Id(q)
    BY <1>4 DEF HookEnqueue, EnqueueFails, Answer, Id
  <2>4. granted[r] /\ Id(r) = k => Claimed(k)'
    BY <1>2, <1>3, <1>4 DEF HookEnqueue, EnqueueFails
  <2> QED BY <1>1, <2>1, <2>2, <2>3, <2>4
<1>5. ASSUME NEW r \in Request, Reply(r)
      PROVE  Claimed(k)'
  <2>1. \A q \in Request : granted[q] => granted'[q] /\ Id(q)' = Id(q)
    BY <1>5 DEF Reply, Id
  <2> QED BY <1>1, <1>5, <2>1 DEF Reply
<1>6. ASSUME NEW r \in Request, NEW e \in Event, Post(e, r)
      PROVE  Claimed(k)'
  <2>1. \A q \in Request : granted[q] => granted'[q] /\ Id(q)' = Id(q)
    BY <1>6 DEF Post, Id
  <2> QED BY <1>1, <1>6, <2>1 DEF Post
<1>7. ASSUME NEW r \in Request,
             Verify(r) \/ Reject(r) \/ Dedup(r) \/ DedupFails(r) \/ HangUp(r)
      PROVE  Claimed(k)'
  <2>1. ev' = ev /\ \A q \in Request : granted[q] => granted'[q]
    BY <1>7 DEF Verify, Reject, Dedup, DedupFails, HangUp, Answer
  <2>2. UNCHANGED <<jobs, wasted>>
    BY <1>7 DEF Verify, Reject, Dedup, DedupFails, HangUp
  <2> QED BY <1>1, <2>1, <2>2 DEF Id
<1>8. CASE ServerCrash
  <2>1. \A q \in Request : granted[q] /\ Id(q) = k => k \in wasted'
    BY <1>8 DEF ServerCrash
  <2> QED BY <1>1, <1>8, <2>1 DEF ServerCrash, Claimed
<1>9. CASE (\E l \in MsgId : Expire(l)) \/ UNCHANGED hookVars
  <2>1. UNCHANGED <<jobs, wasted, granted, ev>>
    BY <1>9 DEF Expire, hookVars
  <2> QED BY <2>1 DEF Claimed, Id
<1> QED
  BY <1>4, <1>5, <1>6, <1>7, <1>8, <1>9 DEF HookNext

(* An event stays settled.                                                 *)
LEMMA SettledStep ==
  ASSUME HookTypeOK, [HookNext]_hookVars, NEW e \in Event, Settled(e)
  PROVE  Settled(e)'
<1>1. CASE MessageID[e] # NoId /\ Claimed(MessageID[e])
  <2>1. PICK k \in MsgId : k = MessageID[e]
    BY <1>1
  <2> QED BY <1>1, <2>1, ClaimedStep DEF Settled
<1>2. CASE jobs[e] > 0
  <2>1. jobs' = jobs \/ \E r \in Request : stage[r] = "enqueue" /\ Push(r)
    BY DEF HookNext, hookVars, hookRedisVars, hookHistory, Post, Verify, Reject, Dedup, DedupFails,
           HookEnqueue, EnqueueFails, NoPush, Reply, HangUp, ServerCrash, Expire
  <2>2. ASSUME NEW r \in Request, stage[r] = "enqueue", Push(r)
        PROVE  jobs'[e] > 0
    BY <1>2, <2>2 DEF Push, HookTypeOK
  <2> QED BY <1>2, <2>1, <2>2 DEF Settled
<1> QED BY <1>1, <1>2 DEF Settled

LEMMA KeysClaimedStep ==
  ASSUME HookTypeOK, KeysClaimed, [HookNext]_hookVars
  PROVE  KeysClaimed'
<1> USE DEF HookTypeOK, hookRedisVars, reqVars, postmarkVars, hookHistory
<1>1. HookTypeOK'
  BY HookTypeStep
<1>2. ASSUME NEW k \in seen'
      PROVE  Claimed(k)'
  <2>1. CASE k \in seen
    BY <2>1, ClaimedStep DEF KeysClaimed
  <2>2. CASE k \notin seen
    <3>1. PICK r \in Request : granted'[r] /\ Id(r)' = k
      <4>1. PICK r \in Request : (Dedup(r) \/ DedupFails(r)) /\ seen' # seen
        BY <1>2, <2>2 DEF HookNext, hookVars, Post, Verify, Reject, HookEnqueue, EnqueueFails,
             Reply, HangUp, ServerCrash, Expire
      <4>2. seen' = seen \cup {Id(r)} /\ granted' = [granted EXCEPT ![r] = TRUE] /\ ev' = ev
        BY <4>1 DEF Dedup, DedupFails
      <4> QED BY <1>2, <2>2, <4>2 DEF Id
    <3> QED BY <3>1 DEF Claimed
  <2> QED BY <2>1, <2>2
<1>3. ASSUME NEW r \in Request, stage'[r] = "reply", code'[r] = 200
      PROVE  Settled(ev[r])' /\ ev'[r] = ev[r]
  <2>1. CASE stage[r] = "reply" /\ code[r] = 200 /\ ev'[r] = ev[r]
    <3>1. ev[r] \in Event /\ Settled(ev[r])
      BY <2>1 DEF KeysClaimed
    <3>2. PICK e \in Event : e = ev[r]
      BY <3>1
    <3>3. Settled(e)'
      BY <3>1, <3>2, SettledStep
    <3> QED BY <2>1, <3>2, <3>3
  <2>2. CASE Dedup(r) /\ Id(r) \in seen /\ Answer(r, 200)
    <3>1. PICK k \in MsgId : k = Id(r) /\ Claimed(k)
      BY <2>2 DEF KeysClaimed
    <3>2. Claimed(k)'
      BY <3>1, ClaimedStep
    <3> QED BY <2>2, <3>1, <3>2 DEF Settled, Id, Answer
  <2>3. CASE HookEnqueue(r)
    <3>1. ev[r] \in Event
      BY <2>3 DEF HookEnqueue
    <3>2. jobs'[ev[r]] > 0 /\ ev' = ev
      BY <2>3, <3>1 DEF HookEnqueue, Push, Answer
    <3> QED BY <3>2 DEF Settled
  <2>4. \/ stage[r] = "reply" /\ code[r] = 200 /\ ev'[r] = ev[r]
        \/ Dedup(r) /\ Id(r) \in seen /\ Answer(r, 200)
        \/ HookEnqueue(r)
    BY <1>3 DEF HookNext, hookVars, Post, Verify, Reject, Dedup, DedupFails, HookEnqueue,
         EnqueueFails, Answer, Reply, HangUp, ServerCrash, Expire
  <2> QED BY <2>1, <2>2, <2>3, <2>4
<1>4. ASSUME NEW e \in acked'
      PROVE  Settled(e)'
  <2>1. e \in Event
    BY <1>1, <1>4
  <2>2. CASE e \in acked
    BY <2>1, <2>2, SettledStep DEF KeysClaimed
  <2>3. CASE e \notin acked
    <3>1. PICK r \in Request : Reply(r) /\ code[r] = 200 /\ e = ev[r]
      BY <1>4, <2>3 DEF HookNext, hookVars, Post, Verify, Reject, Dedup, DedupFails,
           HookEnqueue, EnqueueFails, Reply, HangUp, ServerCrash, Expire
    <3>2. Settled(e)
      BY <3>1 DEF KeysClaimed, Reply
    <3> QED BY <2>1, <3>2, SettledStep
  <2> QED BY <2>2, <2>3
<1>5. \A r \in Request : (stage[r] = "reply" /\ code[r] = 200 => Settled(ev[r]))'
  <2> SUFFICES ASSUME NEW r \in Request, stage'[r] = "reply", code'[r] = 200
               PROVE  Settled(ev[r])'
    OBVIOUS
  <2> QED BY <1>3
<1> QED BY <1>2, <1>4, <1>5 DEF KeysClaimed

-----------------------------------------------------------------------------
(* Every job is earned.                                                    *)

LEMMA PassedFinite ==
  ASSUME NEW k
  PROVE  IsFiniteSet(Passed(k)) /\ Cardinality(Passed(k)) \in Nat
<1>1. Passed(k) \subseteq Request
  BY DEF Passed
<1> QED BY <1>1, FS_Subset, FS_CardinalityType

(* A step that starts or ends no pass.                                     *)
LEMMA PassedSame ==
  ASSUME NEW k,
         \A q \in Request : stage'[q] = "enqueue" <=> stage[q] = "enqueue",
         \A q \in Request : stage[q] = "enqueue" => ev'[q] = ev[q]
  PROVE  Passed(k)' = Passed(k)
BY DEF Passed, Id

(* Request r passes.                                                       *)
LEMMA PassedMore ==
  ASSUME NEW k, NEW r \in Request, HookTypeOK, stage[r] # "enqueue",
         stage' = [stage EXCEPT ![r] = "enqueue"], ev' = ev
  PROVE  Cardinality(Passed(k))'
           = Cardinality(Passed(k)) + (IF Id(r) = k THEN 1 ELSE 0)
<1>1. CASE Id(r) = k
  <2>1. Passed(k)' = Passed(k) \cup {r} /\ r \notin Passed(k)
    BY <1>1 DEF Passed, Id, HookTypeOK
  <2> QED BY <1>1, <2>1, PassedFinite, FS_AddElement
<1>2. CASE Id(r) # k
  <2>1. Passed(k)' = Passed(k)
    BY <1>2 DEF Passed, Id, HookTypeOK
  <2> QED BY <1>2, <2>1, PassedFinite
<1> QED BY <1>1, <1>2

(* Request r is done with its pass.                                        *)
LEMMA PassedLess ==
  ASSUME NEW k, NEW r \in Request, HookTypeOK, stage[r] = "enqueue",
         stage' = [stage EXCEPT ![r] = "reply"], ev' = ev
  PROVE  Cardinality(Passed(k))'
           = Cardinality(Passed(k)) - (IF Id(r) = k THEN 1 ELSE 0)
<1>1. CASE Id(r) = k
  <2>1. Passed(k)' = Passed(k) \ {r} /\ r \in Passed(k)
    BY <1>1 DEF Passed, Id, HookTypeOK
  <2>2. Cardinality(Passed(k) \ {r}) = Cardinality(Passed(k)) - 1
    BY <2>1, PassedFinite, FS_RemoveElement
  <2> QED BY <1>1, <2>1, <2>2
<1>2. CASE Id(r) # k
  <2>1. Passed(k)' = Passed(k)
    BY <1>2 DEF Passed, Id, HookTypeOK
  <2> QED BY <1>2, <2>1, PassedFinite
<1> QED BY <1>1, <1>2

LEMMA PassesEarnedStep ==
  ASSUME HookTypeOK, PassesEarned, [HookNext]_hookVars
  PROVE  PassesEarned'
<1> USE DEF HookTypeOK, hookRedisVars, reqVars, postmarkVars, hookHistory
<1> SUFFICES ASSUME NEW k \in MsgId
             PROVE  (queued[k] + Cardinality(Passed(k))
                       <= expired[k] + opened[k] + (IF k \in seen THEN 1 ELSE 0))'
  BY DEF PassesEarned
<1> DEFINE c == Cardinality(Passed(k))
           One(b) == IF b THEN 1 ELSE 0
<1>0. /\ c \in Nat /\ c' \in Nat
      /\ queued[k] \in Nat /\ expired[k] \in Nat /\ opened[k] \in Nat
      /\ queued[k] + c <= expired[k] + opened[k] + One(k \in seen)
  <2>1. c' \in Nat
    <3>1. Passed(k)' \subseteq Request
      BY DEF Passed
    <3> QED BY <3>1, FS_Subset, FS_CardinalityType
  <2> QED BY <2>1, PassedFinite DEF PassesEarned
<1>1. ASSUME c' <= c, queued' = queued, expired' = expired, opened' = opened, seen' = seen
      PROVE  queued'[k] + c' <= expired'[k] + opened'[k] + One(k \in seen')
  BY <1>0, <1>1
<1>2. ASSUME NEW r \in Request, Verify(r) \/ Reject(r) \/ HangUp(r) \/ Reply(r)
                                \/ \E e \in Event : Post(e, r)
      PROVE  queued'[k] + c' <= expired'[k] + opened'[k] + One(k \in seen')
  <2>1. Passed(k)' = Passed(k)
    <3>1. \A q \in Request : stage'[q] = "enqueue" <=> stage[q] = "enqueue"
      BY <1>2 DEF Verify, Reject, HangUp, Reply, Post, Answer
    <3>2. \A q \in Request : stage[q] = "enqueue" => ev'[q] = ev[q]
      BY <1>2 DEF Verify, Reject, HangUp, Reply, Post, Answer
    <3> QED BY <3>1, <3>2, PassedSame
  <2>2. UNCHANGED <<queued, expired, opened, seen>>
    BY <1>2 DEF Verify, Reject, HangUp, Reply, Post
  <2> QED BY <1>0, <1>1, <2>1, <2>2
<1>3. ASSUME NEW r \in Request, Dedup(r)
      PROVE  queued'[k] + c' <= expired'[k] + opened'[k] + One(k \in seen')
  <2>1. UNCHANGED <<queued, expired, opened>> /\ stage[r] = "dedup"
    BY <1>3 DEF Dedup
  <2>2. CASE Answer(r, 200) /\ seen' = seen
    <3>1. Passed(k)' = Passed(k)
      BY <2>1, <2>2, PassedSame DEF Answer
    <3> QED BY <1>0, <1>1, <2>1, <2>2, <3>1
  <2>3. CASE /\ stage' = [stage EXCEPT ![r] = "enqueue"] /\ ev' = ev
             /\ \/ Id(r) = NoId /\ seen' = seen
                \/ Id(r) \in MsgId \ seen /\ seen' = seen \cup {Id(r)}
    <3>1. c' = c + One(Id(r) = k)
      BY <2>1, <2>3, PassedMore
    <3>2. One(k \in seen') = One(k \in seen) + One(Id(r) = k)
      BY <2>3
    <3> QED BY <1>0, <2>1, <3>1, <3>2
  <2> QED BY <1>3, <2>2, <2>3 DEF Dedup
<1>4. ASSUME NEW r \in Request, DedupFails(r)
      PROVE  queued'[k] + c' <= expired'[k] + opened'[k] + One(k \in seen')
  <2>1. /\ UNCHANGED <<queued, expired, ev>> /\ stage[r] = "dedup"
        /\ stage' = [stage EXCEPT ![r] = "enqueue"]
        /\ opened' = [opened EXCEPT ![Id(r)] = @ + 1]
        /\ seen \subseteq seen'
    BY <1>4 DEF DedupFails
  <2>2. c' = c + One(Id(r) = k)
    BY <2>1, PassedMore
  <2>3. opened'[k] = opened[k] + One(Id(r) = k)
    BY <2>1
  <2>4. One(k \in seen) <= One(k \in seen')
    BY <2>1
  <2> QED BY <1>0, <2>1, <2>2, <2>3, <2>4
<1>5. ASSUME NEW r \in Request, HookEnqueue(r) \/ EnqueueFails(r)
      PROVE  queued'[k] + c' <= expired'[k] + opened'[k] + One(k \in seen')
  <2>1. /\ UNCHANGED <<seen, expired, opened, ev>> /\ stage[r] = "enqueue"
        /\ stage' = [stage EXCEPT ![r] = "reply"]
        /\ Push(r) \/ NoPush(r)
    BY <1>5 DEF HookEnqueue, EnqueueFails, Answer
  <2>2. c' = c - One(Id(r) = k)
    BY <2>1, PassedLess
  <2>3. queued'[k] <= queued[k] + One(Id(r) = k) /\ queued'[k] \in Nat
    BY <1>0, <2>1 DEF Push, NoPush
  <2> QED BY <1>0, <2>1, <2>2, <2>3
<1>6. CASE ServerCrash
  <2>1. Passed(k)' = {}
    BY <1>6 DEF ServerCrash, Passed
  <2>2. c' = 0
    BY <2>1, FS_EmptySet
  <2>3. UNCHANGED <<queued, expired, opened, seen>>
    BY <1>6 DEF ServerCrash
  <2> QED BY <1>0, <1>1, <2>2, <2>3
<1>7. ASSUME NEW l \in MsgId, Expire(l)
      PROVE  queued'[k] + c' <= expired'[k] + opened'[k] + One(k \in seen')
  <2>1. /\ UNCHANGED <<queued, opened, stage, ev>> /\ seen' = seen \ {l}
        /\ l \in seen /\ expired' = [expired EXCEPT ![l] = @ + 1]
    BY <1>7 DEF Expire
  <2>2. c' = c
    BY <2>1, PassedSame
  <2>3. expired'[k] + One(k \in seen') = expired[k] + One(k \in seen)
    BY <1>0, <2>1
  <2>4. expired'[k] \in Nat
    BY <1>0, <2>1
  <2> QED BY <1>0, <2>1, <2>2, <2>3, <2>4
<1>8. CASE UNCHANGED hookVars
  <2>1. Passed(k)' = Passed(k) /\ UNCHANGED <<queued, expired, opened, seen>>
    BY <1>8, PassedSame DEF hookVars
  <2> QED BY <1>0, <1>1, <2>1
<1> QED
  BY <1>2, <1>3, <1>4, <1>5, <1>6, <1>7, <1>8 DEF HookNext

-----------------------------------------------------------------------------

(* Every reachable state of the intake satisfies its invariant.            *)
THEOREM IntakeInvariant == HookSpec => []IntakeInv
<1>1. HookInit => IntakeInv
  <2> SUFFICES ASSUME HookInit PROVE IntakeInv
    OBVIOUS
  <2>1. KeysClaimed
    BY DEF HookInit, KeysClaimed
  <2>2. PassesEarned
    <3> SUFFICES ASSUME NEW k \in MsgId
                 PROVE  queued[k] + Cardinality(Passed(k))
                          <= expired[k] + opened[k] + (IF k \in seen THEN 1 ELSE 0)
      BY DEF PassesEarned
    <3>1. Passed(k) = {}
      BY DEF HookInit, Passed
    <3> QED BY <3>1, FS_EmptySet DEF HookInit
  <2> QED BY <2>1, <2>2, HookTypeInit DEF IntakeInv
<1>2. IntakeInv /\ [HookNext]_hookVars => IntakeInv'
  BY HookTypeStep, KeysClaimedStep, PassesEarnedStep DEF IntakeInv
<1> QED BY <1>1, <1>2, PTL DEF HookSpec

(* Every variable of the intake keeps its type.                            *)
THEOREM IntakeTypeCorrect == HookSpec => []HookTypeOK
<1>1. IntakeInv => HookTypeOK
  BY DEF IntakeInv
<1> QED BY <1>1, IntakeInvariant, PTL

(* No interleaving of requests, redeliveries, hang-ups, failed commands and*)
(* crashes queues a MessageID more often than keys expired and Redis failed*)
(* to answer.                                                              *)
THEOREM NoUnearnedDuplicate == HookSpec => []DuplicatesEarned
<1>1. IntakeInv => DuplicatesEarned
  <2> SUFFICES ASSUME IntakeInv, NEW k \in MsgId
               PROVE  queued[k] <= 1 + expired[k] + opened[k]
    BY DEF DuplicatesEarned
  <2>1. queued[k] + Cardinality(Passed(k))
          <= expired[k] + opened[k] + (IF k \in seen THEN 1 ELSE 0)
    BY DEF IntakeInv, PassesEarned
  <2>2. queued[k] \in Nat /\ expired[k] \in Nat /\ opened[k] \in Nat
    BY DEF IntakeInv, HookTypeOK
  <2> QED BY <2>1, <2>2, PassedFinite
<1> QED BY <1>1, IntakeInvariant, PTL

(* An acknowledged event is never swallowed for a reason other than the    *)
(* deduplication of its MessageID.                                         *)
THEOREM NoEventSwallowed == HookSpec => []AckedAccounted
<1>1. IntakeInv => AckedAccounted
  BY DEF IntakeInv, KeysClaimed, Settled, AckedAccounted
<1> QED BY <1>1, IntakeInvariant, PTL
=============================================================================
