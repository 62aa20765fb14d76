---------------------------- MODULE InboundProofs ----------------------------
(***************************************************************************)
(* Proofs about Inbound, for any mails, users, addresses, routing, lists,  *)
(* workers, number of attempts and disruptions.                            *)
(***************************************************************************)
EXTENDS Inbound, TLAPS, FiniteSetTheorems

USE InboundAssumption

-----------------------------------------------------------------------------
(* The parts of TypeOK.                                                    *)

TablesOK ==
  /\ alias \in [Address -> SUBSET User] /\ catchall \in User \cup {None}
  /\ listed \in [User -> [Subjects -> SUBSET Mail]]
  /\ box \subseteq Copy /\ spoiled \subseteq box
  /\ routings \in 0..MaxRoutings /\ disrupted \in 0..MaxDisruptions
  /\ finished \in [Mail -> SUBSET User]
  /\ misled \subseteq Mail /\ doubled \subseteq Mail
  /\ unlisted \subseteq Mail \X User /\ loose \subseteq Mail \X User

JobsOK == queue \subseteq Job /\ dead \subseteq Job

HandsOK ==
  /\ pc \in [Worker -> PC]
  /\ hand \in [Worker -> Job \cup {None}]
  /\ route \in [Worker -> SUBSET User] /\ left \in [Worker -> SUBSET User]
  /\ user \in [Worker -> User \cup {None}]
  /\ thread \in [Worker -> Subjects \cup {None}]
  /\ mine \in [Worker -> SUBSET box]

PlaceOK(w) ==
  /\ pc[w] # "idle" <=> hand[w] # None
  /\ pc[w] \in {"insert", "store"} => user[w] \in left[w]
  /\ left[w] \subseteq route[w]
  /\ \A c \in mine[w] : hand[w] # None /\ c.mail = Held(w)

LEMMA TypeParts ==
  TypeOK <=> TablesOK /\ JobsOK /\ HandsOK /\ \A w \in Worker : PlaceOK(w)
BY DEF TypeOK, TablesOK, JobsOK, HandsOK, PlaceOK

LEMMA HoldsJob ==
  ASSUME TypeOK, NEW w \in Worker, pc[w] # "idle"
  PROVE  hand[w] \in Job /\ Held(w) \in Mail /\ Title(w) \in Subjects
<1>1. hand[w] \in Job
  BY TypeParts DEF HandsOK, PlaceOK
<1> QED BY <1>1 DEF Job, Held, Title, Subjects

-----------------------------------------------------------------------------
(* A step moves one worker, or clears some.                                *)

Fixed(v) ==
  /\ pc'[v] = pc[v] /\ hand'[v] = hand[v] /\ route'[v] = route[v]
  /\ left'[v] = left[v] /\ user'[v] = user[v] /\ thread'[v] = thread[v]
  /\ mine'[v] = mine[v]

Cleared(v) ==
  /\ pc'[v] = "idle" /\ hand'[v] = None /\ route'[v] = {}
  /\ left'[v] = {} /\ user'[v] = None /\ thread'[v] = None
  /\ mine'[v] = {}

LEMMA DoneClears ==
  ASSUME HandsOK, NEW w \in Worker, Done(w)
  PROVE  Cleared(w) /\ \A v \in Worker \ {w} : Fixed(v)
BY DEF HandsOK, Done, GoTo, Cleared, Fixed

LEMMA OthersFixed ==
  ASSUME HandsOK, NEW w \in Worker, Step(w), NEW v \in Worker \ {w}
  PROVE  Fixed(v)
<1> USE DEF HandsOK, GoTo, Fixed, goVars, Serve
<1>1. CASE Done(w)
  BY <1>1, DoneClears
<1>2. CASE Take(w)
  BY <1>2 DEF Take
<1>3. CASE Resolve(w) \/ ResolveFails(w) \/ ResolveMisled(w)
  BY <1>3 DEF Resolve, ResolveFails, ResolveMisled, RouteTo
<1>4. CASE Judge(w) \/ JudgeMisled(w)
  BY <1>4 DEF Judge, JudgeMisled, Verdict
<1>5. ASSUME NEW u \in User, FindThread(w, u) \/ FindThreadFails(w, u)
      PROVE  Fixed(v)
  BY <1>5 DEF FindThread, FindThreadFails
<1>6. CASE InsertThread(w) \/ InsertThreadTooLong(w) \/ InsertThreadFails(w)
  BY <1>6 DEF InsertThread, InsertThreadTooLong, InsertThreadFails
<1>7. CASE Store(w)
  BY <1>7 DEF Store, Put, NextUser
<1>8. CASE StoreFails(w)
  BY <1>8 DEF StoreFails, Put
<1>9. CASE Fail(w) \/ FailFails(w) \/ Finish(w)
  BY <1>1, <1>9 DEF Fail, FailFails, Finish
<1> QED BY <1>2, <1>3, <1>4, <1>5, <1>6, <1>7, <1>8, <1>9 DEF Step

(* A step is that of a worker, a crash, or leaves the workers alone.       *)
LEMMA Frame ==
  ASSUME HandsOK, [Next]_vars, NEW v \in Worker
  PROVE  Fixed(v) \/ (Crash /\ Cleared(v)) \/ Step(v)
<1>1. ASSUME NEW w \in Worker, Step(w)
      PROVE  Fixed(v) \/ Step(v)
  BY <1>1, OthersFixed
<1>2. CASE Crash
  BY <1>2 DEF Crash, Cleared
<1>3. CASE UNCHANGED goVars
  BY <1>3 DEF goVars, Fixed
<1>4. CASE \/ \E j \in queue : PromoteTwice(j)
           \/ \E a \in Address, targets \in SUBSET User : SetAliasTargets(a, targets)
           \/ \E u \in User \cup {None} : SetDomainCatchall(u)
           \/ UNCHANGED vars
  BY <1>3, <1>4 DEF PromoteTwice, SetAliasTargets, SetDomainCatchall, vars
<1> QED BY <1>1, <1>2, <1>4 DEF Next

-----------------------------------------------------------------------------
(* What only grows.                                                        *)

LEMMA Growth ==
  ASSUME TypeOK, [Next]_vars
  PROVE  /\ box \subseteq box' /\ spoiled \subseteq spoiled'
         /\ misled \subseteq misled' /\ doubled \subseteq doubled'
         /\ unlisted \subseteq unlisted' /\ loose \subseteq loose'
         /\ \A u \in User, s \in Subjects : listed[u][s] \subseteq listed'[u][s]
<1> DEFINE Grown ==
             /\ box \subseteq box' /\ spoiled \subseteq spoiled'
             /\ misled \subseteq misled' /\ doubled \subseteq doubled'
             /\ unlisted \subseteq unlisted' /\ loose \subseteq loose'
             /\ \A u \in User, s \in Subjects : listed[u][s] \subseteq listed'[u][s]
<1> USE DEF dbVars, goVars, history
<1>0. TablesOK /\ HandsOK
  BY TypeParts
<1>1. ASSUME NEW w \in Worker,
             \/ Take(w) \/ Fail(w) \/ FailFails(w) \/ Resolve(w) \/ ResolveFails(w)
             \/ ResolveMisled(w) \/ Judge(w) \/ JudgeMisled(w)
             \/ InsertThreadTooLong(w) \/ Store(w) \/ StoreFails(w) \/ Finish(w)
      PROVE  Grown
  BY <1>1 DEF Take, Fail, FailFails, Resolve, ResolveFails, ResolveMisled, Judge,
     JudgeMisled, InsertThreadTooLong, Store, StoreFails, Finish, Put
<1>2. ASSUME NEW w \in Worker, NEW u \in User, FindThread(w, u) \/ FindThreadFails(w, u)
      PROVE  Grown
  <2> DEFINE add == [listed EXCEPT ![u][Title(w)] = @ \cup {Held(w)}]
  <2>1. \A x \in User, s \in Subjects : listed[x][s] \subseteq add[x][s]
    BY <1>0 DEF TablesOK
  <2>2. listed' = listed \/ listed' = add
    <3>1. CASE FindThread(w, u)
      BY <3>1 DEF FindThread
    <3>2. CASE FindThreadFails(w, u)
      <4>1. CASE listed[u][Title(w)] = {}
        <5>1. [listed EXCEPT ![u][Title(w)] = {}] = listed
          BY <1>0, <4>1 DEF TablesOK
        <5> QED BY <3>2, <4>1, <5>1 DEF FindThreadFails
      <4>2. CASE listed[u][Title(w)] # {}
        BY <3>2, <4>2 DEF FindThreadFails
      <4> QED BY <4>1, <4>2
    <3> QED BY <1>2, <3>1, <3>2
  <2>3. \A x \in User, s \in Subjects : listed[x][s] \subseteq listed'[x][s]
    BY <2>1, <2>2
  <2> QED BY <1>2, <2>3 DEF FindThread, FindThreadFails
<1>3. ASSUME NEW w \in Worker, InsertThread(w) \/ InsertThreadFails(w)
      PROVE  Grown
  <2>1. \A x \in User, s \in Subjects : listed[x][s] \subseteq listed'[x][s]
    BY <1>0, <1>3 DEF TablesOK, InsertThread, InsertThreadFails
  <2> QED BY <1>3, <2>1 DEF InsertThread, InsertThreadFails
<1>4. CASE \/ \E j \in queue : PromoteTwice(j)
           \/ \E a \in Address, targets \in SUBSET User : SetAliasTargets(a, targets)
           \/ \E u \in User \cup {None} : SetDomainCatchall(u)
           \/ Crash \/ UNCHANGED vars
  BY <1>4 DEF PromoteTwice, SetAliasTargets, SetDomainCatchall, Crash, vars
<1> QED BY <1>1, <1>2, <1>3, <1>4 DEF Next, Step

-----------------------------------------------------------------------------
(* Types.                                                                  *)

BoxFinite == IsFiniteSet(box)

(* A processor that has not judged the sender yet has served nobody.       *)
EarlyOK(w) == pc[w] \in {"idle", "resolve", "judge"} => left[w] = {} /\ mine[w] = {}

TypeInv == TypeOK /\ BoxFinite /\ \A w \in Worker : EarlyOK(w)

LEMMA TypeInit == Init => TypeInv
<1> SUFFICES ASSUME Init PROVE TypeInv
  OBVIOUS
<1>1. TablesOK
  BY DEF Init, TablesOK
<1>2. JobsOK
  BY DEF Init, JobsOK, Job
<1>3. HandsOK
  BY DEF Init, HandsOK, PC
<1>4. \A w \in Worker : PlaceOK(w)
  BY DEF Init, PlaceOK
<1>5. BoxFinite
  BY FS_EmptySet DEF Init, BoxFinite
<1>6. \A w \in Worker : EarlyOK(w)
  BY DEF Init, EarlyOK
<1> QED BY <1>1, <1>2, <1>3, <1>4, <1>5, <1>6, TypeParts DEF TypeInv

(* The copies of a mail a user has.                                        *)
CopiesOf(m, u) == {c \in box : c.mail = m /\ c.user = u}

LEMMA NewCopyType ==
  ASSUME TypeOK, BoxFinite, NEW w \in Worker, pc[w] = "store"
  PROVE  /\ NewCopy(w) \in Copy
         /\ NewCopy(w).mail = Held(w) /\ NewCopy(w).user = user[w]
         /\ NewCopy(w).thread = thread[w]
         /\ NewCopy(w).nth = Cardinality(CopiesOf(Held(w), user[w]))
         /\ user[w] \in User /\ user[w] \in left[w]
<1>1. HandsOK /\ PlaceOK(w)
  BY TypeParts
<1>2. Held(w) \in Mail
  BY HoldsJob
<1>3. user[w] \in left[w] /\ user[w] \in User /\ thread[w] \in Subjects \cup {None}
  BY <1>1 DEF HandsOK, PlaceOK
<1>4. IsFiniteSet(CopiesOf(Held(w), user[w]))
  BY FS_Subset DEF BoxFinite, CopiesOf
<1>5. Cardinality(CopiesOf(Held(w), user[w])) \in Nat
  BY <1>4, FS_CardinalityType
<1> QED BY <1>2, <1>3, <1>5 DEF NewCopy, Copy, CopiesOf

LEMMA BoxStep ==
  ASSUME TypeOK, BoxFinite, [Next]_vars
  PROVE  /\ BoxFinite'
         /\ box' # box => \E w \in Worker : /\ Store(w) \/ StoreFails(w)
                                            /\ Put(w)
<1> USE DEF dbVars, goVars, history
<1>1. ASSUME NEW w \in Worker, Store(w) \/ StoreFails(w)
      PROVE  Put(w) \/ box' = box
  BY <1>1 DEF Store, StoreFails
<1>2. ASSUME NEW w \in Worker, Step(w), ~(Store(w) \/ StoreFails(w))
      PROVE  box' = box
  BY <1>2 DEF Step, Take, Fail, FailFails, Resolve, ResolveFails, ResolveMisled, Judge,
     JudgeMisled, FindThread, FindThreadFails, InsertThread, InsertThreadTooLong,
     InsertThreadFails, Finish
<1>3. ASSUME \/ \E j \in queue : PromoteTwice(j)
             \/ \E a \in Address, targets \in SUBSET User : SetAliasTargets(a, targets)
             \/ \E u \in User \cup {None} : SetDomainCatchall(u)
             \/ Crash \/ UNCHANGED vars
      PROVE  box' = box
  BY <1>3 DEF PromoteTwice, SetAliasTargets, SetDomainCatchall, Crash, vars
<1>4. box' # box => \E w \in Worker : (Store(w) \/ StoreFails(w)) /\ Put(w)
  BY <1>1, <1>2, <1>3 DEF Next
<1>5. BoxFinite'
  <2>1. CASE box' = box
    BY <2>1 DEF BoxFinite
  <2>2. ASSUME NEW w \in Worker, Put(w)
        PROVE  BoxFinite'
    BY <2>2, FS_AddElement DEF BoxFinite, Put
  <2> QED BY <1>4, <2>1, <2>2
<1> QED BY <1>4, <1>5

LEMMA RoutesUsers ==
  ASSUME TablesOK, NEW a \in Address
  PROVE  Resolution(a) \subseteq User /\ Fallback(a) \subseteq User
BY DEF TablesOK, Resolution, Fallback, Perhaps

LEMMA HandsStep ==
  ASSUME TypeOK, BoxFinite, [Next]_vars
  PROVE  HandsOK'
<1> USE DEF dbVars, goVars, history, PC
<1>0. TablesOK /\ JobsOK /\ HandsOK /\ (\A w \in Worker : PlaceOK(w)) /\ box \subseteq box'
  BY TypeParts, Growth
<1>1. ASSUME NEW w \in Worker, Done(w)
      PROVE  HandsOK'
  BY <1>0, <1>1 DEF Done, GoTo, HandsOK
<1>2. CASE UNCHANGED goVars
  BY <1>0, <1>2 DEF HandsOK
<1>3. ASSUME NEW w \in Worker, Take(w)
      PROVE  HandsOK'
  BY <1>0, <1>3 DEF Take, GoTo, HandsOK, JobsOK
<1>4. ASSUME NEW w \in Worker, Resolve(w) \/ ResolveFails(w) \/ ResolveMisled(w)
      PROVE  HandsOK'
  <2>1. Held(w) \in Mail
    BY <1>4, HoldsJob DEF Resolve, ResolveFails, ResolveMisled
  <2>2. Resolution(To[Held(w)]) \subseteq User /\ Fallback(To[Held(w)]) \subseteq User
    BY <1>0, <2>1, RoutesUsers
  <2> QED BY <1>0, <1>4, <2>2 DEF Resolve, ResolveFails, ResolveMisled, RouteTo, GoTo, HandsOK
<1>5. ASSUME NEW w \in Worker, Judge(w) \/ JudgeMisled(w)
      PROVE  HandsOK'
  BY <1>0, <1>5 DEF Judge, JudgeMisled, Verdict, GoTo, HandsOK
<1>6. ASSUME NEW w \in Worker, NEW u \in User, FindThread(w, u) \/ FindThreadFails(w, u)
      PROVE  HandsOK'
  <2>1. Title(w) \in Subjects
    BY <1>6, HoldsJob DEF FindThread, FindThreadFails
  <2> QED BY <1>0, <1>6, <2>1 DEF FindThread, FindThreadFails, Serve, GoTo, HandsOK
<1>7. ASSUME NEW w \in Worker,
             InsertThread(w) \/ InsertThreadTooLong(w) \/ InsertThreadFails(w)
      PROVE  HandsOK'
  <2>1. Title(w) \in Subjects
    BY <1>7, HoldsJob DEF InsertThread, InsertThreadTooLong, InsertThreadFails
  <2> QED BY <1>0, <1>7, <2>1 DEF InsertThread, InsertThreadTooLong, InsertThreadFails,
             Serve, GoTo, HandsOK
<1>8. ASSUME NEW w \in Worker, Store(w)
      PROVE  HandsOK'
  BY <1>0, <1>8 DEF Store, NextUser, Put, Serve, GoTo, HandsOK
<1>9. ASSUME NEW w \in Worker, StoreFails(w)
      PROVE  HandsOK'
  BY <1>0, <1>9 DEF StoreFails, Put, GoTo, HandsOK
<1>10. ASSUME NEW w \in Worker, Fail(w) \/ FailFails(w) \/ Finish(w)
       PROVE  HandsOK'
  BY <1>1, <1>10 DEF Fail, FailFails, Finish
<1>11. CASE Crash
  BY <1>11 DEF Crash, HandsOK
<1>12. CASE \/ \E j \in queue : PromoteTwice(j)
            \/ \E a \in Address, targets \in SUBSET User : SetAliasTargets(a, targets)
            \/ \E u \in User \cup {None} : SetDomainCatchall(u)
            \/ UNCHANGED vars
  BY <1>2, <1>12 DEF PromoteTwice, SetAliasTargets, SetDomainCatchall, vars
<1> QED
  BY <1>3, <1>4, <1>5, <1>6, <1>7, <1>8, <1>9, <1>10, <1>11, <1>12 DEF Next, Step

LEMMA JobsStep ==
  ASSUME TypeOK, [Next]_vars
  PROVE  JobsOK'
<1>0. TablesOK /\ JobsOK /\ HandsOK
  BY TypeParts
<1>1. ASSUME NEW w \in Worker, Fail(w)
      PROVE  JobsOK'
  <2>1. hand[w] \in Job
    BY <1>1, HoldsJob DEF Fail
  <2>2. hand[w].attempts + 1 < MaxAttempts =>
          [hand[w] EXCEPT !.attempts = @ + 1] \in Job
    BY <2>1 DEF Job
  <2> QED BY <1>0, <1>1, <2>1, <2>2 DEF Fail, JobsOK
<1>2. ASSUME NEW w \in Worker, Step(w), ~Fail(w)
      PROVE  queue' \subseteq queue /\ dead' = dead
  BY <1>2 DEF Step, Take, FailFails, Resolve, ResolveFails, ResolveMisled, Judge,
     JudgeMisled, FindThread, FindThreadFails, InsertThread, InsertThreadTooLong,
     InsertThreadFails, Store, StoreFails, Finish
<1>3. ASSUME NEW j \in queue, PromoteTwice(j)
      PROVE  JobsOK'
  <2>1. j \in Job /\ disrupted + 1 \in 0..MaxDisruptions
    BY <1>0, <1>3 DEF JobsOK, TablesOK, PromoteTwice, Disrupt
  <2>2. [j EXCEPT !.id = disrupted + 1] \in Job
    BY <2>1 DEF Job
  <2> QED BY <1>0, <1>3, <2>2 DEF PromoteTwice, JobsOK
<1>4. CASE \/ \E a \in Address, targets \in SUBSET User : SetAliasTargets(a, targets)
           \/ \E u \in User \cup {None} : SetDomainCatchall(u)
           \/ Crash \/ UNCHANGED vars
  BY <1>0, <1>4 DEF SetAliasTargets, SetDomainCatchall, Crash, vars, JobsOK
<1> QED BY <1>0, <1>1, <1>2, <1>3, <1>4 DEF Next, JobsOK

LEMMA ListedType ==
  ASSUME TablesOK, NEW u \in User, NEW s \in Subjects, NEW ms \in SUBSET Mail
  PROVE  [listed EXCEPT ![u][s] = ms] \in [User -> [Subjects -> SUBSET Mail]]
BY DEF TablesOK

LEMMA TablesStep ==
  ASSUME TypeOK, BoxFinite, [Next]_vars
  PROVE  TablesOK'
<1> USE DEF dbVars, goVars, history, TablesOK, Disrupt
<1>0. TablesOK /\ HandsOK
  BY TypeParts
<1>1. ASSUME NEW w \in Worker, Take(w)
      PROVE  TablesOK'
  BY <1>0, <1>1 DEF Take
<1>2. ASSUME NEW w \in Worker, Fail(w) \/ FailFails(w)
      PROVE  TablesOK'
  BY <1>0, <1>2 DEF Fail, FailFails, HandsOK
<1>3. ASSUME NEW w \in Worker,
             \/ Resolve(w) \/ ResolveFails(w) \/ ResolveMisled(w)
             \/ Judge(w) \/ JudgeMisled(w)
      PROVE  TablesOK'
  <2>1. Held(w) \in Mail
    BY <1>3, HoldsJob DEF Resolve, ResolveFails, ResolveMisled, Judge, JudgeMisled
  <2>2. misled' \subseteq Mail /\ disrupted' \in 0..MaxDisruptions
    <3>1. CASE Resolve(w) \/ ResolveFails(w) \/ Judge(w)
      BY <1>0, <3>1 DEF Resolve, ResolveFails, Judge
    <3>2. CASE ResolveMisled(w) \/ JudgeMisled(w)
      <4>1. misled' = misled \cup {Held(w)}
        BY <3>2 DEF ResolveMisled, JudgeMisled
      <4>2. disrupted < MaxDisruptions /\ disrupted' = disrupted + 1
        BY <3>2 DEF ResolveMisled, JudgeMisled
      <4> QED BY <1>0, <2>1, <4>1, <4>2
    <3> QED BY <1>3, <3>1, <3>2
  <2>3. UNCHANGED <<dbVars, routings, finished, spoiled, doubled, unlisted, loose>>
    BY <1>3 DEF Resolve, ResolveFails, ResolveMisled, Judge, JudgeMisled
  <2> QED BY <1>0, <2>2, <2>3
<1>4. ASSUME NEW w \in Worker, NEW u \in User, FindThread(w, u) \/ FindThreadFails(w, u)
      PROVE  TablesOK'
  <2>1. Held(w) \in Mail /\ Title(w) \in Subjects
    BY <1>4, HoldsJob DEF FindThread, FindThreadFails
  <2>2. listed' \in [User -> [Subjects -> SUBSET Mail]]
    <3> DEFINE old == listed[u][Title(w)]
    <3>1. old \cup {Held(w)} \in SUBSET Mail /\ old \in SUBSET Mail
      BY <1>0, <2>1
    <3>2. PICK ms \in SUBSET Mail :
            listed' = listed \/ listed' = [listed EXCEPT ![u][Title(w)] = ms]
      BY <1>4, <3>1 DEF FindThread, FindThreadFails
    <3>3. [listed EXCEPT ![u][Title(w)] = ms] \in [User -> [Subjects -> SUBSET Mail]]
      BY <1>0, <2>1, ListedType
    <3> QED BY <1>0, <3>2, <3>3
  <2> QED BY <1>0, <1>4, <2>1, <2>2 DEF FindThread, FindThreadFails
<1>5. ASSUME NEW w \in Worker,
             InsertThread(w) \/ InsertThreadTooLong(w) \/ InsertThreadFails(w)
      PROVE  TablesOK'
  <2>1. Held(w) \in Mail /\ Title(w) \in Subjects /\ user[w] \in User
    BY <1>5, HoldsJob, TypeParts DEF InsertThread, InsertThreadTooLong, InsertThreadFails,
       PlaceOK, HandsOK
  <2>2. listed' \in [User -> [Subjects -> SUBSET Mail]]
    <3> DEFINE old == listed[user[w]][Title(w)]
    <3>1. {Held(w)} \in SUBSET Mail /\ old \in SUBSET Mail
      BY <1>0, <2>1
    <3>2. PICK ms \in SUBSET Mail :
            listed' = listed \/ listed' = [listed EXCEPT ![user[w]][Title(w)] = ms]
      BY <1>5, <3>1 DEF InsertThread, InsertThreadTooLong, InsertThreadFails
    <3>3. [listed EXCEPT ![user[w]][Title(w)] = ms] \in [User -> [Subjects -> SUBSET Mail]]
      BY <1>0, <2>1, ListedType
    <3> QED BY <1>0, <3>2, <3>3
  <2> QED BY <1>0, <1>5, <2>1, <2>2 DEF InsertThread, InsertThreadTooLong, InsertThreadFails
<1>6. ASSUME NEW w \in Worker, Store(w) \/ StoreFails(w)
      PROVE  TablesOK'
  <2>1. NewCopy(w) \in Copy
    BY <1>6, NewCopyType DEF Store, StoreFails
  <2> QED BY <1>0, <1>6, <2>1 DEF Store, StoreFails, Put
<1>7. ASSUME NEW w \in Worker, Finish(w)
      PROVE  TablesOK'
  <2>1. Held(w) \in Mail /\ route[w] \subseteq User
    BY <1>0, <1>7, HoldsJob DEF Finish, HandsOK
  <2> QED BY <1>0, <1>7, <2>1 DEF Finish
<1>8. ASSUME NEW j \in queue, PromoteTwice(j)
      PROVE  TablesOK'
  <2>1. j.mail \in Mail
    BY TypeParts DEF JobsOK, Job
  <2> QED BY <1>0, <1>8, <2>1 DEF PromoteTwice
<1>9. CASE Crash
  BY <1>0, <1>9 DEF Crash, HandsOK
<1>10. ASSUME NEW a \in Address, NEW targets \in SUBSET User, SetAliasTargets(a, targets)
       PROVE  TablesOK'
  BY <1>0, <1>10 DEF SetAliasTargets
<1>11. ASSUME NEW u \in User \cup {None}, SetDomainCatchall(u)
       PROVE  TablesOK'
  BY <1>0, <1>11 DEF SetDomainCatchall
<1>12. CASE UNCHANGED vars
  BY <1>0, <1>12 DEF vars
<1> QED
  BY <1>1, <1>2, <1>3, <1>4, <1>5, <1>6, <1>7, <1>8, <1>9, <1>10, <1>11, <1>12 DEF Next, Step

LEMMA PlaceStep ==
  ASSUME TypeInv, [Next]_vars, NEW w \in Worker
  PROVE  PlaceOK(w)' /\ EarlyOK(w)'
<1> USE DEF HandsOK, GoTo, Held
<1>0. HandsOK /\ JobsOK /\ PlaceOK(w) /\ EarlyOK(w) /\ TypeOK /\ BoxFinite
  BY TypeParts DEF TypeInv
<1>1. CASE Fixed(w)
  BY <1>0, <1>1 DEF Fixed, PlaceOK, EarlyOK
<1>2. CASE Cleared(w)
  BY <1>2 DEF Cleared, PlaceOK, EarlyOK
<1>3. CASE Take(w)
  <2>1. mine[w] = {}
    BY <1>0, <1>3 DEF Take, PlaceOK, EarlyOK
  <2>2. PICK j \in queue : hand'[w] = j /\ j # None
    BY <1>0, <1>3 DEF Take, JobsOK, Job
  <2> QED BY <1>0, <1>3, <2>1, <2>2 DEF Take, PlaceOK, EarlyOK
<1>4. CASE Resolve(w) \/ ResolveFails(w) \/ ResolveMisled(w)
  BY <1>0, <1>4 DEF Resolve, ResolveFails, ResolveMisled, RouteTo, PlaceOK, EarlyOK
<1>5. CASE Judge(w) \/ JudgeMisled(w)
  BY <1>0, <1>5 DEF Judge, JudgeMisled, Verdict, PlaceOK, EarlyOK
<1>6. ASSUME NEW u \in User, FindThread(w, u) \/ FindThreadFails(w, u)
      PROVE  PlaceOK(w)' /\ EarlyOK(w)'
  BY <1>0, <1>6 DEF FindThread, FindThreadFails, Serve, PlaceOK, EarlyOK
<1>7. CASE InsertThread(w) \/ InsertThreadTooLong(w) \/ InsertThreadFails(w)
  BY <1>0, <1>7 DEF InsertThread, InsertThreadTooLong, InsertThreadFails, Serve, PlaceOK, EarlyOK
<1>8. CASE Store(w) \/ StoreFails(w)
  <2>1. NewCopy(w).mail = Held(w)
    BY <1>0, <1>8, NewCopyType DEF Store, StoreFails
  <2>2. hand'[w] = hand[w] /\ hand[w] # None /\ pc'[w] \in {"next", "fail"}
    BY <1>0, <1>8 DEF Store, StoreFails, NextUser, Serve, PlaceOK, EarlyOK
  <2>3. mine'[w] \subseteq mine[w] \cup {NewCopy(w)}
    BY <1>0, <1>8 DEF Store, StoreFails, Put
  <2>4. left'[w] \subseteq left[w] /\ route'[w] = route[w]
    BY <1>0, <1>8 DEF Store, StoreFails, NextUser
  <2> QED BY <1>0, <2>1, <2>2, <2>3, <2>4 DEF PlaceOK, EarlyOK
<1>9. CASE Fail(w) \/ FailFails(w) \/ Finish(w)
  BY <1>0, <1>2, <1>9, DoneClears DEF Fail, FailFails, Finish
<1>10. CASE Step(w)
  BY <1>3, <1>4, <1>5, <1>6, <1>7, <1>8, <1>9, <1>10 DEF Step
<1> QED BY <1>0, <1>1, <1>2, <1>10, Frame

LEMMA TypeStep ==
  ASSUME TypeInv, [Next]_vars
  PROVE  TypeInv'
<1>0. TypeOK /\ BoxFinite
  BY DEF TypeInv
<1>1. \A w \in Worker : PlaceOK(w)' /\ EarlyOK(w)'
  BY PlaceStep
<1>2. TablesOK' /\ JobsOK' /\ HandsOK' /\ BoxFinite'
  BY <1>0, TablesStep, JobsStep, HandsStep, BoxStep
<1>3. TypeOK'
  BY <1>1, <1>2 DEF TypeOK, TablesOK, JobsOK, HandsOK, PlaceOK
<1> QED BY <1>1, <1>2, <1>3 DEF TypeInv

-----------------------------------------------------------------------------
(* What the lookups said.                                                  *)

(* A processor has the user whose address it is, and no blacklisted sender.*)
LookedUp(w) ==
  Held(w) \notin misled =>
    /\ pc[w] \in {"judge", "next", "insert", "store"} =>
         (Owner[To[Held(w)]] # None => route[w] \subseteq {Owner[To[Held(w)]]})
    /\ pc[w] \in {"next", "insert", "store"} => Held(w) \notin Blacklist \ Whitelist

LookupsInv == LookupsDecide /\ \A w \in Worker : LookedUp(w)

LEMMA LookedUpStep ==
  ASSUME TypeInv, [Next]_vars, NEW w \in Worker, LookedUp(w)
  PROVE  LookedUp(w)'
<1> USE DEF HandsOK, GoTo, Held
<1>0. HandsOK /\ TypeOK /\ misled \subseteq misled'
  BY TypeParts, Growth DEF TypeInv
<1>1. CASE Fixed(w)
  BY <1>0, <1>1 DEF Fixed, LookedUp
<1>2. CASE Cleared(w)
  BY <1>2 DEF Cleared, LookedUp
<1>3. CASE Take(w)
  BY <1>0, <1>3 DEF Take, LookedUp
<1>4. CASE Resolve(w) \/ ResolveFails(w)
  BY <1>0, <1>4 DEF Resolve, ResolveFails, RouteTo, LookedUp, Resolution
<1>5. CASE Judge(w)
  BY <1>0, <1>5 DEF Judge, Verdict, LookedUp
<1>6. CASE ResolveMisled(w) \/ JudgeMisled(w)
  BY <1>0, <1>6 DEF ResolveMisled, JudgeMisled, LookedUp
<1>7. ASSUME NEW u \in User, FindThread(w, u) \/ FindThreadFails(w, u)
      PROVE  LookedUp(w)'
  BY <1>0, <1>7 DEF FindThread, FindThreadFails, Serve, LookedUp
<1>8. CASE InsertThread(w) \/ InsertThreadTooLong(w) \/ InsertThreadFails(w)
  BY <1>0, <1>8 DEF InsertThread, InsertThreadTooLong, InsertThreadFails, Serve, LookedUp
<1>9. CASE Store(w) \/ StoreFails(w)
  BY <1>0, <1>9 DEF Store, StoreFails, NextUser, Serve, LookedUp
<1>10. CASE Fail(w) \/ FailFails(w) \/ Finish(w)
  BY <1>0, <1>2, <1>10, DoneClears DEF Fail, FailFails, Finish
<1>11. CASE Step(w)
  BY <1>3, <1>4, <1>5, <1>6, <1>7, <1>8, <1>9, <1>10, <1>11 DEF Step
<1> QED BY <1>0, <1>1, <1>2, <1>11, Frame

LEMMA LookupsStep ==
  ASSUME TypeInv, LookupsInv, [Next]_vars
  PROVE  LookupsInv'
<1>0. TypeOK /\ BoxFinite /\ misled \subseteq misled'
  BY Growth DEF TypeInv
<1>1. ASSUME NEW c \in box', c.mail \notin misled'
      PROVE  /\ Owner[To[c.mail]] \in {c.user, None}
             /\ c.mail \notin Blacklist \ Whitelist
  <2>1. CASE c \in box
    BY <1>0, <1>1, <2>1 DEF LookupsInv, LookupsDecide
  <2>2. CASE c \notin box
    <3>1. PICK w \in Worker : pc[w] = "store" /\ Put(w)
      BY <1>0, <1>1, <2>2, BoxStep DEF Store, StoreFails
    <3>2. c = NewCopy(w)
      BY <1>1, <2>2, <3>1 DEF Put
    <3>3. c.mail = Held(w) /\ c.user = user[w] /\ user[w] \in left[w]
      BY <1>0, <3>1, <3>2, NewCopyType
    <3>4. user[w] \in route[w]
      BY <1>0, <3>3, TypeParts DEF PlaceOK
    <3>5. Held(w) \notin misled
      BY <1>0, <1>1, <3>3
    <3> QED BY <3>1, <3>3, <3>4, <3>5 DEF LookupsInv, LookedUp
  <2> QED BY <2>1, <2>2
<1>2. \A w \in Worker : LookedUp(w)'
  BY LookedUpStep DEF LookupsInv
<1> QED BY <1>1, <1>2 DEF LookupsInv, LookupsDecide

-----------------------------------------------------------------------------
(* Threads.                                                                *)

(* Mail m is in user u's thread t as ThreadsHold says.                     *)
Joined(m, u, t) ==
  IF t = None
  THEN Subject[m] \in TooLong \/ <<m, u>> \in loose
  ELSE /\ t = Subject[m]
       /\ listed[u][t] # {}
       /\ m \in listed[u][t] \/ <<m, u>> \in unlisted

Threading(w) == pc[w] = "store" => Joined(Held(w), user[w], thread[w])

ThreadsInv == ThreadsHold /\ \A w \in Worker : Threading(w)

LEMMA JoinedStays ==
  ASSUME TypeInv, [Next]_vars, NEW m \in Mail, NEW u \in User, NEW t, Joined(m, u, t)
  PROVE  Joined(m, u, t)'
<1>1. /\ unlisted \subseteq unlisted' /\ loose \subseteq loose'
      /\ \A x \in User, s \in Subjects : listed[x][s] \subseteq listed'[x][s]
  BY Growth DEF TypeInv
<1>2. Subject[m] \in Subjects
  BY DEF Subjects
<1> QED BY <1>1, <1>2 DEF Joined

LEMMA ThreadingStep ==
  ASSUME TypeInv, [Next]_vars, NEW w \in Worker, Threading(w)
  PROVE  Threading(w)'
<1> USE DEF HandsOK, GoTo
<1>0. HandsOK /\ TypeOK /\ TablesOK /\ BoxFinite
  BY TypeParts DEF TypeInv
<1>1. CASE Fixed(w)
  <2>1. pc[w] = "store" => Held(w) \in Mail /\ user[w] \in User
    BY <1>0, HoldsJob, NewCopyType
  <2> QED BY <1>1, <2>1, JoinedStays DEF Fixed, Threading, Held
<1>2. CASE Cleared(w)
  BY <1>2 DEF Cleared, Threading
<1>3. CASE \/ Take(w) \/ Resolve(w) \/ ResolveFails(w) \/ ResolveMisled(w)
           \/ Judge(w) \/ JudgeMisled(w) \/ Store(w) \/ StoreFails(w)
  <2>1. pc'[w] # "store"
    BY <1>0, <1>3 DEF Take, Resolve, ResolveFails, ResolveMisled, RouteTo, Judge,
       JudgeMisled, Verdict, Store, StoreFails, NextUser, Serve
  <2> QED BY <2>1 DEF Threading
<1>4. ASSUME NEW u \in User, FindThread(w, u) \/ FindThreadFails(w, u)
      PROVE  Threading(w)'
  <2>1. Held(w) \in Mail /\ Title(w) \in Subjects /\ Held(w)' = Held(w)
    BY <1>4, <1>0, HoldsJob DEF FindThread, FindThreadFails, Held
  <2>2. CASE FindThread(w, u) /\ listed[u][Title(w)] # {}
    <3>1. user'[w] = u /\ thread'[w] = Title(w) /\ Title(w) # None
      BY <1>0, <2>1, <2>2 DEF FindThread, Serve
    <3>2. Held(w) \in listed'[u][Title(w)]
      BY <1>0, <2>1, <2>2 DEF FindThread, TablesOK
    <3> QED BY <2>1, <3>1, <3>2 DEF Threading, Joined, Title
  <2>3. CASE FindThread(w, u) /\ listed[u][Title(w)] = {}
    BY <1>0, <2>3 DEF FindThread, Serve, Threading
  <2>4. CASE FindThreadFails(w, u)
    <3>1. user'[w] = u /\ thread'[w] = None /\ <<Held(w), u>> \in loose'
      BY <1>0, <2>4 DEF FindThreadFails, Serve
    <3> QED BY <2>1, <3>1 DEF Threading, Joined
  <2> QED BY <1>4, <2>2, <2>3, <2>4
<1>5. CASE InsertThread(w) \/ InsertThreadTooLong(w) \/ InsertThreadFails(w)
  <2>1. /\ Held(w) \in Mail /\ Title(w) \in Subjects /\ Held(w)' = Held(w)
        /\ user[w] \in User
    BY <1>5, <1>0, HoldsJob, TypeParts DEF InsertThread, InsertThreadTooLong,
       InsertThreadFails, Held, PlaceOK
  <2>2. CASE InsertThread(w)
    <3>1. user'[w] = user[w] /\ thread'[w] = Title(w) /\ Title(w) # None
      BY <1>0, <2>1, <2>2 DEF InsertThread, Serve
    <3>2. CASE listed[user[w]][Title(w)] = {}
      <4>1. listed'[user[w]][Title(w)] = {Held(w)}
        BY <1>0, <2>1, <2>2, <3>2 DEF InsertThread, TablesOK
      <4> QED BY <2>1, <3>1, <4>1 DEF Threading, Joined, Title
    <3>3. CASE listed[user[w]][Title(w)] # {}
      <4>1. listed' = listed /\ <<Held(w), user[w]>> \in unlisted'
        BY <2>2, <3>3 DEF InsertThread
      <4> QED BY <2>1, <3>1, <3>3, <4>1 DEF Threading, Joined, Title
    <3> QED BY <3>2, <3>3
  <2>3. CASE InsertThreadTooLong(w)
    <3>1. user'[w] = user[w] /\ thread'[w] = None /\ Title(w) \in TooLong
      BY <1>0, <2>3 DEF InsertThreadTooLong, Serve
    <3> QED BY <2>1, <3>1 DEF Threading, Joined, Title
  <2>4. CASE InsertThreadFails(w)
    <3>1. user'[w] = user[w] /\ thread'[w] = None /\ <<Held(w), user[w]>> \in loose'
      BY <1>0, <2>4 DEF InsertThreadFails, Serve
    <3> QED BY <2>1, <3>1 DEF Threading, Joined
  <2> QED BY <1>5, <2>2, <2>3, <2>4
<1>6. CASE Fail(w) \/ FailFails(w) \/ Finish(w)
  BY <1>0, <1>2, <1>6, DoneClears DEF Fail, FailFails, Finish
<1>7. CASE Step(w)
  BY <1>3, <1>4, <1>5, <1>6, <1>7 DEF Step
<1> QED BY <1>0, <1>1, <1>2, <1>7, Frame

LEMMA ThreadsStep ==
  ASSUME TypeInv, ThreadsInv, [Next]_vars
  PROVE  ThreadsInv'
<1>0. TypeOK /\ BoxFinite /\ box \subseteq Copy
  BY TypeParts DEF TypeInv, TablesOK
<1>1. ASSUME NEW c \in box'
      PROVE  Joined(c.mail, c.user, c.thread)'
  <2>1. CASE c \in box
    <3>1. c.mail \in Mail /\ c.user \in User
      BY <1>0, <2>1 DEF Copy
    <3> QED BY <2>1, <3>1, JoinedStays DEF ThreadsInv, ThreadsHold, Joined
  <2>2. CASE c \notin box
    <3>1. PICK w \in Worker : (Store(w) \/ StoreFails(w)) /\ Put(w)
      BY <1>0, <1>1, <2>2, BoxStep
    <3>2. pc[w] = "store"
      BY <3>1 DEF Store, StoreFails
    <3>3. c = NewCopy(w)
      BY <1>1, <2>2, <3>1 DEF Put
    <3>4. /\ c.mail = Held(w) /\ c.user = user[w] /\ c.thread = thread[w]
          /\ Held(w) \in Mail /\ user[w] \in User
      BY <1>0, <3>2, <3>3, NewCopyType, HoldsJob
    <3>5. Joined(c.mail, c.user, c.thread)
      BY <3>2, <3>4 DEF ThreadsInv, Threading
    <3> QED BY <3>4, <3>5, JoinedStays
  <2> QED BY <2>1, <2>2
<1>2. ThreadsHold'
  BY <1>1 DEF ThreadsHold, Joined
<1>3. \A w \in Worker : Threading(w)'
  BY ThreadingStep DEF ThreadsInv
<1> QED BY <1>2, <1>3 DEF ThreadsInv

-----------------------------------------------------------------------------
(* Copies and the attempts that own them.                                  *)

(* A new copy is told apart from those the user has of the mail.           *)
Numbered == \A c \in box : c.nth < Cardinality(CopiesOf(c.mail, c.user))

LEMMA NewCopyIsNew ==
  ASSUME TypeOK, BoxFinite, Numbered, NEW w \in Worker, pc[w] = "store"
  PROVE  NewCopy(w) \notin box
<1>1. /\ NewCopy(w).mail = Held(w) /\ NewCopy(w).user = user[w]
      /\ NewCopy(w).nth = Cardinality(CopiesOf(Held(w), user[w]))
      /\ NewCopy(w).nth \in Nat
  BY NewCopyType DEF Copy
<1> QED BY <1>1 DEF Numbered

LEMMA NumberedStep ==
  ASSUME TypeInv, Numbered, [Next]_vars
  PROVE  Numbered'
<1>0. TypeOK /\ BoxFinite /\ BoxFinite' /\ box \subseteq Copy
  BY TypeParts, TypeStep DEF TypeInv, TablesOK
<1>1. ASSUME NEW m, NEW u
      PROVE  /\ IsFiniteSet(CopiesOf(m, u)) /\ Cardinality(CopiesOf(m, u)) \in Nat
             /\ Cardinality(CopiesOf(m, u)') \in Nat
             /\ Cardinality(CopiesOf(m, u)) <= Cardinality(CopiesOf(m, u)')
  <2>1. IsFiniteSet(CopiesOf(m, u)) /\ IsFiniteSet(CopiesOf(m, u)')
    BY <1>0, FS_Subset DEF BoxFinite, CopiesOf
  <2>2. CopiesOf(m, u) \subseteq CopiesOf(m, u)'
    BY <1>0, Growth DEF CopiesOf
  <2> QED BY <2>1, <2>2, FS_Subset, FS_CardinalityType
<1>2. ASSUME NEW c \in box'
      PROVE  c.nth < Cardinality(CopiesOf(c.mail, c.user)')
  <2>1. CASE c \in box
    <3>1. c.nth < Cardinality(CopiesOf(c.mail, c.user)) /\ c.nth \in Nat
      BY <1>0, <2>1 DEF Numbered, Copy
    <3> QED BY <1>1, <3>1
  <2>2. CASE c \notin box
    <3>1. PICK w \in Worker : (Store(w) \/ StoreFails(w)) /\ Put(w)
      BY <1>0, <1>2, <2>2, BoxStep
    <3>2. pc[w] = "store" /\ c = NewCopy(w)
      BY <1>2, <2>2, <3>1 DEF Store, StoreFails, Put
    <3>3. /\ c.mail = Held(w) /\ c.user = user[w]
          /\ c.nth = Cardinality(CopiesOf(c.mail, c.user))
      BY <1>0, <3>2, NewCopyType
    <3>4. CopiesOf(c.mail, c.user)' = CopiesOf(c.mail, c.user) \cup {c}
      BY <3>1, <3>2 DEF CopiesOf, Put
    <3>5. c \notin CopiesOf(c.mail, c.user)
      BY <2>2 DEF CopiesOf
    <3>6. Cardinality(CopiesOf(c.mail, c.user)') = Cardinality(CopiesOf(c.mail, c.user)) + 1
      BY <1>1, <3>4, <3>5, FS_AddElement
    <3> QED BY <1>1, <3>3, <3>6
  <2> QED BY <2>1, <2>2
<1> QED BY <1>2 DEF Numbered, CopiesOf

(* What an attempt owns becomes its copy, is spoiled, or is kept for good. *)
LEMMA MineStep ==
  ASSUME TypeInv, Numbered, [Next]_vars, NEW w \in Worker
  PROVE  \/ mine'[w] = mine[w] /\ ~Cleared(w)
         \/ /\ (Store(w) \/ StoreFails(w)) /\ Put(w)
            /\ mine'[w] = mine[w] \cup {NewCopy(w)} /\ NewCopy(w) \notin box
         \/ Cleared(w) /\ mine'[w] = {} /\ (mine[w] \subseteq spoiled' \/ Finish(w) \/ mine[w] = {})
<1> USE DEF HandsOK
<1>0. HandsOK /\ PlaceOK(w) /\ EarlyOK(w) /\ TypeOK /\ BoxFinite
  BY TypeParts DEF TypeInv
<1>a. mine'[w] = {} => mine'[w] = mine[w] \/ mine[w] # {}
  OBVIOUS
<1>1. CASE Fixed(w)
  <2>1. CASE pc[w] = "idle"
    BY <1>0, <1>1, <2>1 DEF Fixed, EarlyOK
  <2>2. CASE pc[w] # "idle"
    BY <1>1, <2>2 DEF Fixed, Cleared
  <2> QED BY <2>1, <2>2
<1>2. CASE Crash /\ Cleared(w)
  <2>1. mine[w] \subseteq spoiled'
    BY <1>2 DEF Crash
  <2> QED BY <1>2, <2>1 DEF Cleared
<1>3. CASE \/ Take(w) \/ Resolve(w) \/ ResolveFails(w) \/ ResolveMisled(w)
           \/ Judge(w) \/ JudgeMisled(w)
           \/ (\E u \in User : FindThread(w, u) \/ FindThreadFails(w, u))
           \/ InsertThread(w) \/ InsertThreadTooLong(w) \/ InsertThreadFails(w)
  <2>1. mine' = mine
    BY <1>3 DEF Take, Resolve, ResolveFails, ResolveMisled, Judge, JudgeMisled,
       FindThread, FindThreadFails, InsertThread, InsertThreadTooLong, InsertThreadFails
  <2>2. pc'[w] # "idle"
    BY <1>0, <1>3 DEF Take, Resolve, ResolveFails, ResolveMisled, RouteTo, Judge, JudgeMisled,
       Verdict, FindThread, FindThreadFails, InsertThread, InsertThreadTooLong,
       InsertThreadFails, Serve, GoTo
  <2> QED BY <2>1, <2>2 DEF Cleared
<1>4. CASE Store(w) \/ StoreFails(w)
  <2>1. pc'[w] # "idle" /\ pc[w] = "store"
    BY <1>0, <1>4 DEF Store, StoreFails, NextUser, Serve, GoTo
  <2>2. CASE Put(w)
    BY <1>0, <1>4, <2>1, <2>2, NewCopyIsNew DEF Put
  <2>3. CASE mine' = mine
    BY <2>1, <2>3 DEF Cleared
  <2> QED BY <1>4, <2>2, <2>3 DEF Store, StoreFails
<1>5. CASE Fail(w) \/ FailFails(w) \/ Finish(w)
  <2>1. Cleared(w)
    BY <1>0, <1>5, DoneClears DEF Fail, FailFails, Finish
  <2>2. mine[w] \subseteq spoiled' \/ Finish(w)
    BY <1>5 DEF Fail, FailFails
  <2> QED BY <2>1, <2>2 DEF Cleared
<1>6. CASE Step(w)
  BY <1>3, <1>4, <1>5, <1>6 DEF Step
<1> QED BY <1>0, <1>1, <1>2, <1>6, Frame

LEMMA SpoiledStep ==
  ASSUME TypeInv, [Next]_vars, NEW c \in spoiled', c \notin spoiled
  PROVE  \E w \in Worker : c \in mine[w] /\ Cleared(w)
<1> USE DEF dbVars, goVars, history
<1>0. HandsOK
  BY TypeParts DEF TypeInv
<1>1. ASSUME NEW w \in Worker, Fail(w) \/ FailFails(w)
      PROVE  c \in mine[w] /\ Cleared(w)
  BY <1>0, <1>1, DoneClears DEF Fail, FailFails
<1>2. ASSUME NEW w \in Worker, Step(w), ~(Fail(w) \/ FailFails(w))
      PROVE  FALSE
  BY <1>2 DEF Step, Take, Resolve, ResolveFails, ResolveMisled, Judge,
     JudgeMisled, FindThread, FindThreadFails, InsertThread, InsertThreadTooLong,
     InsertThreadFails, Store, StoreFails, Finish
<1>3. CASE Crash
  BY <1>3 DEF Crash, Cleared
<1>4. ASSUME \/ \E j \in queue : PromoteTwice(j)
             \/ \E a \in Address, targets \in SUBSET User : SetAliasTargets(a, targets)
             \/ \E u \in User \cup {None} : SetDomainCatchall(u)
             \/ UNCHANGED vars
      PROVE  FALSE
  BY <1>4 DEF PromoteTwice, SetAliasTargets, SetDomainCatchall, vars
<1> QED BY <1>1, <1>2, <1>3, <1>4 DEF Next

(* No two attempts own a copy, and what failed attempts left is nobody's.  *)
Apart ==
  /\ \A v, w \in Worker : v # w => mine[v] \cap mine[w] = {}
  /\ \A w \in Worker : mine[w] \cap spoiled = {}

LEMMA ApartStep ==
  ASSUME TypeInv, Numbered, Apart, [Next]_vars
  PROVE  Apart'
<1>0. HandsOK /\ spoiled \subseteq box
  BY TypeParts DEF TypeInv, TablesOK
<1>1. ASSUME NEW w \in Worker, NEW c \in mine'[w]
      PROVE  /\ ~Cleared(w)
             /\ \/ c \in mine[w]
                \/ /\ c \notin box
                   /\ \A v \in Worker \ {w} : mine'[v] = mine[v]
  <2>1. CASE mine'[w] = mine[w] /\ ~Cleared(w)
    BY <1>1, <2>1
  <2>2. CASE /\ Put(w) /\ mine'[w] = mine[w] \cup {NewCopy(w)}
             /\ NewCopy(w) \notin box
    BY <1>0, <1>1, <2>2 DEF Put, HandsOK, Cleared
  <2> QED BY <1>1, <2>1, <2>2, MineStep
<1>2. ASSUME NEW v \in Worker, NEW w \in Worker, v # w, NEW c \in mine'[v] \cap mine'[w]
      PROVE  FALSE
  BY <1>0, <1>1, <1>2 DEF Apart, HandsOK
<1>3. ASSUME NEW w \in Worker, NEW c \in mine'[w] \cap spoiled'
      PROVE  FALSE
  <2>1. CASE c \in spoiled
    BY <1>0, <1>1, <1>3, <2>1 DEF Apart
  <2>2. CASE c \notin spoiled
    <3>1. PICK v \in Worker : c \in mine[v] /\ Cleared(v)
      BY <1>3, <2>2, SpoiledStep
    <3>2. v # w /\ c \in box
      BY <1>0, <1>1, <1>3, <3>1 DEF HandsOK
    <3> QED BY <1>1, <1>3, <3>1, <3>2 DEF Apart
  <2> QED BY <2>1, <2>2
<1> QED BY <1>2, <1>3 DEF Apart

(* An attempt owns one copy for each user it served.                       *)
Own(w) ==
  /\ pc[w] # "fail" => \A c \in mine[w] : c.user \notin left[w]
  /\ \A c, d \in mine[w] : c.user = d.user => c = d
  /\ pc[w] \in {"next", "insert", "store"} =>
       \A u \in route[w] \ left[w] : \E c \in mine[w] : c.user = u

LEMMA OwnStep ==
  ASSUME TypeInv, [Next]_vars, NEW w \in Worker, Own(w)
  PROVE  Own(w)'
<1> USE DEF HandsOK, GoTo
<1>0. HandsOK /\ TypeOK /\ BoxFinite /\ EarlyOK(w)
  BY TypeParts DEF TypeInv
<1>1. CASE Fixed(w)
  BY <1>1 DEF Fixed, Own
<1>2. CASE Cleared(w)
  BY <1>2 DEF Cleared, Own
<1>3. CASE Take(w) \/ Resolve(w) \/ ResolveFails(w) \/ ResolveMisled(w)
  BY <1>0, <1>3 DEF Take, Resolve, ResolveFails, ResolveMisled, RouteTo, EarlyOK, Own
<1>4. CASE Judge(w) \/ JudgeMisled(w)
  BY <1>0, <1>4 DEF Judge, JudgeMisled, Verdict, EarlyOK, Own
<1>5. ASSUME NEW u \in User, FindThread(w, u) \/ FindThreadFails(w, u)
      PROVE  Own(w)'
  BY <1>0, <1>5 DEF FindThread, FindThreadFails, Serve, Own
<1>6. CASE InsertThread(w) \/ InsertThreadTooLong(w) \/ InsertThreadFails(w)
  BY <1>0, <1>6 DEF InsertThread, InsertThreadTooLong, InsertThreadFails, Serve, Own
<1>7. CASE Store(w)
  <2>1. /\ mine'[w] = mine[w] \cup {NewCopy(w)} /\ left'[w] = left[w] \ {user[w]}
        /\ route'[w] = route[w] /\ pc[w] = "store"
    BY <1>0, <1>7 DEF Store, Put, NextUser, Serve
  <2>2. NewCopy(w).user = user[w] /\ user[w] \in left[w]
    BY <1>0, <2>1, NewCopyType
  <2> QED BY <2>1, <2>2 DEF Own
<1>8. CASE StoreFails(w)
  <2>1. /\ mine'[w] \in {mine[w], mine[w] \cup {NewCopy(w)}}
        /\ pc[w] = "store" /\ pc'[w] = "fail"
    BY <1>0, <1>8 DEF StoreFails, Put
  <2>2. NewCopy(w).user = user[w] /\ user[w] \in left[w]
    BY <1>0, <2>1, NewCopyType
  <2> QED BY <2>1, <2>2 DEF Own
<1>9. CASE Fail(w) \/ FailFails(w) \/ Finish(w)
  BY <1>0, <1>2, <1>9, DoneClears DEF Fail, FailFails, Finish
<1>10. CASE Step(w)
  BY <1>3, <1>4, <1>5, <1>6, <1>7, <1>8, <1>9, <1>10 DEF Step
<1> QED BY <1>0, <1>1, <1>2, <1>10, Frame

(* A copy that a successful attempt left.                                  *)
Kept(c) == c \in box \ spoiled /\ \A w \in Worker : c \notin mine[w]

LEMMA KeptStays ==
  ASSUME TypeInv, Numbered, [Next]_vars, NEW c, Kept(c)
  PROVE  Kept(c)'
<1>1. c \in box'
  BY Growth DEF TypeInv, Kept
<1>2. c \notin spoiled'
  BY SpoiledStep DEF Kept
<1>3. ASSUME NEW w \in Worker
      PROVE  c \notin mine'[w]
  BY MineStep DEF Kept
<1> QED BY <1>1, <1>2, <1>3 DEF Kept

LEMMA NewlyKept ==
  ASSUME TypeInv, Numbered, [Next]_vars, NEW c, Kept(c)', ~Kept(c)
  PROVE  \E w \in Worker : Finish(w) /\ c \in mine[w]
<1>0. TypeOK /\ BoxFinite /\ HandsOK /\ spoiled \subseteq spoiled'
  BY TypeParts, Growth DEF TypeInv
<1>1. c \in box
  <2>1. SUFFICES ASSUME c \notin box
                 PROVE  FALSE
    OBVIOUS
  <2>2. PICK w \in Worker : Put(w)
    BY <1>0, <2>1, BoxStep DEF Kept
  <2>3. c \in mine'[w]
    BY <1>0, <2>1, <2>2 DEF Put, Kept, HandsOK
  <2> QED BY <2>3 DEF Kept
<1>2. PICK w \in Worker : c \in mine[w]
  BY <1>0, <1>1 DEF Kept
<1>3. c \notin mine'[w] /\ c \notin spoiled'
  BY DEF Kept
<1> QED BY <1>2, <1>3, MineStep

(* Complete, by copies that stay.                                          *)
Completed ==
  \A m \in Mail : \A u \in finished[m] : \E c : Kept(c) /\ c.mail = m /\ c.user = u

LEMMA CompletedStep ==
  ASSUME TypeInv, Numbered, Apart, \A w \in Worker : Own(w), Completed, [Next]_vars
  PROVE  Completed'
<1> USE DEF dbVars, goVars, history
<1>0. TablesOK /\ HandsOK /\ \A w \in Worker : PlaceOK(w)
  BY TypeParts DEF TypeInv
<1>1. ASSUME NEW m \in Mail, NEW u \in finished'[m], u \in finished[m]
      PROVE  \E c : Kept(c)' /\ c.mail = m /\ c.user = u
  BY <1>1, KeptStays DEF Completed
<1>2. ASSUME NEW w \in Worker, Finish(w), NEW u \in route[w]
      PROVE  \E c : Kept(c)' /\ c.mail = Held(w) /\ c.user = u
  <2>1. PICK c \in mine[w] : c.user = u
    BY <1>2 DEF Finish, Own
  <2>2. c.mail = Held(w) /\ c \in box
    BY <1>0, <2>1 DEF PlaceOK, HandsOK
  <2>3. Cleared(w) /\ \A v \in Worker \ {w} : Fixed(v)
    BY <1>0, <1>2, DoneClears DEF Finish
  <2>4. box' = box /\ spoiled' = spoiled
    BY <1>2 DEF Finish
  <2>5. \A v \in Worker : c \notin mine'[v]
    BY <2>1, <2>3 DEF Cleared, Fixed, Apart
  <2> QED BY <2>1, <2>2, <2>4, <2>5 DEF Kept, Apart
<1>3. ASSUME NEW m \in Mail, NEW u \in finished'[m], u \notin finished[m]
      PROVE  \E w \in Worker : Finish(w) /\ m = Held(w) /\ u \in route[w]
  <2>1. ASSUME NEW w \in Worker, Finish(w)
        PROVE  m = Held(w) /\ u \in route[w]
    BY <1>0, <1>3, <2>1 DEF Finish, TablesOK
  <2>2. ASSUME NEW w \in Worker, Step(w), ~Finish(w)
        PROVE  finished' = finished
    BY <2>2 DEF Step, Take, Fail, FailFails, Resolve, ResolveFails, ResolveMisled, Judge,
       JudgeMisled, FindThread, FindThreadFails, InsertThread, InsertThreadTooLong,
       InsertThreadFails, Store, StoreFails
  <2>3. CASE \/ \E j \in queue : PromoteTwice(j)
             \/ \E a \in Address, targets \in SUBSET User : SetAliasTargets(a, targets)
             \/ \E x \in User \cup {None} : SetDomainCatchall(x)
             \/ Crash \/ UNCHANGED vars
    BY <1>3, <2>3 DEF PromoteTwice, SetAliasTargets, SetDomainCatchall, Crash, vars
  <2> QED BY <1>3, <2>1, <2>2, <2>3 DEF Next
<1>4. ASSUME NEW m \in Mail, NEW u \in finished'[m]
      PROVE  \E c : Kept(c)' /\ c.mail = m /\ c.user = u
  BY <1>1, <1>2, <1>3
<1> QED BY <1>4 DEF Completed

-----------------------------------------------------------------------------
(* Jobs: a mail no job of which was promoted twice has one at most.        *)

Holds(w, m) == hand[w] # None /\ Held(w) = m

Alone ==
  \A m \in Mail \ doubled :
    /\ \A i, j \in queue : i.mail = m /\ j.mail = m => i = j
    /\ \A v, w \in Worker : Holds(v, m) /\ Holds(w, m) => v = w
    /\ \A j \in queue, w \in Worker : ~(j.mail = m /\ Holds(w, m))

Pending(m) == (\E j \in queue : j.mail = m) \/ \E w \in Worker : Holds(w, m)

Loses ==
  /\ queue' = queue
  /\ \A v \in Worker : hand'[v] \in {hand[v], None}

Moves(w, j) ==
  /\ j \in queue /\ queue' = queue \ {j} /\ hand[w] = None
  /\ hand' = [hand EXCEPT ![w] = j]

Returns(w, j) ==
  /\ hand[w] # None /\ j.mail = Held(w) /\ queue' = queue \cup {j}
  /\ hand' = [hand EXCEPT ![w] = None]

Doubles(i, j) ==
  /\ i \in queue /\ j.mail = i.mail /\ queue' = queue \cup {j}
  /\ doubled' = doubled \cup {i.mail} /\ hand' = hand

(* What a step does to the jobs.                                           *)
LEMMA JobMoves ==
  ASSUME TypeInv, [Next]_vars
  PROVE  \/ Loses
         \/ \E w \in Worker, j \in Job : Moves(w, j)
         \/ \E w \in Worker, j \in Job : Returns(w, j)
         \/ \E i \in Job, j \in Job : Doubles(i, j)
<1> USE DEF dbVars, goVars, history, HandsOK
<1>0. TypeOK /\ HandsOK /\ JobsOK /\ TablesOK /\ \A w \in Worker : PlaceOK(w)
  BY TypeParts DEF TypeInv
<1>1. ASSUME NEW w \in Worker, Take(w)
      PROVE  \E j \in Job : Moves(w, j)
  BY <1>0, <1>1 DEF Take, Moves, JobsOK, PlaceOK
<1>2. ASSUME NEW w \in Worker, Fail(w)
      PROVE  Loses \/ \E j \in Job : Returns(w, j)
  <2>1. hand[w] \in Job /\ hand[w] # None
    BY <1>0, <1>2, HoldsJob DEF Fail, PlaceOK, PC
  <2>2. hand' = [hand EXCEPT ![w] = None]
    BY <1>2 DEF Fail, Done
  <2>3. CASE hand[w].attempts + 1 < MaxAttempts
    <3> DEFINE j == [hand[w] EXCEPT !.attempts = @ + 1]
    <3>1. j \in Job /\ j.mail = Held(w)
      BY <2>1, <2>3 DEF Job, Held
    <3>2. queue' = queue \cup {j}
      BY <1>2, <2>3 DEF Fail
    <3>3. Returns(w, j)
      BY <2>1, <2>2, <3>1, <3>2 DEF Returns
    <3> QED BY <3>1, <3>3
  <2>4. CASE ~(hand[w].attempts + 1 < MaxAttempts)
    BY <1>0, <1>2, <2>2, <2>4 DEF Fail, Loses
  <2> QED BY <2>3, <2>4
<1>3. ASSUME NEW w \in Worker, FailFails(w) \/ Finish(w)
      PROVE  Loses
  BY <1>0, <1>3 DEF FailFails, Finish, Done, Loses
<1>4. ASSUME NEW w \in Worker, Step(w),
             ~(Take(w) \/ Fail(w) \/ FailFails(w) \/ Finish(w))
      PROVE  Loses
  BY <1>4 DEF Step, Resolve, ResolveFails, ResolveMisled, Judge, JudgeMisled, FindThread,
     FindThreadFails, InsertThread, InsertThreadTooLong, InsertThreadFails, Store, StoreFails,
     Loses
<1>5. ASSUME NEW i \in queue, PromoteTwice(i)
      PROVE  \E j \in Job : i \in Job /\ Doubles(i, j)
  <2> DEFINE j == [i EXCEPT !.id = disrupted + 1]
  <2>1. i \in Job /\ disrupted + 1 \in 0..MaxDisruptions
    BY <1>0, <1>5 DEF JobsOK, TablesOK, PromoteTwice, Disrupt
  <2>2. j \in Job /\ j.mail = i.mail
    BY <2>1 DEF Job
  <2>3. Doubles(i, j)
    BY <1>5, <2>2 DEF PromoteTwice, Doubles
  <2> QED BY <2>1, <2>2, <2>3
<1>6. CASE \/ \E a \in Address, targets \in SUBSET User : SetAliasTargets(a, targets)
           \/ \E u \in User \cup {None} : SetDomainCatchall(u)
           \/ Crash \/ UNCHANGED vars
  BY <1>6 DEF SetAliasTargets, SetDomainCatchall, Crash, vars, Loses
<1> QED BY <1>1, <1>2, <1>3, <1>4, <1>5, <1>6 DEF Next

LEMMA AloneStep ==
  ASSUME TypeInv, Alone, [Next]_vars
  PROVE  Alone'
<1> USE DEF Alone, Holds, Held
<1>0. HandsOK /\ JobsOK /\ None \notin Job /\ doubled \subseteq doubled'
  BY TypeParts, Growth DEF TypeInv, Job
<1>1. CASE Loses
  BY <1>0, <1>1 DEF Loses
<1>2. ASSUME NEW w \in Worker, NEW j \in Job, Moves(w, j)
      PROVE  Alone'
  BY <1>0, <1>2 DEF Moves, HandsOK
<1>3. ASSUME NEW w \in Worker, NEW j \in Job, Returns(w, j)
      PROVE  Alone'
  BY <1>0, <1>3 DEF Returns, HandsOK
<1>4. ASSUME NEW i \in Job, NEW j \in Job, Doubles(i, j)
      PROVE  Alone'
  BY <1>0, <1>4 DEF Doubles
<1> QED BY <1>1, <1>2, <1>3, <1>4, JobMoves

(* Without a second promotion, no step makes a job for a mail without one. *)
LEMMA PendingStep ==
  ASSUME TypeInv, [Next]_vars, NEW m \in Mail \ doubled', Pending(m)'
  PROVE  Pending(m)
<1> USE DEF Pending, Holds, Held
<1>0. HandsOK
  BY TypeParts DEF TypeInv
<1>1. CASE Loses
  BY <1>0, <1>1 DEF Loses
<1>2. ASSUME NEW w \in Worker, NEW j \in Job, Moves(w, j)
      PROVE  Pending(m)
  BY <1>0, <1>2 DEF Moves, HandsOK
<1>3. ASSUME NEW w \in Worker, NEW j \in Job, Returns(w, j)
      PROVE  Pending(m)
  BY <1>0, <1>3 DEF Returns, HandsOK
<1>4. ASSUME NEW i \in Job, NEW j \in Job, Doubles(i, j)
      PROVE  Pending(m)
  BY <1>0, <1>4 DEF Doubles
<1> QED BY <1>1, <1>2, <1>3, <1>4, JobMoves

(* Once a successful attempt left a copy, its mail has no job any more.    *)
Quiet == \A c : Kept(c) /\ c.mail \notin doubled => ~Pending(c.mail)

LEMMA QuietStep ==
  ASSUME TypeInv, Numbered, Alone, Quiet, [Next]_vars
  PROVE  Quiet'
<1>0. /\ HandsOK /\ (\A w \in Worker : PlaceOK(w)) /\ doubled \subseteq doubled'
      /\ box' \subseteq Copy
  BY TypeParts, Growth, TypeStep DEF TypeInv, TypeOK
<1> SUFFICES ASSUME NEW c, Kept(c)', c.mail \notin doubled'
             PROVE  ~Pending(c.mail)'
  BY DEF Quiet
<1>1. c.mail \in Mail \ doubled'
  BY <1>0 DEF Kept, Copy
<1>2. CASE Kept(c)
  BY <1>0, <1>1, <1>2, PendingStep DEF Quiet
<1>3. CASE ~Kept(c)
  <2>1. PICK w \in Worker : Finish(w) /\ c \in mine[w]
    BY <1>3, NewlyKept
  <2>2. Holds(w, c.mail)
    BY <1>0, <2>1 DEF PlaceOK, Holds
  <2>3. queue' = queue /\ hand' = [hand EXCEPT ![w] = None]
    BY <2>1 DEF Finish, Done
  <2>4. \A j \in queue' : j.mail # c.mail
    BY <1>0, <1>1, <2>2, <2>3 DEF Alone
  <2>5. \A v \in Worker : ~Holds(v, c.mail)'
    BY <1>0, <1>1, <2>2, <2>3 DEF Alone, Holds, Held, HandsOK
  <2> QED BY <2>4, <2>5 DEF Pending
<1> QED BY <1>2, <1>3

LEMMA OneGoodCopyStep ==
  ASSUME TypeInv, Apart, \A w \in Worker : Own(w), Alone, Quiet, OneGoodCopy, [Next]_vars
  PROVE  OneGoodCopy'
<1>0. /\ TypeOK /\ BoxFinite /\ HandsOK /\ (\A w \in Worker : PlaceOK(w))
      /\ box \subseteq box' /\ spoiled \subseteq spoiled' /\ doubled \subseteq doubled'
  BY TypeParts, Growth DEF TypeInv
<1>1. ASSUME NEW w \in Worker, pc[w] = "store", Held(w) \notin doubled,
             NEW d \in box \ spoiled, d.mail = Held(w), d.user = user[w]
      PROVE  FALSE
  <2>1. Holds(w, d.mail) /\ d.mail \in Mail \ doubled /\ d.user \in left[w]
    BY <1>0, <1>1, HoldsJob DEF Holds, PlaceOK
  <2>2. CASE Kept(d)
    BY <2>1, <2>2 DEF Quiet, Pending
  <2>3. ASSUME NEW v \in Worker, d \in mine[v]
        PROVE  FALSE
    <3>1. Holds(v, d.mail)
      BY <1>0, <2>3 DEF PlaceOK, Holds
    <3>2. v = w
      BY <2>1, <3>1 DEF Alone
    <3> QED BY <1>1, <2>1, <2>3, <3>2 DEF Own
  <2> QED BY <1>1, <2>2, <2>3 DEF Kept
<1>2. ASSUME NEW w \in Worker, Store(w) \/ StoreFails(w), Put(w)
      PROVE  OneGoodCopy'
  <2>1. pc[w] = "store" /\ box' = box \cup {NewCopy(w)}
    BY <1>2 DEF Store, StoreFails, Put
  <2>2. NewCopy(w).mail = Held(w) /\ NewCopy(w).user = user[w]
    BY <1>0, <2>1, NewCopyType
  <2>3. ASSUME NEW c \in box' \ spoiled', NEW d \in box' \ spoiled', c.mail = d.mail,
               c.user = d.user, c.mail \notin doubled'
        PROVE  c = d
    <3>1. CASE c \in box /\ d \in box
      BY <1>0, <2>3, <3>1 DEF OneGoodCopy
    <3>2. CASE c \in box /\ d = NewCopy(w)
      BY <1>0, <1>1, <2>1, <2>2, <2>3, <3>2
    <3>3. CASE d \in box /\ c = NewCopy(w)
      BY <1>0, <1>1, <2>1, <2>2, <2>3, <3>3
    <3> QED BY <2>1, <2>3, <3>1, <3>2, <3>3
  <2> QED BY <2>3 DEF OneGoodCopy
<1>3. CASE box' = box
  BY <1>0, <1>3 DEF OneGoodCopy
<1> QED BY <1>0, <1>2, <1>3, BoxStep

-----------------------------------------------------------------------------
(* The theorems.                                                           *)

CopiesInv ==
  /\ Numbered /\ Apart /\ (\A w \in Worker : Own(w))
  /\ Completed /\ Alone /\ Quiet /\ OneGoodCopy

InboundInv == TypeInv /\ LookupsInv /\ ThreadsInv /\ CopiesInv

LEMMA InboundInit == Init => InboundInv
<1> SUFFICES ASSUME Init PROVE InboundInv
  OBVIOUS
<1>1. TypeInv
  BY TypeInit
<1>2. LookupsInv
  BY DEF Init, LookupsInv, LookupsDecide, LookedUp
<1>3. ThreadsInv
  BY DEF Init, ThreadsInv, ThreadsHold, Threading
<1>4. Numbered /\ Apart /\ (\A w \in Worker : Own(w)) /\ Completed /\ OneGoodCopy
  BY DEF Init, Numbered, Apart, Own, Completed, OneGoodCopy
<1>5. Alone
  BY DEF Init, Alone, Holds
<1>6. Quiet
  BY DEF Init, Quiet, Kept
<1> QED BY <1>1, <1>2, <1>3, <1>4, <1>5, <1>6 DEF InboundInv, CopiesInv

LEMMA InboundStep ==
  ASSUME InboundInv, [Next]_vars
  PROVE  InboundInv'
<1> USE DEF CopiesInv
<1>1. TypeInv' /\ LookupsInv' /\ ThreadsInv'
  BY TypeStep, LookupsStep, ThreadsStep DEF InboundInv
<1>2. Numbered' /\ Apart' /\ Alone' /\ Quiet'
  BY NumberedStep, ApartStep, AloneStep, QuietStep DEF InboundInv
<1>3. \A w \in Worker : Own(w)'
  BY OwnStep DEF InboundInv
<1>4. Completed' /\ OneGoodCopy'
  BY CompletedStep, OneGoodCopyStep DEF InboundInv
<1> QED BY <1>1, <1>2, <1>3, <1>4 DEF InboundInv

(* Every reachable state satisfies the inductive invariant: types, what    *)
(* the lookups said, threads, and which attempt owns which copy.           *)
THEOREM InboundInvariant == Spec => []InboundInv
BY InboundInit, InboundStep, PTL DEF Spec

(* Whatever the processors, the administrator and the failures do, the     *)
(* tables, the jobs and the processors hold values of their types.         *)
THEOREM TypeCorrect == Spec => []TypeOK
<1>1. InboundInv => TypeOK
  BY DEF InboundInv, TypeInv
<1> QED BY <1>1, InboundInvariant, PTL

(* ResolveRecipients and EvaluateInbound decide whose copy is stored.      *)
THEOREM LookupsAreDecisive == Spec => []LookupsDecide
<1>1. InboundInv => LookupsDecide
  BY DEF InboundInv, LookupsInv
<1> QED BY <1>1, InboundInvariant, PTL

(* FindOrCreateThread and the insertion of a copy leave every copy in its  *)
(* user's thread of its subject, but for the cases ThreadsHold names.      *)
THEOREM ThreadsAlwaysHold == Spec => []ThreadsHold
<1>1. InboundInv => ThreadsHold
  BY DEF InboundInv, ThreadsInv
<1> QED BY <1>1, InboundInvariant, PTL

(* A job that Process ended without error left every user it resolved with *)
(* a copy, which stays.                                                    *)
THEOREM SuccessIsComplete == Spec => []Complete
<1>1. InboundInv => Complete
  BY DEF InboundInv, CopiesInv, Completed, Complete, Kept
<1> QED BY <1>1, InboundInvariant, PTL

(* Process gives a user no second copy of a mail unless an attempt that    *)
(* stored the first failed or died, or the queue promoted its job twice.   *)
THEOREM NoUnearnedCopy == Spec => []OneGoodCopy
<1>1. InboundInv => OneGoodCopy
  BY DEF InboundInv, CopiesInv
<1> QED BY <1>1, InboundInvariant, PTL

=============================================================================
