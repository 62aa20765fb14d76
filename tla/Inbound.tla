------------------------------ MODULE Inbound ------------------------------
(***************************************************************************)
(* The processor of inbound mail (InboundProcessor): a recipient address   *)
(* is resolved to users, the sender is judged, and every user gets a copy  *)
(* of the mail, in a thread of their own, by transactions that commit one  *)
(* by one.  An attempt that fails between two users is repeated from the   *)
(* start by the worker pool.                                               *)
(*                                                                         *)
(* queue:jobs is a set of jobs any free worker may take, as in Outbound.   *)
(* A user has at most one thread per subject (threads_unique_subject), so  *)
(* a thread is named by its subject.  Searches for an answered mail never  *)
(* match: Process passes an empty inReplyTo, and Postmark gives every mail *)
(* a MessageID.  Nothing in the program fills greylist (RecordGreylist is  *)
(* called only for a sender who is on it), so its branch is left out; so   *)
(* are the system labels and IMAP UIDs that go with a copy, of which no    *)
(* property here speaks.                                                   *)
(***************************************************************************)
EXTENDS Integers, FiniteSets

CONSTANTS
  Mail,           \* inbound mails, each the payload of one job
  User,
  Address,        \* recipient addresses
  To,             \* the recipient of a mail
  Owner,          \* the user whose email an address is, or None
  Subject,        \* the subject of a mail
  TooLong,        \* subjects of more than 64 characters
  Whitelist,      \* mails whose sender is on whitelist
  Blacklist,      \* mails whose sender is on blacklist
  FirstAlias,     \* the aliases at the start: target users of an address
  FirstCatchall,  \* the domain's catch-all user at the start, or None
  Worker,         \* goroutines that run the processor
  MaxAttempts,    \* Job.MaxAttempts, 3 in the code
  MaxRoutings,    \* bound: how often the administrator changes the routing
  Disruptions,    \* which of "db", "redis", "crash" may happen
  MaxDisruptions, \* bound: how many of them may happen in a behaviour
  None

Subjects == {Subject[m] : m \in Mail}

ASSUME InboundAssumption ==
  /\ To \in [Mail -> Address]
  /\ Owner \in [Address -> User \cup {None}]
  /\ DOMAIN Subject = Mail /\ TooLong \subseteq Subjects
  /\ Whitelist \subseteq Mail /\ Blacklist \subseteq Mail
  /\ FirstAlias \in [Address -> SUBSET User]
  /\ FirstCatchall \in User \cup {None}
  /\ MaxAttempts \in Nat \ {0} /\ MaxRoutings \in Nat
  /\ Disruptions \subseteq {"db", "redis", "crash"} /\ MaxDisruptions \in Nat
  /\ None \notin User \cup Subjects
  /\ None \notin [mail : Mail, attempts : Nat, id : Nat]

VARIABLES
  \* PostgreSQL
  alias,       \* target users of an address, {} when it is no alias
  catchall,    \* the domain's catch-all user, or None
  listed,      \* message_ids of a user's thread, {} when there is none
  box,         \* copies of mails in the users' mailboxes
  \* Redis
  queue,       \* jobs that wait, ready or delayed
  dead,        \* jobs in queue:jobs:dead
  \* the workers
  pc,          \* where a processor stands
  hand,        \* the job it runs
  route,       \* the users it resolved the recipient to
  left,        \* those it has yet to serve
  user,        \* the user it is serving
  thread,      \* the thread of that user's copy
  mine,        \* copies this attempt stored
  \* the environment
  routings,    \* number of changes of the routing so far
  disrupted,   \* number of disruptions so far
  \* history
  finished,    \* the users successful attempts resolved a mail to
  spoiled,     \* copies stored by attempts that failed in the end
  misled,      \* mails of which a failed lookup was taken for an answer
  doubled,     \* mails whose delayed job two goroutines promoted
  unlisted,    \* a mail and a user whose thread appeared between the search
               \* and the insertion
  loose        \* a mail and a user for whom FindOrCreateThread failed

dbVars == <<alias, catchall, listed, box>>
goVars == <<pc, hand, route, left, user, thread, mine>>
history == <<finished, spoiled, misled, doubled, unlisted, loose>>
vars == <<dbVars, queue, dead, goVars, routings, disrupted, history>>

(* "idle"    has no job                                                    *)
(* "resolve" about to resolve the recipient                                *)
(* "judge"   about to evaluate the sender                                  *)
(* "next"    at the head of the loop over the users                        *)
(* "insert"  in FindOrCreateThread, found none and is about to insert one  *)
(* "store"   about to store the user's copy                                *)
(* "fail"    returned an error                                             *)
PC == {"idle", "resolve", "judge", "next", "insert", "store", "fail"}

Job == [mail : Mail, attempts : 0..MaxAttempts - 1, id : 0..MaxDisruptions]

(* nth tells copies of one mail apart, as their fresh ids do.              *)
Copy == [mail : Mail, user : User, thread : Subjects \cup {None}, nth : Nat]

-----------------------------------------------------------------------------

Init ==
  /\ alias = FirstAlias /\ catchall = FirstCatchall
  /\ listed = [u \in User |-> [s \in Subjects |-> {}]]
  /\ box = {}
  /\ queue = {[mail |-> m, attempts |-> 0, id |-> 0] : m \in Mail}
  /\ dead = {}
  /\ pc = [w \in Worker |-> "idle"]
  /\ hand = [w \in Worker |-> None]
  /\ route = [w \in Worker |-> {}]
  /\ left = [w \in Worker |-> {}]
  /\ user = [w \in Worker |-> None]
  /\ thread = [w \in Worker |-> None]
  /\ mine = [w \in Worker |-> {}]
  /\ routings = 0 /\ disrupted = 0
  /\ finished = [m \in Mail |-> {}]
  /\ spoiled = {} /\ misled = {} /\ doubled = {} /\ unlisted = {} /\ loose = {}

Disrupt(d) ==
  /\ d \in Disruptions
  /\ disrupted < MaxDisruptions
  /\ disrupted' = disrupted + 1

GoTo(w, l) == pc' = [pc EXCEPT ![w] = l]

Held(w) == hand[w].mail

(* The goroutine is back at the head of its loop.                          *)
Done(w) ==
  /\ GoTo(w, "idle")
  /\ hand' = [hand EXCEPT ![w] = None]
  /\ route' = [route EXCEPT ![w] = {}]
  /\ left' = [left EXCEPT ![w] = {}]
  /\ user' = [user EXCEPT ![w] = None]
  /\ thread' = [thread EXCEPT ![w] = None]
  /\ mine' = [mine EXCEPT ![w] = {}]

-----------------------------------------------------------------------------
(* The worker pool.                                                        *)

(* Mutant: the job stays on the queue until it is done.                    *)
TakeCopy(w) ==
  /\ pc[w] = "idle"
  /\ \E j \in queue : hand' = [hand EXCEPT ![w] = j]
  /\ GoTo(w, "resolve")
  /\ UNCHANGED <<dbVars, queue, dead, route, left, user, thread, mine,
                 routings, disrupted, history>>

(* A worker takes a job off the queue.                                     *)
Take(w) ==
  /\ pc[w] = "idle"
  /\ \E j \in queue :
       /\ queue' = queue \ {j}
       /\ hand' = [hand EXCEPT ![w] = j]
  /\ GoTo(w, "resolve")
  /\ UNCHANGED <<dbVars, dead, route, left, user, thread, mine, routings,
                 disrupted, history>>

(* Mutant: the copies of the failed attempt are counted to the next one.   *)
FailKeeping(w) ==
  /\ pc[w] = "fail"
  /\ IF hand[w].attempts + 1 < MaxAttempts
     THEN /\ queue' = queue \cup {[hand[w] EXCEPT !.attempts = @ + 1]}
          /\ UNCHANGED dead
     ELSE dead' = dead \cup {hand[w]} /\ UNCHANGED queue
  /\ GoTo(w, "idle")
  /\ hand' = [hand EXCEPT ![w] = None]
  /\ UNCHANGED <<dbVars, route, left, user, thread, mine, routings,
                 disrupted, history>>

(* A failed job is delayed for its next attempt or dead-lettered.          *)
Fail(w) ==
  /\ pc[w] = "fail"
  /\ IF hand[w].attempts + 1 < MaxAttempts
     THEN /\ queue' = queue \cup {[hand[w] EXCEPT !.attempts = @ + 1]}
          /\ UNCHANGED dead
     ELSE dead' = dead \cup {hand[w]} /\ UNCHANGED queue
  /\ spoiled' = spoiled \cup mine[w]
  /\ Done(w)
  /\ UNCHANGED <<dbVars, routings, disrupted, finished, misled, doubled,
                 unlisted, loose>>

(* Neither works, and the job is gone.                                     *)
FailFails(w) ==
  /\ pc[w] = "fail"
  /\ Disrupt("redis")
  /\ spoiled' = spoiled \cup mine[w]
  /\ Done(w)
  /\ UNCHANGED <<dbVars, queue, dead, routings, finished, misled, doubled,
                 unlisted, loose>>

(* Two goroutines promote one delayed retry.                               *)
PromoteTwice(j) ==
  /\ j.attempts > 0
  /\ Disrupt("redis")
  /\ queue' = queue \cup {[j EXCEPT !.id = disrupted + 1]}
  /\ doubled' = doubled \cup {j.mail}
  /\ UNCHANGED <<dbVars, dead, goVars, routings, finished, spoiled, misled,
                 unlisted, loose>>

(* The worker process dies with the jobs in its hands.                     *)
Crash ==
  /\ Disrupt("crash")
  /\ spoiled' = spoiled \cup UNION {mine[w] : w \in Worker}
  /\ pc' = [w \in Worker |-> "idle"]
  /\ hand' = [w \in Worker |-> None]
  /\ route' = [w \in Worker |-> {}]
  /\ left' = [w \in Worker |-> {}]
  /\ user' = [w \in Worker |-> None]
  /\ thread' = [w \in Worker |-> None]
  /\ mine' = [w \in Worker |-> {}]
  /\ UNCHANGED <<dbVars, queue, dead, routings, finished, misled, doubled,
                 unlisted, loose>>

-----------------------------------------------------------------------------
(* Where the mail goes, and whether it may.                                *)

Perhaps(u) == {u} \ {None}

(* The targets of an address that is no user's: an alias, the catch-all    *)
(* user, or nobody.                                                        *)
Fallback(a) == IF alias[a] # {} THEN alias[a] ELSE Perhaps(catchall)

(* Mutant: aliases come before users.                                      *)
ResolutionOfAlias(a) == IF alias[a] # {} THEN alias[a] ELSE Perhaps(Owner[a])

(* ResolveRecipients.                                                      *)
Resolution(a) == IF Owner[a] # None THEN {Owner[a]} ELSE Fallback(a)

RouteTo(w, targets) ==
  /\ GoTo(w, IF targets = {} THEN "fail" ELSE "judge")
  /\ route' = [route EXCEPT ![w] = targets]

Resolve(w) ==
  /\ pc[w] = "resolve"
  /\ RouteTo(w, Resolution(To[Held(w)]))
  /\ UNCHANGED <<dbVars, queue, dead, hand, left, user, thread, mine,
                 routings, disrupted, history>>

(* The lookup of the domain, the alias or the catch-all user fails.        *)
ResolveFails(w) ==
  /\ pc[w] = "resolve"
  /\ Disrupt("db")
  /\ GoTo(w, "fail")
  /\ UNCHANGED <<dbVars, queue, dead, hand, route, left, user, thread, mine,
                 routings, history>>

(* The lookup of the user fails, which counts as "no such user".           *)
ResolveMisled(w) ==
  /\ pc[w] = "resolve"
  /\ Disrupt("db")
  /\ RouteTo(w, Fallback(To[Held(w)]))
  /\ misled' = misled \cup {Held(w)}
  /\ UNCHANGED <<dbVars, queue, dead, hand, left, user, thread, mine,
                 routings, finished, spoiled, doubled, unlisted, loose>>

Verdict(w, blocked) ==
  /\ GoTo(w, IF blocked THEN "fail" ELSE "next")
  /\ left' = [left EXCEPT ![w] = IF blocked THEN {} ELSE route[w]]

(* EvaluateInbound: the whitelist, then the blacklist.                     *)
Judge(w) ==
  /\ pc[w] = "judge"
  /\ Verdict(w, Held(w) \in Blacklist \ Whitelist)
  /\ UNCHANGED <<dbVars, queue, dead, hand, route, user, thread, mine,
                 routings, disrupted, history>>

(* A search of one of the lists fails, which counts as "not on it".        *)
JudgeMisled(w) ==
  /\ pc[w] = "judge"
  /\ Disrupt("db")
  /\ \/ Verdict(w, Held(w) \in Blacklist)
     \/ Verdict(w, FALSE)
  /\ misled' = misled \cup {Held(w)}
  /\ UNCHANGED <<dbVars, queue, dead, hand, route, user, thread, mine,
                 routings, finished, spoiled, doubled, unlisted, loose>>

-----------------------------------------------------------------------------
(* The loop over the users.                                                *)

Serve(w, u, t, l) ==
  /\ user' = [user EXCEPT ![w] = u]
  /\ thread' = [thread EXCEPT ![w] = t]
  /\ GoTo(w, l)

Title(w) == Subject[Held(w)]

(* Mutant: the mail is not added to the thread it is put in.               *)
FindThreadOnly(w, u) ==
  /\ pc[w] = "next" /\ u \in left[w]
  /\ IF listed[u][Title(w)] # {}
     THEN Serve(w, u, Title(w), "store")
     ELSE Serve(w, u, None, "insert")
  /\ UNCHANGED <<dbVars, queue, dead, hand, route, left, mine, routings,
                 disrupted, history>>

(* FindOrCreateThread locks the user's thread and adds the mail to it, or  *)
(* finds none.                                                             *)
FindThread(w, u) ==
  /\ pc[w] = "next" /\ u \in left[w]
  /\ IF listed[u][Title(w)] # {}
     THEN /\ Serve(w, u, Title(w), "store")
          /\ listed' = [listed EXCEPT ![u][Title(w)] = @ \cup {Held(w)}]
     ELSE Serve(w, u, None, "insert") /\ UNCHANGED listed
  /\ UNCHANGED <<alias, catchall, box, queue, dead, hand, route, left, mine,
                 routings, disrupted, history>>

(* It fails, committed or not; the copy gets no thread.                    *)
FindThreadFails(w, u) ==
  /\ pc[w] = "next" /\ u \in left[w]
  /\ Disrupt("db")
  /\ Serve(w, u, None, "store")
  /\ listed' \in {listed, [listed EXCEPT ![u][Title(w)] =
                             IF @ = {} THEN {} ELSE @ \cup {Held(w)}]}
  /\ loose' = loose \cup {<<Held(w), u>>}
  /\ UNCHANGED <<alias, catchall, box, queue, dead, hand, route, left, mine,
                 routings, finished, spoiled, misled, doubled, unlisted>>

(* The insertion of the thread.  If there is one by now, the mail joins it *)
(* without being added to its message_ids.                                 *)
InsertThread(w) ==
  /\ pc[w] = "insert" /\ Title(w) \notin TooLong
  /\ Serve(w, user[w], Title(w), "store")
  /\ IF listed[user[w]][Title(w)] = {}
     THEN /\ listed' = [listed EXCEPT ![user[w]][Title(w)] = {Held(w)}]
          /\ UNCHANGED unlisted
     ELSE unlisted' = unlisted \cup {<<Held(w), user[w]>>} /\ UNCHANGED listed
  /\ UNCHANGED <<alias, catchall, box, queue, dead, hand, route, left, mine,
                 routings, disrupted, finished, spoiled, misled, doubled,
                 loose>>

(* The subject does not fit subject_hash VARCHAR(64).                      *)
InsertThreadTooLong(w) ==
  /\ pc[w] = "insert" /\ Title(w) \in TooLong
  /\ Serve(w, user[w], None, "store")
  /\ UNCHANGED <<dbVars, queue, dead, hand, route, left, mine, routings,
                 disrupted, history>>

(* The insertion fails, committed or not.                                  *)
InsertThreadFails(w) ==
  /\ pc[w] = "insert" /\ Title(w) \notin TooLong
  /\ Disrupt("db")
  /\ Serve(w, user[w], None, "store")
  /\ listed' \in {listed, [listed EXCEPT ![user[w]][Title(w)] =
                             IF @ = {} THEN {Held(w)} ELSE @]}
  /\ loose' = loose \cup {<<Held(w), user[w]>>}
  /\ UNCHANGED <<alias, catchall, box, queue, dead, hand, route, left, mine,
                 routings, finished, spoiled, misled, doubled, unlisted>>

NewCopy(w) ==
  [mail |-> Held(w), user |-> user[w], thread |-> thread[w],
   nth |-> Cardinality({c \in box : c.mail = Held(w) /\ c.user = user[w]})]

Put(w) ==
  /\ box' = box \cup {NewCopy(w)}
  /\ mine' = [mine EXCEPT ![w] = @ \cup {NewCopy(w)}]

NextUser(w) ==
  /\ left' = [left EXCEPT ![w] = @ \ {user[w]}]
  /\ Serve(w, None, None, "next")

(* The copy is stored with its INBOX label, and the loop goes on.          *)
Store(w) ==
  /\ pc[w] = "store"
  /\ Put(w)
  /\ NextUser(w)
  /\ UNCHANGED <<alias, catchall, listed, queue, dead, hand, route, routings,
                 disrupted, history>>

(* Mutant: a failure to store is logged, and the loop goes on.             *)
StoreFailsOnly(w) ==
  /\ pc[w] = "store"
  /\ Disrupt("db")
  /\ Put(w) \/ UNCHANGED <<box, mine>>
  /\ NextUser(w)
  /\ UNCHANGED <<alias, catchall, listed, queue, dead, hand, route, routings,
                 history>>

(* The labels or the copy cannot be stored, or the answer to the commit is *)
(* lost: the attempt fails, and the users served so far keep their copies. *)
StoreFails(w) ==
  /\ pc[w] = "store"
  /\ Disrupt("db")
  /\ Put(w) \/ UNCHANGED <<box, mine>>
  /\ GoTo(w, "fail")
  /\ UNCHANGED <<alias, catchall, listed, queue, dead, hand, route, left,
                 user, thread, routings, history>>

(* Every user is served: the job is done.                                  *)
Finish(w) ==
  /\ pc[w] = "next" /\ left[w] = {}
  /\ finished' = [finished EXCEPT ![Held(w)] = @ \cup route[w]]
  /\ Done(w)
  /\ UNCHANGED <<dbVars, queue, dead, routings, disrupted, spoiled, misled,
                 doubled, unlisted, loose>>

-----------------------------------------------------------------------------
(* The administrator.                                                      *)

(* CreateAlias, SetAliasTargets and DeleteAlias: an alias without targets  *)
(* routes as if there were none.                                           *)
SetAliasTargets(a, targets) ==
  /\ routings < MaxRoutings /\ alias[a] # targets
  /\ alias' = [alias EXCEPT ![a] = targets]
  /\ routings' = routings + 1
  /\ UNCHANGED <<catchall, listed, box, queue, dead, goVars, disrupted,
                 history>>

SetDomainCatchall(u) ==
  /\ routings < MaxRoutings /\ catchall # u
  /\ catchall' = u
  /\ routings' = routings + 1
  /\ UNCHANGED <<alias, listed, box, queue, dead, goVars, disrupted, history>>

-----------------------------------------------------------------------------

Step(w) ==
  \/ Take(w) \/ Fail(w) \/ FailFails(w)
  \/ Resolve(w) \/ ResolveFails(w) \/ ResolveMisled(w)
  \/ Judge(w) \/ JudgeMisled(w)
  \/ \E u \in User : FindThread(w, u) \/ FindThreadFails(w, u)
  \/ InsertThread(w) \/ InsertThreadTooLong(w) \/ InsertThreadFails(w)
  \/ Store(w) \/ StoreFails(w) \/ Finish(w)

Next ==
  \/ \E w \in Worker : Step(w)
  \/ \E j \in queue : PromoteTwice(j)
  \/ Crash
  \/ \E a \in Address, targets \in SUBSET User : SetAliasTargets(a, targets)
  \/ \E u \in User \cup {None} : SetDomainCatchall(u)

Spec == Init /\ [][Next]_vars

-----------------------------------------------------------------------------
(* What inbound processing promises.                                       *)

(* Every variable holds a value of its type; a processor serves a user it  *)
(* resolved and has not served, and owns only copies of the mail it holds. *)
TypeOK ==
  /\ alias \in [Address -> SUBSET User] /\ catchall \in User \cup {None}
  /\ listed \in [User -> [Subjects -> SUBSET Mail]]
  /\ box \subseteq Copy
  /\ queue \subseteq Job /\ dead \subseteq Job
  /\ pc \in [Worker -> PC]
  /\ hand \in [Worker -> Job \cup {None}]
  /\ route \in [Worker -> SUBSET User] /\ left \in [Worker -> SUBSET User]
  /\ user \in [Worker -> User \cup {None}]
  /\ thread \in [Worker -> Subjects \cup {None}]
  /\ mine \in [Worker -> SUBSET box]
  /\ \A w \in Worker :
       /\ pc[w] # "idle" <=> hand[w] # None
       /\ pc[w] \in {"insert", "store"} => user[w] \in left[w]
       /\ left[w] \subseteq route[w]
       /\ \A c \in mine[w] : hand[w] # None /\ c.mail = Held(w)
  /\ routings \in 0..MaxRoutings /\ disrupted \in 0..MaxDisruptions
  /\ finished \in [Mail -> SUBSET User] /\ spoiled \subseteq box
  /\ misled \subseteq Mail /\ doubled \subseteq Mail
  /\ unlisted \subseteq Mail \X User /\ loose \subseteq Mail \X User

(* A user has a second copy of a mail only from an attempt that failed or  *)
(* died after it stored the copy, or from a job that was promoted twice.   *)
OneGoodCopy ==
  \A c, d \in box \ spoiled :
    c.mail = d.mail /\ c.user = d.user => c = d \/ c.mail \in doubled

(* A job that succeeded left every user it resolved with a copy that       *)
(* belongs to no failed attempt.                                           *)
Complete ==
  \A m \in Mail : \A u \in finished[m] :
    \E c \in box \ spoiled : c.mail = m /\ c.user = u

(* Whatever the administrator changes meanwhile, mail to a user's address  *)
(* is stored for that user alone, and mail of a blacklisted sender for     *)
(* nobody, unless a failed lookup was taken for an answer.                 *)
LookupsDecide ==
  \A c \in box : c.mail \notin misled =>
    /\ Owner[To[c.mail]] \in {c.user, None}
    /\ c.mail \notin Blacklist \ Whitelist

(* A copy is in its user's thread of its subject, which exists and lists   *)
(* the mail, unless another worker made the thread just then; a copy has   *)
(* no thread only when its subject is too long or the database failed.     *)
ThreadsHold ==
  \A c \in box :
    IF c.thread = None
    THEN Subject[c.mail] \in TooLong \/ <<c.mail, c.user>> \in loose
    ELSE /\ c.thread = Subject[c.mail]
         /\ listed[c.user][c.thread] # {}
         /\ c.mail \in listed[c.user][c.thread] \/ <<c.mail, c.user>> \in unlisted

=============================================================================
