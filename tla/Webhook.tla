------------------------------- MODULE Webhook -------------------------------
(***************************************************************************)
(* The intake of Postmark webhooks, internal/webhook (Handler): a request  *)
(* is verified, deduplicated with a Redis key that lives for five minutes, *)
(* turned into a job on queue:jobs, and answered.  The four handlers       *)
(* (inbound, bounce, delivery, spam) take the same steps and differ only   *)
(* in the type of the job, so one set of actions stands for all of them.   *)
(*                                                                         *)
(* Postmark is external: it delivers an event until it is answered with    *)
(* 200, one request at a time, and hangs up on a request that takes too    *)
(* long, which cancels the request's context but not its handler.          *)
(***************************************************************************)
EXTENDS Integers, FiniteSets

CONSTANTS
  Event,          \* events that Postmark reports
  MsgId,          \* values of the payload's MessageID
  NoId,           \* the payload has no MessageID
  MessageID,      \* the MessageID of an event: events of one message share it
  Request,        \* requests that may be in progress at one time
  Disturbances,   \* which of "reject", "redis", "hangup", "crash" may happen
  MaxDisturbances,\* bound: how many of them may happen in a behaviour
  MaxExpiries,    \* bound: how often the key of a MessageID may expire
  MaxTries,       \* bound: how often Postmark delivers an event
  NoEvent         \* no event

ASSUME WebhookAssumption ==
  /\ NoId \notin MsgId
  /\ MessageID \in [Event -> MsgId \cup {NoId}]
  /\ Disturbances \subseteq {"reject", "redis", "hangup", "crash"}
  /\ MaxDisturbances \in Nat /\ MaxExpiries \in Nat /\ MaxTries \in Nat
  /\ NoEvent \notin Event
  /\ IsFiniteSet(Request)

VARIABLES
  \* Redis
  seen,        \* MessageIDs whose key webhook:<MessageID> exists
  jobs,        \* how many jobs were pushed on queue:jobs for an event
  \* the handlers
  stage,       \* where the handler of a request stands
  ev,          \* the event the request carries
  granted,     \* the request is the one that created the key
  code,        \* the status the handler is about to write
  gone,        \* the client hung up: the request's context is cancelled
  \* Postmark
  tries,       \* requests sent for an event
  acked,       \* events answered with 200
  \* the environment
  disturbed,   \* number of disturbances so far
  expired,     \* how often a key expired
  \* history
  queued,      \* jobs pushed for events of a MessageID
  opened,      \* how often dedup let a request through because Redis failed
  wasted       \* MessageIDs whose key was created by a request that queued nothing

hookRedisVars == <<seen, jobs>>
reqVars == <<stage, ev, granted, code, gone>>
postmarkVars == <<tries, acked>>
hookHistory == <<queued, opened, wasted>>
hookVars == <<hookRedisVars, reqVars, postmarkVars, disturbed, expired, hookHistory>>

Id(r) == MessageID[ev[r]]

-----------------------------------------------------------------------------

HookInit ==
  /\ seen = {}
  /\ jobs = [e \in Event |-> 0]
  /\ stage = [r \in Request |-> "idle"]
  /\ ev = [r \in Request |-> NoEvent]
  /\ granted = [r \in Request |-> FALSE]
  /\ code = [r \in Request |-> 0]
  /\ gone = [r \in Request |-> FALSE]
  /\ tries = [e \in Event |-> 0]
  /\ acked = {}
  /\ disturbed = 0
  /\ expired = [k \in MsgId |-> 0]
  /\ queued = [k \in MsgId |-> 0]
  /\ opened = [k \in MsgId |-> 0]
  /\ wasted = {}

Disturb(d) ==
  /\ d \in Disturbances
  /\ disturbed < MaxDisturbances
  /\ disturbed' = disturbed + 1

(* The handler is about to answer with status c.                           *)
Answer(r, c) ==
  /\ stage' = [stage EXCEPT ![r] = "reply"]
  /\ code' = [code EXCEPT ![r] = c]
  /\ UNCHANGED <<ev, gone>>

(* Postmark delivers an event that is neither acknowledged nor on its way. *)
Post(e, r) ==
  /\ e \notin acked /\ tries[e] < MaxTries
  /\ \A q \in Request : ev[q] = e => gone[q]
  /\ stage[r] = "idle"
  /\ stage' = [stage EXCEPT ![r] = "verify"]
  /\ ev' = [ev EXCEPT ![r] = e]
  /\ tries' = [tries EXCEPT ![e] = @ + 1]
  /\ UNCHANGED <<hookRedisVars, granted, code, gone, acked, disturbed, expired,
                 hookHistory>>

(* The body was read and the token matches the domain's.                   *)
Verify(r) ==
  /\ stage[r] = "verify" /\ ~gone[r]
  /\ stage' = [stage EXCEPT ![r] = "dedup"]
  /\ UNCHANGED <<hookRedisVars, ev, granted, code, gone, postmarkVars, disturbed,
                 expired, hookHistory>>

(* The body or the token could not be read: 400 or 401, nothing changed.   *)
Reject(r) ==
  /\ stage[r] = "verify"
  /\ \/ gone[r] /\ UNCHANGED disturbed
     \/ ~gone[r] /\ Disturb("reject")
  /\ Answer(r, 401)
  /\ UNCHANGED <<hookRedisVars, granted, postmarkVars, expired, hookHistory>>

(* Mutant: the key is set whether or not it exists.                        *)
DedupSets(r) ==
  /\ stage[r] = "dedup" /\ ~gone[r]
  /\ IF Id(r) = NoId
     THEN UNCHANGED <<seen, granted>>
     ELSE /\ seen' = seen \cup {Id(r)}
          /\ granted' = [granted EXCEPT ![r] = TRUE]
  /\ stage' = [stage EXCEPT ![r] = "enqueue"]
  /\ UNCHANGED <<jobs, ev, code, gone, postmarkVars, disturbed, expired, hookHistory>>

(* Mutant: a payload without MessageID is deduplicated like any other.     *)
DedupNoId(r) ==
  /\ stage[r] = "dedup" /\ ~gone[r]
  /\ \/ /\ Id(r) \notin seen
        /\ seen' = seen \cup {Id(r)}
        /\ granted' = [granted EXCEPT ![r] = TRUE]
        /\ stage' = [stage EXCEPT ![r] = "enqueue"]
        /\ UNCHANGED <<ev, code, gone>>
     \/ /\ Id(r) \in seen
        /\ Answer(r, 200)
        /\ UNCHANGED <<seen, granted>>
  /\ UNCHANGED <<jobs, postmarkVars, disturbed, expired, hookHistory>>

(* SETNX webhook:<MessageID>: the first request goes on, another one is a  *)
(* duplicate and answered 200 at once.                                     *)
Dedup(r) ==
  /\ stage[r] = "dedup" /\ ~gone[r]
  /\ \/ /\ Id(r) = NoId
        /\ stage' = [stage EXCEPT ![r] = "enqueue"]
        /\ UNCHANGED <<seen, granted, ev, code, gone>>
     \/ /\ Id(r) \in MsgId \ seen
        /\ seen' = seen \cup {Id(r)}
        /\ granted' = [granted EXCEPT ![r] = TRUE]
        /\ stage' = [stage EXCEPT ![r] = "enqueue"]
        /\ UNCHANGED <<ev, code, gone>>
     \/ /\ Id(r) \in seen
        /\ Answer(r, 200)
        /\ UNCHANGED <<seen, granted>>
  /\ UNCHANGED <<jobs, postmarkVars, disturbed, expired, hookHistory>>

(* Mutant: a request is treated as a duplicate when Redis fails.           *)
DedupFailsClosed(r) ==
  /\ stage[r] = "dedup" /\ Id(r) # NoId
  /\ \/ gone[r] /\ UNCHANGED disturbed
     \/ ~gone[r] /\ Disturb("redis")
  /\ Answer(r, 200)
  /\ UNCHANGED <<hookRedisVars, granted, postmarkVars, expired, hookHistory>>

(* SETNX fails, carried out or not: the request is let through.            *)
DedupFails(r) ==
  /\ stage[r] = "dedup" /\ Id(r) # NoId
  /\ \/ /\ gone[r]
        /\ UNCHANGED <<seen, granted, disturbed>>
     \/ /\ ~gone[r] /\ Disturb("redis")
        /\ UNCHANGED <<seen, granted>>
     \/ /\ ~gone[r] /\ Id(r) \notin seen /\ Disturb("redis")
        /\ seen' = seen \cup {Id(r)}
        /\ granted' = [granted EXCEPT ![r] = TRUE]
  /\ opened' = [opened EXCEPT ![Id(r)] = @ + 1]
  /\ stage' = [stage EXCEPT ![r] = "enqueue"]
  /\ UNCHANGED <<jobs, ev, code, gone, postmarkVars, expired, queued, wasted>>

(* The job of request r is on queue:jobs.                                  *)
Push(r) ==
  /\ jobs' = [jobs EXCEPT ![ev[r]] = @ + 1]
  /\ queued' = [k \in MsgId |-> IF k = Id(r) THEN queued[k] + 1 ELSE queued[k]]
  /\ UNCHANGED wasted

(* It is not, and the key the request may have created stays.              *)
NoPush(r) ==
  /\ wasted' = wasted \cup {k \in MsgId : k = Id(r) /\ granted[r]}
  /\ UNCHANGED <<jobs, queued>>

(* LPUSH of the job.                                                       *)
HookEnqueue(r) ==
  /\ stage[r] = "enqueue" /\ ~gone[r]
  /\ Push(r)
  /\ granted' = [granted EXCEPT ![r] = FALSE]
  /\ Answer(r, 200)
  /\ UNCHANGED <<seen, postmarkVars, disturbed, expired, opened>>

(* LPUSH fails, carried out or not.                                        *)
EnqueueFails(r) ==
  /\ stage[r] = "enqueue"
  /\ \/ gone[r] /\ NoPush(r) /\ UNCHANGED disturbed
     \/ ~gone[r] /\ NoPush(r) /\ Disturb("redis")
     \/ ~gone[r] /\ Push(r) /\ Disturb("redis")
  /\ granted' = [granted EXCEPT ![r] = FALSE]
  /\ Answer(r, 500)
  /\ UNCHANGED <<seen, postmarkVars, expired, opened>>

(* The status is written; Postmark reads it unless it hung up.             *)
Reply(r) ==
  /\ stage[r] = "reply"
  /\ acked' = IF code[r] = 200 /\ ~gone[r] THEN acked \cup {ev[r]} ELSE acked
  /\ stage' = [stage EXCEPT ![r] = "idle"]
  /\ ev' = [ev EXCEPT ![r] = NoEvent]
  /\ code' = [code EXCEPT ![r] = 0]
  /\ gone' = [gone EXCEPT ![r] = FALSE]
  /\ UNCHANGED <<hookRedisVars, granted, tries, disturbed, expired, hookHistory>>

(* Postmark waited long enough.                                            *)
HangUp(r) ==
  /\ stage[r] # "idle" /\ ~gone[r]
  /\ Disturb("hangup")
  /\ gone' = [gone EXCEPT ![r] = TRUE]
  /\ UNCHANGED <<hookRedisVars, stage, ev, granted, code, postmarkVars, expired,
                 hookHistory>>

(* The server dies with the requests it is serving, and is started again.  *)
ServerCrash ==
  /\ Disturb("crash")
  /\ wasted' = wasted \cup {k \in MsgId : \E r \in Request : granted[r] /\ k = Id(r)}
  /\ stage' = [r \in Request |-> "idle"]
  /\ ev' = [r \in Request |-> NoEvent]
  /\ granted' = [r \in Request |-> FALSE]
  /\ code' = [r \in Request |-> 0]
  /\ gone' = [r \in Request |-> FALSE]
  /\ UNCHANGED <<hookRedisVars, postmarkVars, expired, queued, opened>>

(* The five minutes of a key are over.                                     *)
Expire(k) ==
  /\ k \in seen /\ expired[k] < MaxExpiries
  /\ seen' = seen \ {k}
  /\ expired' = [expired EXCEPT ![k] = @ + 1]
  /\ UNCHANGED <<jobs, reqVars, postmarkVars, disturbed, hookHistory>>

HookNext ==
  \/ \E e \in Event, r \in Request : Post(e, r)
  \/ \E r \in Request :
       \/ Verify(r) \/ Reject(r) \/ Dedup(r) \/ DedupFails(r)
       \/ HookEnqueue(r) \/ EnqueueFails(r) \/ Reply(r) \/ HangUp(r)
  \/ ServerCrash
  \/ \E k \in MsgId : Expire(k)

HookSpec == HookInit /\ [][HookNext]_hookVars

-----------------------------------------------------------------------------
(* What the intake promises.                                               *)

(* Every variable holds a value of its type; only a MessageID is ever      *)
(* remembered, and only a handler about to queue a job owns a key.         *)
HookTypeOK ==
  /\ seen \subseteq MsgId
  /\ jobs \in [Event -> Nat]
  /\ stage \in [Request -> {"idle", "verify", "dedup", "enqueue", "reply"}]
  /\ ev \in [Request -> Event \cup {NoEvent}]
  /\ \A r \in Request : stage[r] = "idle" <=> ev[r] = NoEvent
  /\ granted \in [Request -> BOOLEAN]
  /\ \A r \in Request : granted[r] => stage[r] = "enqueue"
  /\ code \in [Request -> {0, 200, 401, 500}]
  /\ gone \in [Request -> BOOLEAN]
  /\ tries \in [Event -> 0..MaxTries] /\ acked \subseteq Event
  /\ disturbed \in 0..MaxDisturbances
  /\ expired \in [MsgId -> 0..MaxExpiries]
  /\ queued \in [MsgId -> Nat] /\ opened \in [MsgId -> Nat]
  /\ wasted \subseteq MsgId

(* A MessageID leads to a second job only if its key expired in between,   *)
(* or Redis failed to answer whether the key was there.                    *)
DuplicatesEarned == \A k \in MsgId : queued[k] <= 1 + expired[k] + opened[k]

(* Some event of MessageID k has a job or is getting one, or whoever       *)
(* created its key failed to queue anything.                               *)
Claimed(k) ==
  \/ \E f \in Event : MessageID[f] = k /\ jobs[f] > 0
  \/ \E r \in Request : granted[r] /\ Id(r) = k
  \/ k \in wasted

(* An event that was answered 200 has a job or was taken for a duplicate of*)
(* an event that is accounted for: no other path through the handlers      *)
(* swallows it.                                                            *)
AckedAccounted ==
  \A e \in acked : jobs[e] > 0 \/ (MessageID[e] # NoId /\ Claimed(MessageID[e]))

(* "At-least-once delivery": an event that was answered 200, which Postmark*)
(* will not send again, has been queued.                                   *)
AckedMeansQueued == \A e \in acked : jobs[e] > 0

=============================================================================
