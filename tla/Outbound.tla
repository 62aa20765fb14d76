------------------------------ MODULE Outbound ------------------------------
(***************************************************************************)
(* A draft on its way out: the webmail request that queues it (sendDraft), *)
(* the send_draft processor (SendProcessor), Postmark, and the processors  *)
(* of Postmark's delivery and bounce reports, which look for the delivery  *)
(* log the send wrote.  What is on the screen when the user clicks, what   *)
(* the worker read, what Postmark accepted and what the database says are  *)
(* four different things, and the module is about how they drift apart.    *)
(*                                                                         *)
(* queue:jobs is abstracted to a set of jobs any free worker may take, in  *)
(* any order, since retries are delayed and workers run in parallel; a     *)
(* retried job may be promoted twice and one in hand may be lost.  Module  *)
(* JobQueue shows where those come from, and module Webhook how a report   *)
(* reaches the queue; here the intake works, and is one step.              *)
(***************************************************************************)
EXTENDS Integers, Sequences, FiniteSets

CONSTANTS
  Draft,          \* drafts, complete and unsent at the start
  Browser,        \* requests that may be in progress at one time
  Worker,         \* goroutines that run processors
  Reports,        \* which of "delivery", "bounce" Postmark may report
  MaxAttempts,    \* Job.MaxAttempts, 3 in the code
  MaxClicks,      \* bound: how often the user asks to send
  MaxReports,     \* bound: how many reports Postmark makes
  Disruptions,    \* which of "db", "redis", "postmark", "crash" may happen
  MaxDisruptions, \* bound: how many of them may happen in a behaviour
  None

ASSUME OutboundAssumption ==
  /\ Reports \subseteq {"delivery", "bounce"}
  /\ MaxAttempts \in Nat \ {0} /\ MaxClicks \in Nat /\ MaxReports \in Nat
  /\ Disruptions \subseteq {"db", "redis", "postmark", "crash"}
  /\ MaxDisruptions \in Nat
  /\ None \notin Draft
  /\ IsFiniteSet(Worker)

VARIABLES
  \* PostgreSQL
  rows,        \* drafts whose row exists in messages
  unsent,      \* those with is_draft
  log,         \* status of the delivery_logs row of a mail, "none" without one
  bounces,     \* mails with a row in bounce_events
  \* Redis
  queue,       \* jobs that wait, ready or delayed
  \* the webmail API
  asking,      \* the draft a request has checked and is about to queue
  \* the workers
  pc,          \* where a processor stands
  hand,        \* the job it runs
  mid,         \* the mail it sent, Postmark's MessageID
  \* Postmark
  mails,       \* the draft of every mail accepted; its place is its MessageID
  \* the environment
  clicks,      \* number of requests to send so far
  made,        \* number of send jobs ever put on the queue
  disrupted,   \* number of disruptions so far
  \* history
  reported,    \* reports Postmark made: a mail and what happened to it
  missed,      \* reports that a duplicate key, a failure or their haste made void
  unmarked,    \* mails whose send ended before it marked the draft as sent
  overlaps     \* how often a worker loaded a draft another one was sending

dbVars == <<rows, unsent, log, bounces>>
goVars == <<pc, hand, mid>>
history == <<reported, missed, unmarked, overlaps>>
vars == <<dbVars, queue, asking, goVars, mails, clicks, made, disrupted, history>>

(* "idle"    has no job                                                    *)
(* "load"    SendProcessor, about to read the draft                        *)
(* "mail"    SendProcessor, about to call Postmark                         *)
(* "mark"    SendProcessor, about to mark the draft as sent                *)
(* "log"     SendProcessor, about to insert the delivery log               *)
(* "status"  Delivery- or BounceProcessor, about to update the log         *)
(* "event"   BounceProcessor, about to look for the log once more          *)
(* "fail"    the processor returned an error                               *)
Sending == {"load", "mail", "mark", "log", "fail"}
Reporting == {"status", "event"}

SendJob ==
  [kind : {"send"}, of : Draft, id : Nat, attempts : 0..MaxAttempts - 1]
ReportJob == [kind : Reports, of : Nat \ {0}]

Mail == 1..Len(mails)

-----------------------------------------------------------------------------

Init ==
  /\ rows = Draft /\ unsent = Draft
  /\ log = <<>> /\ bounces = {}
  /\ queue = {}
  /\ asking = [b \in Browser |-> None]
  /\ pc = [w \in Worker |-> "idle"]
  /\ hand = [w \in Worker |-> None]
  /\ mid = [w \in Worker |-> 0]
  /\ mails = <<>>
  /\ clicks = 0 /\ made = 0 /\ disrupted = 0
  /\ reported = {} /\ missed = {}
  /\ unmarked = {}
  /\ overlaps = [d \in Draft |-> 0]

Disrupt(d) ==
  /\ d \in Disruptions
  /\ disrupted < MaxDisruptions
  /\ disrupted' = disrupted + 1

-----------------------------------------------------------------------------
(* The webmail API.                                                        *)

(* sendDraft reads the message: it is there and is a draft.                *)
Ask(b, d) ==
  /\ asking[b] = None /\ clicks < MaxClicks
  /\ d \in rows \cap unsent
  /\ asking' = [asking EXCEPT ![b] = d]
  /\ clicks' = clicks + 1
  /\ UNCHANGED <<dbVars, queue, goVars, mails, made, disrupted, history>>

NewSend(d) == [kind |-> "send", of |-> d, id |-> made, attempts |-> 0]

(* sendDraft pushes the job.                                               *)
Submit(b) ==
  /\ asking[b] # None
  /\ queue' = queue \cup {NewSend(asking[b])}
  /\ made' = made + 1
  /\ asking' = [asking EXCEPT ![b] = None]
  /\ UNCHANGED <<dbVars, goVars, mails, clicks, disrupted, history>>

(* The push fails, and the job is not on the queue.                        *)
SubmitFails(b) ==
  /\ asking[b] # None
  /\ Disrupt("redis")
  /\ asking' = [asking EXCEPT ![b] = None]
  /\ UNCHANGED <<dbVars, queue, goVars, mails, clicks, made, history>>

(* deleteMessage; the delivery logs and bounce events go with the row.     *)
Delete(d) ==
  /\ d \in rows
  /\ rows' = rows \ {d}
  /\ unsent' = unsent \ {d}
  /\ log' = [m \in Mail |-> IF mails[m] = d THEN "none" ELSE log[m]]
  /\ bounces' = {m \in bounces : mails[m] # d}
  /\ UNCHANGED <<queue, asking, goVars, mails, clicks, made, disrupted,
                 history>>

-----------------------------------------------------------------------------
(* The send_draft processor.                                               *)

GoTo(w, l) ==
  /\ pc' = [pc EXCEPT ![w] = l]
  /\ UNCHANGED <<hand, mid>>

(* The processor returned and its goroutine has nothing to do.             *)
Done(w) ==
  /\ pc' = [pc EXCEPT ![w] = "idle"]
  /\ hand' = [hand EXCEPT ![w] = None]
  /\ mid' = [mid EXCEPT ![w] = 0]

(* A worker takes a job off the queue.                                     *)
Take(w) ==
  /\ pc[w] = "idle"
  /\ \E j \in queue :
       /\ queue' = queue \ {j}
       /\ hand' = [hand EXCEPT ![w] = j]
       /\ pc' = [pc EXCEPT ![w] = IF j.kind = "send" THEN "load" ELSE "status"]
  /\ UNCHANGED <<dbVars, asking, mid, mails, clicks, made, disrupted,
                 history>>

Busy(w, d) == pc[w] \in {"mail", "mark"} /\ hand[w].of = d

(* Mutant: the processor does not look whether the message is a draft.     *)
LoadSent(w) ==
  /\ pc[w] = "load"
  /\ hand[w].of \in rows
  /\ overlaps' = IF \E v \in Worker : Busy(v, hand[w].of)
                 THEN [overlaps EXCEPT ![hand[w].of] = @ + 1]
                 ELSE overlaps
  /\ GoTo(w, "mail")
  /\ UNCHANGED <<dbVars, queue, asking, mails, clicks, made, disrupted,
                 reported, missed, unmarked>>

(* The message is there and is a draft; domain and attachments are read.   *)
Load(w) ==
  /\ pc[w] = "load"
  /\ hand[w].of \in rows \cap unsent
  /\ overlaps' = IF \E v \in Worker : Busy(v, hand[w].of)
                 THEN [overlaps EXCEPT ![hand[w].of] = @ + 1]
                 ELSE overlaps
  /\ GoTo(w, "mail")
  /\ UNCHANGED <<dbVars, queue, asking, mails, clicks, made, disrupted,
                 reported, missed, unmarked>>

(* It is not, or the database fails.                                       *)
LoadFails(w) ==
  /\ pc[w] = "load"
  /\ \/ hand[w].of \notin rows \cap unsent /\ UNCHANGED disrupted
     \/ Disrupt("db")
  /\ GoTo(w, "fail")
  /\ UNCHANGED <<dbVars, queue, asking, mails, clicks, made, history>>

(* Postmark has a new mail of draft d.                                     *)
Accept(d) ==
  /\ mails' = Append(mails, d)
  /\ log' = [m \in 1..Len(mails) + 1 |-> IF m \in Mail THEN log[m] ELSE "none"]

(* Mutant: the MessageID kept is that of the answer before.                *)
SendStale(w) ==
  /\ pc[w] = "mail"
  /\ Accept(hand[w].of)
  /\ mid' = [mid EXCEPT ![w] = Len(mails)]
  /\ pc' = [pc EXCEPT ![w] = "mark"]
  /\ UNCHANGED <<rows, unsent, bounces, queue, asking, hand, clicks, made,
                 disrupted, history>>

(* Postmark accepts the mail and says so.                                  *)
Send(w) ==
  /\ pc[w] = "mail"
  /\ Accept(hand[w].of)
  /\ mid' = [mid EXCEPT ![w] = Len(mails) + 1]
  /\ pc' = [pc EXCEPT ![w] = "mark"]
  /\ UNCHANGED <<rows, unsent, bounces, queue, asking, hand, clicks, made,
                 disrupted, history>>

(* Postmark refuses the mail, or is not reached, or its answer is lost.    *)
SendFails(w) ==
  /\ pc[w] = "mail"
  /\ Disrupt("postmark")
  /\ \/ UNCHANGED <<mails, log, unmarked>>
     \/ /\ Accept(hand[w].of)
        /\ unmarked' = unmarked \cup {Len(mails) + 1}
  /\ GoTo(w, "fail")
  /\ UNCHANGED <<rows, unsent, bounces, queue, asking, clicks, made,
                 reported, missed, overlaps>>

(* Mutant: the message moves to the sent mailbox and stays a draft.        *)
MarkMailbox(w) ==
  /\ pc[w] = "mark"
  /\ hand[w].of \in rows
  /\ GoTo(w, "log")
  /\ UNCHANGED <<dbVars, queue, asking, mails, clicks, made, disrupted,
                 history>>

(* The message is no longer a draft.                                       *)
Mark(w) ==
  /\ pc[w] = "mark"
  /\ hand[w].of \in rows
  /\ unsent' = unsent \ {hand[w].of}
  /\ GoTo(w, "log")
  /\ UNCHANGED <<rows, log, bounces, queue, asking, mails, clicks, made,
                 disrupted, history>>

(* The row is gone, or the update fails, carried out or not: the mail is   *)
(* out and the job fails.                                                  *)
MarkFails(w) ==
  /\ pc[w] = "mark"
  /\ \/ hand[w].of \notin rows /\ UNCHANGED <<unsent, disrupted>>
     \/ Disrupt("db") /\ unsent' \in {unsent, unsent \ {hand[w].of}}
  /\ unmarked' = unmarked \cup {mid[w]}
  /\ GoTo(w, "fail")
  /\ UNCHANGED <<rows, log, bounces, queue, asking, mails, clicks, made,
                 reported, missed, overlaps>>

(* The delivery log is inserted, and the job is done.                      *)
Log(w) ==
  /\ pc[w] = "log"
  /\ hand[w].of \in rows
  /\ log' = [log EXCEPT ![mid[w]] = "sent"]
  /\ Done(w)
  /\ UNCHANGED <<rows, unsent, bounces, queue, asking, mails, clicks, made,
                 disrupted, history>>

(* The log cannot be inserted: the message is gone, or the database fails. *)
(* The error is only logged.                                               *)
LogFails(w) ==
  /\ pc[w] = "log"
  /\ \/ hand[w].of \notin rows /\ UNCHANGED disrupted
     \/ Disrupt("db")
  /\ missed' = missed \cup {<<mid[w], k>> : k \in Reports}
  /\ Done(w)
  /\ UNCHANGED <<dbVars, queue, asking, mails, clicks, made, reported,
                 unmarked, overlaps>>

(* A failed job is delayed for its next attempt or dead-lettered, and is   *)
(* lost when that fails.                                                   *)
Fail(w) ==
  /\ pc[w] = "fail"
  /\ \/ /\ hand[w].attempts + 1 < MaxAttempts
        /\ queue' = queue \cup {[hand[w] EXCEPT !.attempts = @ + 1]}
        /\ UNCHANGED disrupted
     \/ /\ hand[w].attempts + 1 = MaxAttempts
        /\ UNCHANGED <<queue, disrupted>>
     \/ Disrupt("redis") /\ UNCHANGED queue
  /\ Done(w)
  /\ UNCHANGED <<dbVars, asking, mails, clicks, made, history>>

-----------------------------------------------------------------------------
(* The processors of delivery and bounce reports.                          *)

(* Mutant: the bounce processor's statement is the delivery processor's.   *)
ResultCopied(k) == "delivered"

(* The status a report of kind k leaves in the delivery log.               *)
Result(k) == IF k = "bounce" THEN "bounced" ELSE "delivered"

Report(w) == <<hand[w].of, hand[w].kind>>

AfterStatus(w) == IF hand[w].kind = "bounce" THEN GoTo(w, "event") ELSE Done(w)

(* UPDATE delivery_logs: there may be no row yet, or no more, and nobody   *)
(* looks.                                                                  *)
Status(w) ==
  /\ pc[w] = "status"
  /\ IF log[hand[w].of] # "none"
     THEN /\ log' = [log EXCEPT ![hand[w].of] = Result(hand[w].kind)]
          /\ UNCHANGED missed
     ELSE missed' = missed \cup {Report(w)} /\ UNCHANGED log
  /\ AfterStatus(w)
  /\ UNCHANGED <<rows, unsent, bounces, queue, asking, mails, clicks, made,
                 disrupted, reported, unmarked, overlaps>>

(* It fails, which is only logged.                                         *)
StatusFails(w) ==
  /\ pc[w] = "status"
  /\ Disrupt("db")
  /\ missed' = missed \cup {Report(w)}
  /\ AfterStatus(w)
  /\ UNCHANGED <<dbVars, queue, asking, mails, clicks, made, reported,
                 unmarked, overlaps>>

(* The bounce event is inserted if the delivery log is found now.          *)
Event(w) ==
  /\ pc[w] = "event"
  /\ bounces' = bounces \cup {m \in {hand[w].of} : log[m] # "none"}
  /\ Done(w)
  /\ UNCHANGED <<rows, unsent, log, queue, asking, mails, clicks, made,
                 disrupted, history>>

(* The search or the insertion fails, which is not even logged.            *)
EventFails(w) ==
  /\ pc[w] = "event"
  /\ Disrupt("db")
  /\ missed' = missed \cup {Report(w)}
  /\ Done(w)
  /\ UNCHANGED <<dbVars, queue, asking, mails, clicks, made, reported,
                 unmarked, overlaps>>

-----------------------------------------------------------------------------
(* Postmark, Redis and the worker process.                                 *)

(* Postmark reports what happened to a mail, which becomes a job.  A second*)
(* report of the mail is discarded as a duplicate of the first, for they   *)
(* share the MessageID, unless five minutes passed.                        *)
Notify(m, k) ==
  /\ <<m, k>> \notin reported /\ Cardinality(reported) < MaxReports
  /\ reported' = reported \cup {<<m, k>>}
  /\ \/ queue' = queue \cup {[kind |-> k, of |-> m]} /\ UNCHANGED missed
     \/ /\ \E c \in Reports : <<m, c>> \in reported
        /\ missed' = missed \cup {<<m, k>>}
        /\ UNCHANGED queue
  /\ UNCHANGED <<dbVars, asking, goVars, mails, clicks, made, disrupted,
                 unmarked, overlaps>>

(* Two goroutines promote one delayed retry.                               *)
PromoteTwice(j) ==
  /\ j.kind = "send" /\ j.attempts > 0
  /\ Disrupt("redis")
  /\ queue' = queue \cup {[j EXCEPT !.id = made]}
  /\ made' = made + 1
  /\ UNCHANGED <<dbVars, asking, goVars, mails, clicks, history>>

(* The worker process dies with the jobs in its hands.                     *)
Crash ==
  /\ Disrupt("crash")
  /\ unmarked' = unmarked \cup {mid[w] : w \in {v \in Worker : pc[v] = "mark"}}
  /\ missed' = missed
       \cup {Report(w) : w \in {v \in Worker : pc[v] \in Reporting}}
       \cup {<<mid[w], k>> : w \in {v \in Worker : pc[v] = "log"}, k \in Reports}
  /\ pc' = [w \in Worker |-> "idle"]
  /\ hand' = [w \in Worker |-> None]
  /\ mid' = [w \in Worker |-> 0]
  /\ UNCHANGED <<dbVars, queue, asking, mails, clicks, made, reported,
                 overlaps>>

Step(w) ==
  \/ Take(w) \/ Load(w) \/ LoadFails(w) \/ Send(w) \/ SendFails(w)
  \/ Mark(w) \/ MarkFails(w) \/ Log(w) \/ LogFails(w) \/ Fail(w)
  \/ Status(w) \/ StatusFails(w) \/ Event(w) \/ EventFails(w)

Next ==
  \/ \E b \in Browser :
       \/ \E d \in Draft : Ask(b, d)
       \/ Submit(b) \/ SubmitFails(b)
  \/ \E d \in Draft : Delete(d)
  \/ \E w \in Worker : Step(w)
  \/ \E m \in Mail, k \in Reports : Notify(m, k)
  \/ \E j \in queue : PromoteTwice(j)
  \/ Crash

Spec == Init /\ [][Next]_vars

-----------------------------------------------------------------------------
(* What sending promises.                                                  *)

(* Every variable holds a value of its type, and a processor holds a job   *)
(* of its kind and, once Postmark answered, the mail it sent.              *)
TypeOK ==
  /\ unsent \subseteq rows /\ rows \subseteq Draft
  /\ mails \in Seq(Draft)
  /\ log \in [Mail -> {"none", "sent", "delivered", "bounced"}]
  /\ bounces \subseteq Mail
  /\ queue \subseteq SendJob \cup ReportJob
  /\ \A j \in queue : j.kind # "send" => j.of \in Mail
  /\ asking \in [Browser -> Draft \cup {None}]
  /\ pc \in [Worker -> {"idle"} \cup Sending \cup Reporting]
  /\ hand \in [Worker -> SendJob \cup ReportJob \cup {None}]
  /\ mid \in [Worker -> Nat]
  /\ \A w \in Worker :
       /\ pc[w] = "idle" => hand[w] = None
       /\ pc[w] \in Sending => hand[w] \in SendJob
       /\ pc[w] \in Reporting => hand[w] \in ReportJob /\ hand[w].of \in Mail
       /\ pc[w] \in {"mark", "log"} => mid[w] \in Mail /\ mails[mid[w]] = hand[w].of
  /\ clicks \in 0..MaxClicks /\ made \in Nat /\ disrupted \in 0..MaxDisruptions
  /\ reported \subseteq Mail \X Reports /\ missed \subseteq Mail \X Reports
  /\ unmarked \subseteq Mail
  /\ overlaps \in [Draft -> Nat]

(* What Postmark accepted no longer looks like a draft: its message is     *)
(* marked as sent or deleted, or its worker is about to mark it, or failed *)
(* or died just there.                                                     *)
MailedMarked ==
  \A m \in Mail :
    \/ mails[m] \notin unsent
    \/ \E w \in Worker : pc[w] = "mark" /\ mid[w] = m
    \/ m \in unmarked

MailsOf(d) == {m \in Mail : mails[m] = d}

(* A draft is mailed once, and once more only for a send that ended        *)
(* between Postmark and the database, or that another worker loaded while  *)
(* the first had not marked it.                                            *)
MailsEarned ==
  \A d \in Draft :
    Cardinality(MailsOf(d)) <=
      1 + Cardinality(MailsOf(d) \cap unmarked) + overlaps[d]

(* A delivery log belongs to a message that is there and is not a draft.   *)
LoggedIsSent == \A m \in Mail : log[m] # "none" => mails[m] \in rows \ unsent

Pending(m, k) ==
  \/ \E j \in queue : j.kind = k /\ j.of = m
  \/ \E w \in Worker : pc[w] \in Reporting /\ Report(w) = <<m, k>>

(* The log of m shows the bounce, or what came in after it.                *)
BounceShown(m) ==
  /\ m \in bounces
  /\ log[m] = "bounced" \/ <<m, "delivery">> \in reported

(* A reported bounce is recorded in both tables, on its way, gone with its *)
(* message, or missed for a reason the code cannot see: it shared its      *)
(* MessageID with another report, came before the log, or something failed.*)
BouncesAccounted ==
  \A m \in Mail : <<m, "bounce">> \in reported =>
    \/ mails[m] \notin rows
    \/ Pending(m, "bounce")
    \/ BounceShown(m)
    \/ <<m, "bounce">> \in missed

=============================================================================
