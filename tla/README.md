# PostNest in TLA+

PostNest is a self-hosted mail suite in Go: Postmark delivers and sends its
mail, PostgreSQL and Redis hold its state, and three processes run it:
`cmd/server` (HTTP API, webhooks, IMAP, SMTP, CalDAV/CardDAV, administration),
`cmd/worker` (the job processors) and `cmd/webui` (the browser's files and a
proxy). This directory holds TLA+ specifications of it, the TLC configurations
that check them on small instances, and proofs, checked by TLAPS, that hold for
every value of the constants. `PROJECT.json` lists for every definition the
source lines it translates, every run, every theorem, the hazards of the code
and the mutants that show what each property is sensitive to.

    tlc -workers 2 -config JobQueue.cfg MCJobQueue     # a run
    tlapm JobQueueProofs.tla                           # the proofs of a module

## 1. The system

How mail moves through the parts (paths under `src/`):

    Postmark --POST--> webhook --LPUSH--> queue:jobs <--LPUSH-- webmail API
                                             |  ^                  ^
                                       BRPOP |  | ZADD/LPUSH       | browser
                                             v  | (retry)          |
                   PostgreSQL <-------- worker pool ----> Postmark API
                       ^  ^             (processors)
             IMAP, SMTP   webmail, calendar, contacts, administration

### Components that are modelled

| Component | State it keeps | Operations | What is hard about it |
|---|---|---|---|
| Job queue and worker pool (`internal/workers/workers.go`, `internal/redis/redis.go`, `cmd/worker`) | Redis: `queue:jobs` (list), `queue:jobs:delayed` (sorted set), `queue:jobs:dead` (list). In memory: the goroutines and the pool's context | Enqueue, promote due entries, dequeue, run, retry with backoff, dead-letter, stop | Promotion is a range read, a push and a removal per entry, not one command; several goroutines and processes do it at once; a job in hand is nowhere in Redis; errors of the last steps are only logged; clocks of several processes are compared |
| Webhook intake (`internal/webhook`) | Redis: `webhook:<MessageID>` keys that live 5 minutes, `queue:jobs` | Verify, deduplicate (SETNX), enqueue, answer | The key is set before the job is queued, events of one message share a key, Redis errors let a request pass, Postmark hangs up and redelivers |
| Outbound sending and delivery tracking (`internal/workers/send.go`, `delivery.go`, `bounce.go`, `postmark.go`, the send and delete handlers of `internal/webmail`) | PostgreSQL: `messages.is_draft`, `delivery_logs`, `bounce_events` | Queue a draft, mail it, mark it sent, log it; record a delivery or a bounce | Mailing, marking and logging are three steps that fail separately, a draft can be queued or loaded twice, a report can overtake the log it belongs to, a message can be deleted on the way |
| Inbound processing (`internal/workers/inbound.go`, `ResolveRecipients`, `EvaluateInbound`, `FindOrCreateThread`, `CreateMessage`) | PostgreSQL: aliases, catch-all users, `threads`, `messages` with labels | Resolve the recipient, judge the sender, thread and store one copy per user | The fan-out commits user by user and is repeated from the start; lookups whose errors are dropped; two workers create one thread; the routing changes between attempts |
| Mail store and IMAP server (`internal/mailstore/pgstore.go`, `internal/imap/backend.go`, with the message requests of `internal/webmail`) | PostgreSQL: `messages` with labels, `message_flags` and the flag columns, `imap_uids` with its sequence. In memory: the list of messages a command works through | FETCH, UID STORE, UID COPY, EXPUNGE, APPEND, delivery; mark, delete and label by the webmail API | A command is many statements without a transaction over a list read at its start; UIDs are made on demand by a select and an insert (`pgstore.go:657`); EXPUNGE pages by offset over what it removes (`backend.go:395`); a flag is kept in two places (`backend.go:306`); errors are thrown away |
| Compose page, webmail drafts and the worker that mails them (`web/src/components/Compose.jsx`, the draft, attachment and send handlers of `internal/webmail/webmail.go`, `send.go`) | Browser: the fields, the draft's id, the timer of the automatic save, requests in progress. PostgreSQL: `messages`, attachments | Open, edit, save by itself after 3 seconds, attach, remove, discard, send, leave, jump in the history | The automatic save, the save of the send button and the creation for an attachment know nothing of each other; answers come to a page that moved on; nothing stops an update of a draft that is queued or sent |
| List, message page and event stream (`Inbox.jsx`, `MessageView.jsx`, `web/src/sse.js`, list, get, patch, delete and batch of `webmail.go`) | Browser: label, offset, rows, ticks, the message shown, requests. Server: messages with label, star, read | Go to a label, page, tick, batch, star, open, delete, go back; new mail announced, stream lost and reconnected | The router keeps state across URLs; an answer is handled by the code of the moment of the call; announcements are lost between two connections |
| Administration page (`Admin.jsx`, `internal/admin/handler.go`, `store.go`) | Browser: the tab, the lists, the open dialog, requests. PostgreSQL: domains, aliases, memberships | Select a tab, open and cancel a dialog, create and remove aliases, set the catch-all user, change memberships, save | Answers of one dialog fill or replace whichever is open by then; lists are read again in overlapping requests |
| TLS tab and certificate manager (`Admin.jsx`, `internal/admin/tls.go`, `internal/certmanager/manager.go`, start-up in `cmd/server/main.go`) | PostgreSQL: configuration and names. Memory: the manager's configuration, client, certificate, renewal, loop. Disk: certificates | Save, add and delete names, each with a reload; force a renewal and poll for its end; check the age; restart | Store and reload are apart, the lock is released within a reload, renewals run in the background, `applyConfig` changes the manager before the steps that may fail |

### Components that are not modelled

* **SMTP server** (`internal/smtp/smtp.go`). State: the transaction of a
  session. Hard: the order of AUTH, MAIL, RCPT, DATA and RSET; DATA relays before
  it stores and drops the error of the store. Correct when mail goes out only for
  the authenticated user and the recipients of its own transaction.
* **Settings cache and rate limiter** (`internal/admin/settings_cache.go`,
  `internal/api/ratelimiter.go`). Hard: a value is served stale for its TTL and
  longer while the database fails; a limiter keeps the limit of its first request.
* **Sessions** (`internal/auth/auth.go`, `internal/api/auth.go`): sessions and
  API keys against password changes and logouts. (Recipient resolution is in
  `Inbound`.)
* **The hub's goroutine** (`internal/webui/sse.go`): buffered clients and a Redis
  subscription. `Inbox` has what a browser can see of it: an event arrives, or
  it does not.
* **Calendar, CalDAV and CardDAV** (`internal/calendar`, `internal/dav`):
  two first requests both create a default calendar; an event is read, changed and
  written back; the collection tag is counted in a statement of its own.
* **Contacts, calendar, contacts and login pages, web interface router and proxy,
  autodiscovery, configuration and secrets, database/migrations/search/logging and
  the admin command line**: single statements, single forms, stateless rendering,
  or wrappers of libraries, with nothing that interleaves beyond what `Inbox`
  shows of a list that is read again.

`PROJECT.json` lists these under "components", and under "hazards" each thing
that is hard to test, at its line, with the properties that cover it or the
module that is to cover it.

## 2. The modules

    JobLedger  <==implements==  JobQueue      MCJobQueue   JobQueueProofs
                                Webhook       MCWebhook    JobQueueProofs
                                Outbound      MCOutbound   OutboundProofs
                                Inbound       MCInbound    InboundProofs
                                Mailbox       MCMailbox    MailboxProofs
                                Compose       MCCompose    ComposeProofs
                                Inbox         MCInbox      InboxProofs
                                Admin         MCAdmin      AdminProofs
                                Tls           MCTls        TlsProofs

A component's module has its constants, variables, one action per Redis
command, database transaction, click, answer or local decision of the code, the
specification and the properties. Its MC module gives TLC the functions and symmetries a .cfg
cannot. Its Proofs module extends it with the inductive invariants and the
theorems. `JobQueueProofs` is about both ends of `queue:jobs` and extends two
modules, so `Webhook` keeps its names apart from those of `JobQueue`: `HookNext`,
`HookTypeOK`, `stage`, `disturbed` and so on. The definitions named `...Copy`, `...Unchecked`, `...Only`,
`...Anyway` and the like, each under a comment that starts with "Mutant" or "A
mutant", are not part of any specification: they are plausible mistakes, each of which
violates the property PROJECT.json names for it.

The components meet in `queue:jobs`. `Webhook` ends where a job is pushed.
`JobQueue` has the queue itself in full: lists, scores, clocks, processes.
`Outbound` and `Inbound` describe what processors do with jobs, over an
abstract queue: a set of jobs any free worker takes in any order, from which a
job in hand may be lost (a crash, a failed ZADD) and in which a retry may be
promoted twice. Both of these are what `JobQueue` shows the real queue does, no
more: `Accounted` says how a job can be lost, and a job is doubled when two
goroutines read the same due entry (`ReadDue`) and each pushes it (`PushDue`)
before either has removed it (`RemDue`). Order is lost by retries and parallel workers, so a set has the
behaviours of the list.

### JobQueue and JobLedger

One action is one Redis command or one local decision of a goroutine, in the
order of `Pool.worker`: `Exit`, `ReadDue` (ZRANGEBYSCORE), `PushDue` (LPUSH),
`RemDue` (ZREM), `Pop`/`PopTimeout` (BRPOP and what the loop decides about the
entry), `Succeed`/`Fail` (the processor returns), `Delay` (ZADD of a retry or of
an entry that is not due) and `Bury` (LPUSH on the dead list). `Refused` is every
command under the cancelled context; `RedisFails` a command that fails, carried
out or not; `Crash`, `Stop` and `Restart` are the life of a process. An entry is
a job, its attempts and its time, which is what the JSON text tells apart: equal
entries are one member of the sorted set. Every process has its own clock
(`Skew`), and so have the producers (`Ahead`).

`JobLedger` is the promise without the machinery: jobs are submitted, their
attempts fail in order, they are completed, buried only after all attempts
failed, or dropped. `ImplementsLedger` maps dead entries to buried jobs and
`givenUp` to dropped ones.

### Webhook

`Post`, `Verify`/`Reject`, `Dedup`/`DedupFails`, `HookEnqueue`/`EnqueueFails`,
`Reply`, `HangUp`, `ServerCrash` and `Expire`: one set of actions for the four
handlers, which differ in the type of the job. Postmark is external: it sends an
event, one request at a time, until a 200. An event without MessageID is never
deduplicated, and the events of one message (its delivery and a bounce, say)
share a key.

### Outbound

The request that checks a draft and then queues it, `SendProcessor` (load, mail,
mark, log), Postmark, and the report processors (`DeliveryProcessor`: update the
log; `BounceProcessor`: update the log, look for it again and insert the event).
A mail's place in `mails` is its MessageID. Deleting a message is an action at
any time. `overlaps` counts loads of a draft another worker is sending,
`unmarked` the sends interrupted between Postmark and the database, `missed` the
reports that a shared key, a failure or their haste made void.

### Inbound

`Take`, `Resolve`, `Judge`, `FindThread`, `InsertThread`, `Store`, `Finish` and
`Fail` are the steps of `InboundProcessor.Process`, one per statement or
transaction that other workers can come between; each has its failing form
(`ResolveFails`, `ResolveMisled`, `JudgeMisled`, `FindThreadFails`,
`InsertThreadFails`, `StoreFails`, `FailFails`), and a transaction may fail after
its commit. `ResolveMisled` and `JudgeMisled` are queries whose errors the code
drops. `SetAliasTargets` and `SetDomainCatchall` are the administrator. History
variables name what the properties except: `spoiled` copies of failed attempts,
`misled` mails, `doubled` jobs, `unlisted` and `loose` mails in threads.

### Mailbox

`Inbound` ends where a copy is stored; `Mailbox` begins there, for one user.
A goroutine is an IMAP connection or a worker. `Fetch`, `Store`, `Copy` and
`Expunge` start a command with the list of messages it works through
(`ListMessages`), `Deliver` and `AppendMessage` create a message, and one step
after that is one statement with the local decisions behind it: `Look` and
`Insert` (`GetOrCreateIMAPUID`), `Stmt` (`SetFlag`, `ClearFlag`, `UpdateMessage`),
`Apply` (`ApplyLabels`), and `ReadFlags`, `Remove` and `List` of EXPUNGE. Each has
a failing form, carried out or not, that ends the command or goes on, as the code
does with that error: a failed lookup or insertion leaves a number derived from
the message's UUID (`Derived`), which says nothing about the message. A message
that is deleted while a command has it in its list stays in the list. `flags` are
the rows of `message_flags`, `columns` the flags in `messages`; FETCH answers
both. Clients use the UIDs that FETCH answered (`shown`) for ever after.
`MarkRead`, `MarkUnread`, `DeleteMessage` and `Relabel` are requests of the
webmail API. Requests, failures and crashes share one bound, `MaxDisruptions`,
and `Disruptions` says which may happen. History variables again name what
properties except: `named` keeps the rows `imap_uids` ever had, `raced` the UIDs
two made at once, `touched` the messages the webmail API marked as unread, `torn`
those whose flags two changed at once or a command left half changed, `spared`
those that changed under a running EXPUNGE.

### The modules of the browser

`Compose`, `Inbox`, `Admin` and `Tls` describe a page, the handlers it calls and
what the handlers change, in one module each, since what is hard about them is
between the two. They share four ideas:

* A request is a record in `calls`, made by a click or a timer, carried out by
  the server (`Serve`, `Handle`) in any order, and answered in any order. It
  holds what the code behind the answer closed over: the page it was made by,
  the label, the draft, the dialog of the moment of the click. React state is
  read at the time of the answer, variables of the handler at the time of the
  call, as in the code.
* `Fail` is a request that has no effect, `Lose` one that has its effect and
  whose answer is lost; the browser cannot tell them apart.
* `turns` bounds, with one number, everything out of the ordinary: clicks,
  faults, restarts, and what others do. Its guard is the only place where a
  behaviour is cut short, and the theorems hold for any bound.
* History variables (`raced`, `shaky`, `excess`, `kept`, `binned`; `wish`, `news`,
  `mixed`; `crossed`, `early`, `mixed`, `behind`; `kept`, `behind`, `unserved`,
  `renewed`, `cut`) record when the code may be excused. They guard no action,
  so they leave out no behaviour, and the properties name each of them: read as a
  list, the excuses of a property are what the code does not promise.

### Compose

Users: one tab, which shows at most one compose page (`page`, numbered), while
requests of earlier pages are still on their way. `Open`, `Jump`, `Edit`, `EditCc`,
`Persist` (the timer), `HandleSend`, `HandleFiles`, `RemoveAttachment`,
`HandleDiscard`, `Leave` are the page; `GetMessage`, `CreateDraft`, `UpdateDraft`,
`SendDraft`, `UploadAttachment`, `DeleteAttachment`, `DeleteMessage` the server;
`Loaded`, `Saved`, `Submitted`, `Sent`, `Started` and so on what the page does with
each answer; `Take` and `Mail` the worker, without the failures `Outbound` has. The
text is a version number: each edit makes a new one, so equal means the same
text. `UpdateDraft` keeps the stored Cc when the new list is empty (`COALESCE` over
a list that is nil), which `QuietMeansSaved` names as an exception. That Cc and
Bcc are stored but not mailed (`send.go` passes neither) is outside the module: a
mail there has its text and its files.

### Inbox

The list with its label, offset, rows and ticks, the page of one message, and
the router, which keeps the state of a page when only its URL changes. `news`
says that the mailbox may have changed behind the list: by another session, by an
announcement that nobody published, that the hub dropped, or that came while the
stream was down. Modelled as the code has them: the offset stays when the label
changes, so a list may be empty and without a pager (`Inbox.jsx:17`, `148`);
search is passed on and not looked at (`q` is never read by the handler); archive and
spam change the mailbox column, and the list goes by the label, so the rows stay.
Nothing in the repository publishes `message:new` on Redis.

### Admin

Domains with aliases and a catch-all user, users with memberships, and the dialog
over them. The page keeps the row a dialog was opened for apart from the row it
edits, and late answers set the second (`Admin.jsx:210`, `256`, `321`): `crossed`
says that an answer of an earlier dialog, open for another row, reached this one.
Until the aliases of a dialog have come those of the dialog before are there to
be removed (`early`).

### Tls

The tab and its forms; the handlers, statement by statement (`ReadConfig`,
`SetConfig`, `SetNames`, `BuildConfig`); the manager: `Apply`/`ApplyFails`/`Disable`
(`Reload` up to its certificate), `LoadCertificate`, `Begin`, `Obtain`/`ObtainFails`
under the lock; the renewal in the background (`ForceRenew`, `RenewBegins`,
`RenewObtains`, `RenewEnds`) and the loop (`Tick`, `LoopBegins`, `LoopObtains`), which
`ContextEnds` stops; `Panics` (a renewal without a client) and `Restart`. `First` are
the names stored at the start, so that a run may begin with a certificate and
add one. The module keeps what the code does and a reader would not expect:
`applyConfig` changes the manager before the steps that may fail, so a rejected
reload leaves a mixture of two configurations, though `manager_test.go:127`
requires that the "original config must be retained on failed reload" (the test
tries a provider that is refused before anything is changed); while an older
certificate is served, one that could not be obtained is not tried again by a
reload of the same names; the lock is held while a
certificate is obtained, which may outlast the answer's 30 seconds (`Lose`); a
restart forgets a renewal, and the next poll finds none in progress and no error,
which the page reports as "Certificate renewed" (`cut`); a poll that fails leaves
the timer running; and the Enter key adds a name while another change is saved.

## 3. The runs

Passing runs:

| Run | Instance | Shows |
|---|---|---|
| `JobQueue.cfg` | 2 jobs (one of an unregistered type), 2 goroutines in 2 processes, 2 attempts, producers' clock ahead by 1, one crash, stop or Redis failure | `TypeOK`; `Accounted`: a job never drops between the steps; `AttemptsEarned`: attempts are counted by failures; `RetrySpacing`: n failures take n(n+1)/2 backoffs; `ImplementsLedger` |
| `JobQueueLive.cfg` | 1 job, 2 processes, 3 attempts, one disruption, with fairness | `JobsFinish`: every accepted job ends; `StopReturns`: a stopped pool's goroutines exit |
| `Webhook.cfg` | 3 events (two of one message, one without MessageID), 2 requests, 3 disruptions, one expiry per key, 4 tries | `DuplicatesEarned`: a second job needs an expired key or a failed lookup; `AckedAccounted`: a 200 means a job, or a key someone took |
| `Outbound.cfg` | 1 draft, 2 browsers, 2 workers, 3 attempts, 2 clicks, 2 reports, 2 disruptions | `MailedMarked`, `MailsEarned`: a draft is mailed twice only for interrupted or overlapping sends; `BouncesAccounted`: a bounce is recorded or was early, lost or the second of its key |
| `Inbound.cfg` | 3 mails (to an alias of two users, to a user, to the catch-all), 2 users, 2 workers, 2 attempts, one change of the routing, 2 disruptions | `OneGoodCopy`, `Complete`, `LookupsDecide`, `ThreadsHold` |
| `Mailbox.cfg` | 2 messages, 2 mailboxes, 2 goroutines, pages of 2, 3 commands besides APPEND, one webmail request, failed statement or crash | `UidsNeverReused`, `OneUid`, `RightTarget`: a UID is one message's for ever, and commands change the message their client means; `SeenAgrees`: the two places of a flag; `ExpungesMarked`, `ExpungeComplete`: what EXPUNGE removes and what it leaves |
| `Compose.cfg` | 1 address, 1 file, 2 drafts, versions, pages, requests and turns | `MailedAsClicked`: mail goes out as shown at the click, but for automatic saves around it; `QuietMeansSaved`: a page at rest shows what is stored; `DraftsEarned`: one page makes one draft, but for overlaps and lost answers |
| `Inbox.cfg` | 2 labels and a search, list pages of 1, 1 message stored and 1 to come, 2 pages, 2 requests, 5 turns | `ListTells`: a list at rest shows the mailbox; `ActsOnShown`: what is deleted, starred or moved is what was shown; `FlagsSettle`: stars end as last asked for |
| `Admin.cfg` | 2 domains, 2 users, 2 aliases, 2 requests, 6 turns | `ActsOnOpen`: a dialog changes the row it was opened for; `ModalTells`: lists and dialogs at rest show what is stored |
| `Tls.cfg` | 2 names, one with a certificate, 1 credential, 2 requests, 4 turns | `ServesStored`: what is saved is stored, configured and served; `RenewedIsTrue`: "Certificate renewed" is shown of a renewal that worked |

Every passing run checks its module's `TypeOK` (`HookTypeOK` of `Webhook`) too, except the one of liveness.

Runs that find a documented claim violated by what the code does; each is a
finding in PROJECT.json:

| Run | Claim | What happens |
|---|---|---|
| `WebhookLost.cfg` | At-least-once delivery | The key outlives a failed LPUSH, so the redelivery is taken for a duplicate and answered 200 (`webhook.go:123`) |
| `TlsRenewal.cfg` | Certificates are renewed before they expire | `Start` is given a context of 60 seconds, and the loop ends with it: a certificate due later is not renewed (`main.go:193`) |

Other places where the code does not do what its documents or comments say are
exceptions that the passing properties name:

* `Pool.Stop` cancels the context first, so the retry of a job that fails during
  the stop is refused by Redis' client and the job is gone (`workers.go:87`; the
  `givenUp` of `Accounted`).
* Two clicks queue two jobs, and both mail the draft (`send.go:59`; the `overlaps`
  of `MailsEarned`).
* A bounce processed before the log is inserted finds none and is done
  (`send.go:129`; the `missed` of `BouncesAccounted`).
* A failed query counts as "no such user", and the mail goes to the catch-all
  (`auth.go:418`; the `misled` of `LookupsDecide`).
* A subject of more than 64 characters does not fit `subject_hash`: no thread
  (`pgstore.go:435`; the `TooLong` of `ThreadsHold`).

### Bounds, and why they are enough

* Two workers, requests or browsers: the races are of two actors over one entry,
  key, draft or thread. The theorems say so for any number.
* Two messages in `Mailbox`, with `Batch` at two: enough for a list to outlive one
  of its messages, a UID to be freed below or above another, and EXPUNGE to list
  again after a full page. Three commands: one FETCH to learn a UID and two that meet.
  A later page that is not empty needs a third message and is left to the comment
  of `ExpungeComplete`, which promises nothing about it.
* One compose page after another, two requests and two turns: enough for the
  answer of a page to reach the next one, for two saves to overlap, and for a
  fault within either. `Inbox` and `Admin` have 5 and 6 turns, since there every click is one:
  the hazards need two places or two dialogs, a change in one of them and an answer
  that is late. `Limit` 1 makes a second page of the list out of two messages.
* `Tls` with 4 turns and 2 names: two changes that overlap, each with a failure,
  or a change, a renewal, a restart and a poll. It has 3.7 million states, the most of all.
* Attempts: 2 or 3 instead of 3. Two already distinguish a first attempt, a
  retry and a last attempt; the liveness run and `Outbound` use 3.
* `MaxDisruptions` (1 to 3; `MaxDisturbances` of `Webhook`) bounds crashes and failed commands of a behaviour,
  enough for one that meets another's recovery; `MaxExpiries`, `MaxTries`,
  `MaxClicks`, `MaxReports` and `MaxRoutings` bound Redis expiries, Postmark's
  redeliveries, the user, Postmark's reports and the administrator. All of them
  are constants in the guards, and the theorems hold for any value of them.
* Time in `JobQueue` passes only while some entry waits for it (`Tick`): it is
  compared with nothing else.
* Symmetry is declared only for workers, browsers and the users of `Admin`
  (no definition names or orders them), and only in runs of invariants. `CHECK_DEADLOCK FALSE` is set where the bounded environment really
  comes to rest with all work done.

### Fairness

`JobQueueLive.cfg` and `TlsRenewal.cfg` use it, each as `FairSpec`.

For the queue: weak fairness of each goroutine's step (the Go scheduler runs every
goroutine; BRPOP returns after its poll interval), of the restart of a process that
ended (its supervisor) and of time. Nothing is assumed of producers, of the outcome
of a processor or of disruptions. `Step` of one goroutine is one fairness condition,
not one per disjunct: the code does not choose fairly between success and failure,
and `JobsFinish` holds because attempts are limited.

For the certificate: weak fairness of the manager's goroutines (`Manage`) and of the
handlers that reload it (`Reloads`), so that the run shows a renewal missing for
another reason than goroutines that stand still. Failures are turns, hence finitely
many, and the trace TLC finds has none.

The pages have no liveness: a user need not click, and an answer need not come.

## 4. The proofs

Every theorem is for arbitrary constants under the module's one ASSUME, which
TLC evaluates in the passing runs. The assumptions are types of the constants,
positive numbers of attempts, and that the value `None` is none of the values it stands
beside, `MailboxAssumption` also that pages are not empty, `InboxAssumption` that there is a page and
`AdminAssumption` an alias, since each begins with one; `WebhookAssumption` and `OutboundAssumption` also say that the requests,
respectively the workers, are finitely many, because the invariants count them.

**JobQueueProofs.** `QueueInv` is `TypeOK`, `AttemptsEarned` and `EntriesOK`.
`AttemptsEarned` alone is not inductive for `RetrySpacing`, which compares the
clock with the time of submission: `EntriesOK` says of every live entry that its
own time is at least n(n+1)/2 backoffs after its birth. That gives
`TypeCorrect`, `AttemptsAreEarned` and `RetriesAreSpaced`, for any clocks.
`CoverInv` strengthens it for `Accounted`: the danger is an entry that two
goroutines promote. Between its LPUSH and its ZREM an entry of the sorted set is
"doomed" and cannot vouch for its job, so every accepted job is covered by
something else, and a goroutine about to remove an entry has its job covered by
an attempt at least as late. An entry about to be put back vouches only for the
attempt before, since it may merge with a doomed equal member. `PromotedDue` makes
this inductive: what was promoted is due for everybody, so it is run and never put
back unchanged. This needs processes whose clocks agree (`SynchronizedClocks`, an
explicit assumption of `NoJobVanishes`): with skewed clocks a goroutine that is
behind puts the copy back as the very member the other one is about to remove.

Against the ledger: `QueueImplementsLedger == Spec => ImplementsLedger`: every
step of the queue is a step of the ledger or leaves it alone. The invariant
added is that what is spent was accepted (`LedgerInv`).

For the intake, in the last part of the module: `IntakeInv` is `HookTypeOK`, `KeysClaimed` (whoever finds the key
there finds a job, a request about to queue one, or one that failed to) and
`PassesEarned`, a count: jobs queued plus requests let through but not done are
at most the expiries, the failed lookups and one for a key that exists.

**OutboundProofs.** `OutboundInv` is `TypeOK`, `MailedMarked`, `LoggedIsSent`,
`LogMarked` and `SendsEarned`, again a count, of mails that are neither
interrupted nor forgotten plus workers about to mail a draft; the sets counted
are shown finite, and each action moves at most one member between them.
`BounceInv` carries `BouncesAccounted`. It turns the excuse "is under way or
missed" into where the report is at each step (`BouncesTracked`): its job is queued,
or a worker is updating the log, or inserting the event after it, or both
tables tell. `AnsweredUnlogged` is what a worker still owes: a send that mailed and
has not logged finds no log, so a bounce that comes before it is missed and nothing else.

**InboundProofs.** `InboundInv` has four parts. `TypeInv` adds that a processor
that has not judged the sender has served nobody. `LookupsInv` carries what the
lookups said from the resolution to the copy. `ThreadsInv` says that a worker
about to store has a thread that will do. `CopiesInv` is about ownership: copies
have fresh numbers, no two attempts own one copy, an attempt owns one copy for
each user it served (`Own`), a mail not promoted twice has one job in one place
(`Alone`), and once a successful attempt left a copy (`Kept`), its mail has no
job any more (`Quiet`), which together exclude a second good copy.

**MailboxProofs.** `MailboxInv` is `TypeInv` (`TypeOK` and the kind of command
each place belongs to), `NumbersInv` and, for each goroutine, `AimOK` and
`TargetOK`. `NumbersInv` says that every row `imap_uids` ever had is below the
sequence's last number, that these rows name one message per UID, and that clients
were shown nothing but such rows and derived numbers. `AimOK` ties a command to
what its client was shown. Together they carry `RightTarget` over the only step
that can break it: a goroutine turns to the message at hand under a number that
is a row of that message, and the client's UID is a row too. `OneUid` needs
`LooksDecide`: who is about to insert found no row, and nobody else is about to
insert the same, or `raced` says so. `ExpungesMarked` follows from what a step does
to flags while some EXPUNGE runs (`MarksMove`). `SeenInv` carries `SeenAgrees` by
what a STORE is yet to do (`Settles`): its remaining statements end by setting
the column, or remove the row, or leave places that agree; and who changes a message
that is not `torn` is alone with it (`LonesAlone`). `SweepInv` carries `ExpungeComplete`,
an action property: what an EXPUNGE found marked when it began has lost the label, or is
`spared`, or is still on its list with its mark or being removed (`Awaited`).

**TlsProofs.** `TypeInv` is `TypeOK` part by part, the sets the requests are from
and `LockInv`: the lock has one holder, who found a client and names. `TypeOK`
counts the holders; the invariant compares them, and the count follows. It also
ties the statement a handler has come to to its request. `EndsInv` carries
`RenewedIsTrue` from the click to the note. A click n the server accepted
(`Accepted`) may be told, between renewals, of no error only when a renewal since
was successful or the server was restarted (`AcceptedInv`); a poll reads first
that no renewal is in progress and then the error, so the same holds of a poll
between the two (`PollsInv`), and of what the page shows (`NoteInv`). `ServeInv` says that the
manager has the stored configuration, unless `behind` or a handler is on its way
to reload it, and that it serves the certificate for its names, unless `unserved`
or a handler is on its way to obtain it. `AloneInv` is about the one change that overlaps
no other: what it has read is what is stored, and what it applied is still there.
It is what makes a reload that ends well prove something, and what keeps credentials
that are read, merged and written back in two statements.

**ComposeProofs.** `TypeInv` is `TypeOK` part by part, with what the steps need of the
kinds of requests: one without a draft is a creation, and the save of a send has a
text. `DraftsEarned` counts too: `EarnedInv` says of each page that the drafts it
made, plus its creations under way, plus one if it is yet to make its first (it is
open, has no draft and awaits none) are at most one and its `excess`. Nothing but a
request that writes raises the sum, and that request is the one the page was yet to
make, or overlaps another. `QuietMeansSaved` speaks of a page whose writers have all
been answered, so its invariant follows the last one: while nothing is typed
(`Rest`), `RestInv` says, there is at most one writer, it carries what the page shows,
and once it is served its draft holds that. A creation that is served has a draft
the page does not know yet. `FreshInv` says that nobody else does: no other request
writes it or brings it, so what it holds stays until the page adopts it.
`MailedAsClicked` has a half for the text and one for the files. `TextInv` follows the
text from the click to the mail: a draft that is promised to the worker (`Pledged`) has
no save under way, unless it is `raced`, so the row, the worker's hand and the mail
have a text of a click. `AttachedInv` follows the files from the page to the draft, and
rests on `LoneInv`: a page that knows its draft awaits no other one, so the files it
shows are on the draft its click sends.

**InboxProofs.** A step of `Inbox` is one of a few shapes (a click, a request served,
failed or answered, a change by others), each with a lemma that says what it does
to the page and the requests. `HomeInv` ties requests to the kind of page
that makes them. `ActsInv` carries `ActsOnShown`: ticks are of the place that is shown,
a page that is not `mixed` shows the message of its URL, and a request remembers
what was shown at the click. `ListInv` carries `ListTells`: a list that is not `mixed`
awaits one answer at most, for its place; and the list, or the answer, is what the place
holds, unless something was missed or a change is about to be answered and followed by
another fetch (`Unsettled`). `FlagsSettle` has two halves. `StarsInv`: while a wish for
a star stands, one request at most is about it, has not failed, and asks
for the wish. `ReadInv`: the message that is shown is read, or its page is about to
mark it. The proof found that two CASE arms of `SetMessages` and of `SetMessage` were
not disjoint, so that which one held was TLC's choice, and that `MaxPages` must
not be zero.

**AdminProofs.** Steps are again reduced to shapes: a request takes another's place
or none (`Follows`), the server changes one thing, a few fields of the dialog
move. For `ActsOnOpen`, `HomeInv` says that the open dialog is the last one opened, that it
edits its row and that requests under its number are about that row, unless `crossed`;
`AnswersInv` and `ShownInv` that the aliases an answer brings, and those shown, are of
the domain asked about, unless those of the dialog are yet to come. `ModalTells` speaks of
the moment when nothing is under way, so its invariants say what is under way
otherwise: a list that is not `behind` has one read under way at most and is right,
or that read, or a change whose answer will cause one, makes it so (`RowsInv`,
`PeopleInv`); a dialog that is not `mixed` awaits only requests of its own, and the same
holds of its aliases, its catch-all user and its roles (`DomainInv`, `AliasesInv`,
`CatchallInv`, `UserInv`, `RolesInv`). The dialogs rest on the lists, because a dialog begins as a
copy of a row of the list. The proof found that `MaxAliases` must not be zero.

PROJECT.json lists the theorems with the property each one states.

### Only model-checked

The liveness properties (`JobsFinish`, `StopReturns`): liveness under fairness
and ENABLED are out of the prover's reach. Every other property of a passing run is
a theorem, for any value of the constants (`NoJobVanishes`, of `Accounted`, for
processes whose clocks agree). The violations are behaviours, which TLC prints. Two
limits shape the modules: the prover cannot instantiate the induction theorems of the library, so
nothing is claimed about what a recursion over data computes, and it loses its
arithmetic where a RECURSIVE operator is in reach, so no module has one.

## 5. What the models leave out

* Contents: bodies, headers, attachments, the JSON of jobs and webhooks. A mail,
  an event and a job are identities with the fields the code decides by.
* Of the queue: metrics and logs, and the panic of a processor (none recovers
  it; it ends the process, which is `Crash`).
* Of the intake: which domain's token is compared; it is accepted or rejected.
* Of sending: the spam processor (one log line). Contents, and edits of a draft
  while it is sent, are in `Compose`, failures and retries of the worker in `Outbound`;
  no module has both.
* Of inbound mail: greylisting (nothing fills the table), the search for an
  answered mail (`Process` passes no In-Reply-To), system labels and IMAP UIDs
  (see `Mailbox`). The queries of one `ResolveRecipients` are one step.
* Of mailboxes: MODSEQ, labels created, renamed or deleted, SEARCH and STATUS
  (answers that change nothing), sequence numbers, the UID of a sent message, and
  three of the five flags (they differ in their column's name only). A command
  whose first list fails does nothing, and is not an action.
* Of the pages: notices, what is only displayed, lists of files and labels, threads,
  downloads and the text editor. Requests of a page that is gone are left out when
  only that page would use their answer. `handleDelete` of `Inbox.jsx` is called by
  no element. Dialogs that create or delete a domain or a user are left out, and so
  are the overview and security tabs.
* Of certificates: the account, its registration, the directory and the provider's
  name, which are stored and reloaded with the rest (a change of the directory alone
  obtains nothing); what lego and the DNS provider do is success or failure.
* Isolation is what the statements give: a transaction that locks its row is one
  action, statements outside one are one action each.

## 6. The plan

Done: 1 `JobQueue` with `JobLedger`; 2 `Webhook`; 3 `Outbound`; 4 `Inbound`;
5 `Mailbox`; 6 `Compose`; 7 `Inbox`; 8 `Admin`; 9 `Tls`; and the proofs of all their
invariants and action properties and of the refinement.

Next, in this order:

10. `Settings`: the cache and the rate limiter; staleness bounded by the TTL, as
    a theorem over any clock.
11. `Calendar`, with CalDAV: default calendars, lost updates, collection tags.
12. `SMTPSession` and `Sessions` (authentication): protocol order and revocation.
13. `EventHub`: the hub's goroutine, its clients and the subscription; no
    deadlock of a broadcast, and every client that keeps up gets every event.
14. `Mailbox` once more: UIDNEXT, which is computed from the UIDs that are
    left (`pgstore.go:697`) and falls when the largest goes, and EXPUNGE beyond its
    first page; then a composition of `Webhook` and `JobQueue` over one `queue:jobs`,
    to replace the abstract intake by the real one.
15. The composition of 14 as a refinement: a request answered with 200 leads to a
    job the ledger accounts for, but for the key that outlives a failed LPUSH.
