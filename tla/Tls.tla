--------------------------------- MODULE Tls ---------------------------------
(***************************************************************************)
(* The server's certificate: the TLS tab of the administration page        *)
(* (Admin.jsx), the handlers behind it (admin/tls.go), which store the     *)
(* ACME configuration and then reload it, and the certificate manager      *)
(* (certmanager/manager.go), which obtains one certificate for all stored  *)
(* names and serves it.                                                    *)
(*                                                                         *)
(* A handler stores first and reloads after, in statements of its own; the *)
(* manager's lock is held while a certificate is obtained, but not between *)
(* a reload's new configuration and its certificate.  Renewals run in the  *)
(* background, where the page asks for their end every two seconds, and in *)
(* the manager's loop, which checks the age of the certificate.            *)
(*                                                                         *)
(* Of the configuration the model has the switch and the credentials of    *)
(* the DNS provider.  The account, the directory and the provider's name   *)
(* are stored and reloaded with them; a change of the directory alone      *)
(* obtains nothing.  A lapsed certificate counts as none on the disk.      *)
(***************************************************************************)
EXTENDS Naturals, FiniteSets

CONSTANTS
  Name,       \* names a certificate may cover
  First,      \* those that are stored at first
  Key,        \* credentials of the DNS provider
  None,       \* no name
  MaxCalls,   \* bound: requests in progress at one time
  MaxTurns    \* bound: clicks, faults, restarts and renewals due

ASSUME TlsAssumption ==
  First \subseteq Name /\ None \notin Name /\ MaxCalls \in Nat /\ MaxTurns \in Nat

VARIABLES
  \* the database
  conf,      \* the stored configuration
  names,     \* the stored names
  \* the manager
  mgr,       \* its configuration, and whether it has a client of the ACME server
  served,    \* the certificate it serves
  disk,      \* the certificates in its directory
  renewal,   \* the renewal in the background, and the click it was started by
  lastErr,   \* the last one failed
  loop,      \* the loop that checks the certificate
  \* the browser
  page,      \* the TLS tab
  calls,     \* requests made and not yet handled by the page's code
  turns,     \* turns so far
  \* history
  kept,      \* the credentials saved by requests that overlapped no other one
  behind,    \* the last reload failed or overlapped a change
  unserved,  \* the manager could not obtain a certificate for its names
  renewed,   \* the last click on Renew before a renewal was successful
  cut        \* the last click on Renew before a restart

dbVars == <<conf, names>>
mgrVars == <<mgr, served, disk>>
bgVars == <<renewal, lastErr, loop>>
reload == <<kept, behind, unserved>>
ends == <<renewed, cut>>
vars == <<dbVars, mgrVars, bgVars, page, calls, turns, reload, ends>>

Blank == [on |-> FALSE, keys |-> {}]
NoKeys == [k \in Key |-> 0]
NoConf == [on |-> FALSE, creds |-> NoKeys]
Off == [client |-> FALSE, names |-> {}, creds |-> NoKeys]
NoCert == [names |-> {}, due |-> FALSE]
Cert(ns) == [names |-> ns, due |-> FALSE]
Note(what, no) == [what |-> what, no |-> no]

(* A request: "load" reads what the tab shows, "save", "add" and "delete"  *)
(* change what is stored, "renew" starts a renewal and "poll" asks for its *)
(* end.  "at" is the statement its handler comes to.                       *)
Changing == {"save", "add", "delete"}
Op == Changing \cup {"load", "renew", "poll"}
At == {"asked", "merge", "build", "names", "apply", "load", "wait", "obtaining", "result",
       "done"}
Request(op) ==
  [op |-> op, arg |-> None, form |-> Blank, value |-> 0, no |-> 0, at |-> "asked",
   conf |-> NoConf, names |-> {}, says |-> "", ok |-> FALSE, lost |-> FALSE, alone |-> TRUE]

Reloading == {c \in calls : c.op \in Changing /\ c.at # "done"}
(* A mutant: the renewals in the background do not take the lock.          *)
LockedByHandler == \E c \in calls : c.at = "obtaining"

(* Somebody holds the manager's lock to obtain a certificate.              *)
Locked == renewal.st = "obtain" \/ loop = "obtain" \/ \E c \in calls : c.at = "obtaining"

(* The server has started, with its certificate if it is to have one, and  *)
(* the tab has been loaded.                                                *)
Configured == IF conf.on THEN [client |-> TRUE, names |-> names, creds |-> conf.creds] ELSE Off
Init ==
  /\ conf = [NoConf EXCEPT !.on = TRUE] /\ names = First
  /\ mgr = Configured /\ served = Cert(mgr.names)
  /\ disk = {served} \ {NoCert}
  /\ renewal = [st |-> "none", no |-> 0] /\ lastErr = FALSE /\ loop = "idle"
  /\ page = [busy |-> FALSE, shown |-> names, note |-> Note("", 0), polls |-> {}, clicks |-> 0]
  /\ calls = {} /\ turns = 0
  /\ kept = NoKeys /\ behind = FALSE /\ unserved = FALSE
  /\ renewed = 0 /\ cut = 0

Turn == turns < MaxTurns /\ turns' = turns + 1
Replace(c, cs) == calls' = (calls \ {c}) \cup cs
Bounded(cs) == Cardinality(cs) <= MaxCalls

-----------------------------------------------------------------------------
(* The administrator                                                       *)

(* The tab is opened, and its code reads what it shows; the four requests  *)
(* are one here.                                                           *)
FetchTLS ==
  /\ Turn
  /\ Request("load") \notin calls
  /\ calls' = calls \cup {Request("load")} /\ Bounded(calls')
  /\ page' = [page EXCEPT !.note = Note("", 0)]
  /\ UNCHANGED <<dbVars, mgrVars, bgVars, reload, ends>>

(* A request that changes what is stored; from now on it and those in      *)
(* progress are not alone.                                                 *)
Change(c) ==
  /\ Turn
  /\ calls' = {IF d \in Reloading THEN [d EXCEPT !.alone = FALSE] ELSE d : d \in calls}
                \cup {[c EXCEPT !.alone = Reloading = {}]}
  /\ Bounded(calls') /\ Cardinality(calls') = Cardinality(calls) + 1
  /\ page' = [page EXCEPT !.busy = TRUE, !.note = Note("", 0)]
  /\ UNCHANGED <<dbVars, mgrVars, bgVars, reload, ends>>

(* The form is saved as it is filled in then.                              *)
SaveTLSConfig(on, keys) ==
  /\ ~page.busy
  /\ Change([Request("save") EXCEPT !.form = [on |-> on, keys |-> keys], !.value = turns + 1])

(* The name can be entered by key, too, whether or not the page is busy.   *)
AddTlsDomain(n) == Change([Request("add") EXCEPT !.arg = n])
DeleteTlsDomain(n) ==
  ~page.busy /\ n \in page.shown /\ Change([Request("delete") EXCEPT !.arg = n])

ForceRenewClick ==
  /\ Turn
  /\ ~page.busy
  /\ calls' = calls \cup {[Request("renew") EXCEPT !.no = page.clicks + 1]} /\ Bounded(calls')
  /\ page' = [page EXCEPT !.busy = TRUE, !.note = Note("renewing", 0), !.clicks = @ + 1]
  /\ UNCHANGED <<dbVars, mgrVars, bgVars, reload, ends>>

(* The timer of two seconds: it does not wait for the answer.              *)
Poll(n) ==
  /\ n \in page.polls
  /\ LET c == [Request("poll") EXCEPT !.no = n] IN
     c \notin calls /\ calls' = calls \cup {c} /\ Bounded(calls')
  /\ UNCHANGED <<dbVars, mgrVars, bgVars, page, turns, reload, ends>>

-----------------------------------------------------------------------------
(* The handlers                                                            *)

GoTo(c, at) == Replace(c, {[c EXCEPT !.at = at]})

(* The handler ends.  A page that gave up hears nothing of it.             *)
Tell(c, ok, list, says) ==
  Replace(c, IF c.lost THEN {}
             ELSE {[Request(c.op) EXCEPT !.no = c.no, !.at = "done", !.ok = ok,
                                         !.names = list, !.says = says]})
Answered(c, ok) == Tell(c, ok, {}, "")
Refuse(c) == Answered(c, FALSE)

(* A reload ends: after one that worked, and that no other change came     *)
(* between, the manager has what is stored.                                *)
Reloaded(c, ok) == Answered(c, ok) /\ behind' = ~(ok /\ c.alone)

GetTLS(c) ==
  /\ c.op = "load" /\ c.at = "asked"
  /\ Tell(c, TRUE, names, "")
  /\ UNCHANGED <<dbVars, mgrVars, bgVars, reload, ends>>

(* putTLSConfig: the credentials that are stored are read, those that were *)
(* filled in replace them, and all are written.                            *)
ReadConfig(c) ==
  /\ c.op = "save" /\ c.at = "asked"
  /\ Replace(c, {[c EXCEPT !.conf = conf, !.at = "merge"]})
  /\ UNCHANGED <<dbVars, mgrVars, bgVars, reload, ends>>

Merged(creds, c) == [k \in Key |-> IF k \in c.form.keys THEN c.value ELSE creds[k]]

SetConfig(c) ==
  /\ c.at = "merge"
  /\ conf' = [on |-> c.form.on, creds |-> Merged(c.conf.creds, c)]
  /\ kept' = IF c.alone THEN [k \in Key |-> IF k \in c.form.keys THEN c.value ELSE kept[k]]
             ELSE conf'.creds
  /\ GoTo(c, "build")
  /\ UNCHANGED <<names, mgrVars, bgVars, behind, unserved, ends>>

(* addTLSDomain, deleteTLSDomain: a name is stored once.                   *)
SetNames(c) ==
  /\ c.op \in {"add", "delete"} /\ c.at = "asked"
  /\ IF (c.op = "add") = (c.arg \in names)
       THEN Refuse(c) /\ names' = names
       ELSE /\ names' = IF c.op = "add" THEN names \cup {c.arg} ELSE names \ {c.arg}
            /\ GoTo(c, "build")
  /\ UNCHANGED <<conf, mgrVars, bgVars, reload, ends>>

(* acmeConfigFromDB, in two reads; the names of a configuration that is    *)
(* switched off are not read.                                              *)
BuildConfig(c) ==
  /\ c.at \in {"build", "names"}
  /\ Replace(c, {IF c.at = "names" THEN [c EXCEPT !.names = names, !.at = "apply"]
                 ELSE [c EXCEPT !.conf = conf, !.at = IF conf.on THEN "names" ELSE "apply"]})
  /\ UNCHANGED <<dbVars, mgrVars, bgVars, reload, ends>>

-----------------------------------------------------------------------------
(* The manager                                                             *)

(* Reload without an account: the manager is switched off.                 *)
Disable(c) ==
  /\ c.at = "apply" /\ ~c.conf.on /\ ~Locked
  /\ mgr' = Off /\ served' = NoCert
  /\ unserved' = FALSE
  /\ Reloaded(c, TRUE)
  /\ UNCHANGED <<dbVars, disk, bgVars, kept, ends>>

Applied(c) == [client |-> TRUE, names |-> c.names, creds |-> c.conf.creds]

(* A mutant: the names are compared after they were replaced.              *)
ApplyUnchanged(c) ==
  /\ c.at = "apply" /\ c.conf.on /\ ~Locked
  /\ mgr' = Applied(c)
  /\ IF served.names = {} /\ c.names # {} THEN GoTo(c, "load") /\ behind' = behind
     ELSE Reloaded(c, TRUE)
  /\ UNCHANGED <<dbVars, served, disk, bgVars, kept, unserved, ends>>

(* Reload, under the lock: other names need another certificate.           *)
Apply(c) ==
  /\ c.at = "apply" /\ c.conf.on /\ ~Locked
  /\ mgr' = Applied(c)
  /\ CASE c.names # mgr.names -> GoTo(c, "wait") /\ behind' = behind
       [] c.names = mgr.names /\ served.names = {} /\ c.names # {} ->
            GoTo(c, "load") /\ behind' = behind
       [] OTHER -> Reloaded(c, TRUE)
  /\ UNCHANGED <<dbVars, served, disk, bgVars, kept, unserved, ends>>

(* applyConfig fails: early, before it changed anything, or with the       *)
(* account, when the new names are there and the client is not, or with    *)
(* the provider, when the client is there, too.                            *)
ApplyFails(c) ==
  /\ Turn
  /\ c.at = "apply" /\ c.conf.on /\ ~Locked
  /\ \/ mgr' = mgr
     \/ mgr' = [Applied(c) EXCEPT !.client = mgr.client]
     \/ mgr' = Applied(c)
  /\ unserved' = (unserved \/ mgr'.names # mgr.names)
  /\ Reloaded(c, FALSE)
  /\ UNCHANGED <<dbVars, served, disk, bgVars, page, kept, ends>>

OnDisk == {d \in disk : d.names = mgr.names}
LoadCertificate(c) ==
  /\ c.at = "load"
  /\ IF mgr.names = {} THEN Reloaded(c, TRUE) /\ UNCHANGED <<served, unserved>>
     ELSE IF OnDisk = {} THEN GoTo(c, "wait") /\ UNCHANGED <<served, behind, unserved>>
     ELSE /\ served' \in OnDisk /\ unserved' = FALSE
          /\ Reloaded(c, TRUE)
  /\ UNCHANGED <<dbVars, mgr, disk, bgVars, kept, ends>>

(* obtainCertificate begins: it takes the lock, and fails without names.   *)
(* Without a client it panics: a handler's request fails.                  *)
Begin(c) ==
  /\ c.at = "wait" /\ ~Locked
  /\ IF mgr.names = {} \/ ~mgr.client
       THEN Reloaded(c, FALSE) /\ unserved' = TRUE
       ELSE GoTo(c, "obtaining") /\ UNCHANGED <<behind, unserved>>
  /\ UNCHANGED <<dbVars, mgrVars, bgVars, kept, ends>>

Stored(cert) == {d \in disk : d.names # cert.names} \cup {cert}
Obtained ==
  /\ served' = Cert(mgr.names) /\ disk' = Stored(Cert(mgr.names))
  /\ mgr' = mgr /\ unserved' = FALSE
(* The ACME server refuses, or the certificate's file is written and that  *)
(* of its key is not.                                                      *)
NotObtained ==
  /\ Turn
  /\ disk' = disk \/ disk' = disk \ OnDisk
  /\ UNCHANGED <<mgr, served>>

Obtain(c) ==
  /\ c.at = "obtaining"
  /\ Obtained /\ Reloaded(c, TRUE)
  /\ UNCHANGED <<dbVars, bgVars, kept, ends>>
ObtainFails(c) ==
  /\ c.at = "obtaining"
  /\ NotObtained /\ unserved' = TRUE /\ Reloaded(c, FALSE)
  /\ UNCHANGED <<dbVars, bgVars, page, kept, ends>>

(* The database fails a handler; what it has stored stays.                 *)
StatementFails(c) ==
  /\ Turn
  /\ c.at \in {"asked", "merge", "build", "names"} /\ c.op \notin {"renew", "poll"}
  /\ IF c.at \in {"build", "names"} THEN Reloaded(c, FALSE) ELSE Refuse(c) /\ behind' = behind
  /\ UNCHANGED <<dbVars, mgrVars, bgVars, page, kept, unserved, ends>>

-----------------------------------------------------------------------------
(* Renewals                                                                *)

ForceRenew(c) ==
  /\ c.op = "renew" /\ c.at = "asked"
  /\ IF renewal.st # "none" THEN Refuse(c) /\ renewal' = renewal
     ELSE Answered(c, TRUE) /\ renewal' = [st |-> "wait", no |-> c.no]
  /\ UNCHANGED <<dbVars, mgrVars, lastErr, loop, reload, ends>>

(* RenewStatus: is one in progress, and then, how did the last one end.    *)
RenewStatus(c) ==
  /\ c.op = "poll"
  /\ \/ c.at = "asked" /\ IF renewal.st # "none"
                            THEN Tell(c, TRUE, {}, "in progress")
                            ELSE GoTo(c, "result")
     \/ c.at = "result" /\ Tell(c, TRUE, {}, IF lastErr THEN "failed" ELSE "renewed")
  /\ UNCHANGED <<dbVars, mgrVars, bgVars, reload, ends>>

(* The renewal in the background obtains a certificate, records how that   *)
(* ended, and is no longer in progress.                                    *)
RenewBegins ==
  /\ renewal.st = "wait" /\ ~Locked /\ (mgr.client \/ mgr.names = {})
  /\ renewal' = [renewal EXCEPT !.st = IF mgr.names = {} THEN "failed" ELSE "obtain"]
  /\ UNCHANGED <<dbVars, mgrVars, lastErr, loop, page, calls, turns, reload, ends>>
RenewObtains ==
  /\ renewal.st = "obtain"
  /\ \/ /\ Obtained /\ turns' = turns
        /\ renewal' = [renewal EXCEPT !.st = "ok"] /\ renewed' = page.clicks
     \/ /\ NotObtained
        /\ renewal' = [renewal EXCEPT !.st = "failed"] /\ UNCHANGED <<unserved, renewed>>
  /\ UNCHANGED <<dbVars, lastErr, loop, page, calls, kept, behind, cut>>
(* A mutant: the renewal is over before its end is recorded.               *)
RenewEndsFirst ==
  \/ /\ renewal.st \in {"ok", "failed"}
     /\ renewal' = [st |-> "none", no |-> IF renewal.st = "ok" THEN 0 ELSE renewal.no]
     /\ UNCHANGED <<dbVars, mgrVars, lastErr, loop, page, calls, turns, reload, ends>>
  \/ /\ renewal.st = "none" /\ renewal.no # 0
     /\ lastErr' = TRUE /\ renewal' = [renewal EXCEPT !.no = 0]
     /\ UNCHANGED <<dbVars, mgrVars, loop, page, calls, turns, reload, ends>>
RenewEnds ==
  \/ /\ renewal.st \in {"ok", "failed"}
     /\ lastErr' = (renewal.st = "failed")
     /\ renewal' = [renewal EXCEPT !.st = "told"]
     /\ UNCHANGED <<dbVars, mgrVars, loop, page, calls, turns, reload, ends>>
  \/ /\ renewal.st = "told"
     /\ renewal' = [st |-> "none", no |-> 0]
     /\ UNCHANGED <<dbVars, mgrVars, lastErr, loop, page, calls, turns, reload, ends>>

(* The certificate comes to the time when it is to be renewed.             *)
Age ==
  /\ Turn
  /\ served.names # {} /\ ~served.due
  /\ served' = [served EXCEPT !.due = TRUE] /\ disk' = Stored(served')
  /\ UNCHANGED <<dbVars, mgr, bgVars, page, calls, reload, ends>>

(* renewalLoop checks at its start and at every tick, as long as the       *)
(* context of Start lives.                                                 *)
Tick ==
  /\ loop = "idle" /\ loop' = "wait"
  /\ mgr.client /\ mgr.names # {} /\ (served.names = {} \/ served.due)
  /\ UNCHANGED <<dbVars, mgrVars, renewal, lastErr, page, calls, turns, reload, ends>>
LoopBegins ==
  /\ loop = "wait" /\ ~Locked /\ (mgr.client \/ mgr.names = {})
  /\ loop' = IF mgr.names = {} THEN "idle" ELSE "obtain"
  /\ UNCHANGED <<dbVars, mgrVars, renewal, lastErr, page, calls, turns, reload, ends>>
LoopObtains ==
  /\ loop = "obtain" /\ loop' = "idle"
  /\ \/ Obtained /\ turns' = turns
     \/ NotObtained /\ unserved' = unserved
  /\ UNCHANGED <<dbVars, renewal, lastErr, page, calls, kept, behind, ends>>

(* The context that the server gives to Start ends after 60 seconds.       *)
ContextEnds ==
  /\ Turn
  /\ loop = "idle" /\ loop' = "ended"
  /\ UNCHANGED <<dbVars, mgrVars, renewal, lastErr, page, calls, reload, ends>>

(* The process ends, by itself when a renewal finds no client, and starts  *)
(* again: NewManager and Start, with what is stored.  The requests fail.   *)
(* Without a certificate the loop is not started.                          *)
Panics == ~Locked /\ ~mgr.client /\ mgr.names # {} /\ "wait" \in {renewal.st, loop}
Restart ==
  /\ IF Panics THEN turns' = turns ELSE Turn
  /\ mgr' = Configured
  /\ LET ns == mgr'.names
         found == {d \in disk : d.names = ns} IN
     IF found # {} \/ ns = {}
       THEN /\ served' \in IF ns = {} THEN {NoCert} ELSE found
            /\ disk' = disk /\ unserved' = FALSE /\ loop' = "idle"
       ELSE \/ /\ served' = Cert(ns) /\ disk' = Stored(Cert(ns))
               /\ unserved' = FALSE /\ loop' = "idle"
            \/ /\ served' = NoCert /\ disk' = disk
               /\ unserved' = TRUE /\ loop' = "ended"
  /\ renewal' = [st |-> "none", no |-> 0] /\ lastErr' = FALSE
  /\ calls' = {[Request(c.op) EXCEPT !.no = c.no, !.at = "done"] :
                  c \in {d \in calls : ~d.lost /\ d.at # "done"}}
               \cup {d \in calls : d.at = "done"}
  /\ behind' = FALSE /\ cut' = page.clicks
  /\ UNCHANGED <<dbVars, page, kept, renewed>>

-----------------------------------------------------------------------------
(* The answers                                                             *)

Then(c, cs, p) == Replace(c, cs) /\ page' = p
Free(p) == [p EXCEPT !.busy = FALSE]

(* Failures are displayed; a poll that fails leaves the timer running.     *)
AfterFailure(c) ==
  CASE c.op = "poll" -> page
    [] c.op = "load" -> [page EXCEPT !.note = Note("failed", 0)]
    [] OTHER -> Free([page EXCEPT !.note = Note("failed", 0)])

Loaded(c) ==
  /\ c.op = "load" /\ c.ok
  /\ Then(c, {}, [page EXCEPT !.shown = c.names])
Changed(c) ==
  /\ c.op \in Changing /\ c.ok
  /\ Then(c, {Request("load")},
          Free([page EXCEPT !.note = IF c.op = "save" THEN Note("saved", 0) ELSE @]))
RenewStarted(c) ==
  /\ c.op = "renew" /\ c.ok
  /\ Then(c, {}, [page EXCEPT !.polls = @ \cup {c.no}])
(* What the timer asked for: the renewal goes on, or ended, and how.       *)
Polled(c) ==
  /\ c.op = "poll" /\ c.ok
  /\ LET over == Free([page EXCEPT !.polls = @ \ {c.no}]) IN
     CASE c.says = "in progress" -> Then(c, {}, page)
       [] c.says = "failed" -> Then(c, {}, [over EXCEPT !.note = Note("failed", 0)])
       [] c.says = "renewed" ->
            Then(c, {Request("load")}, [over EXCEPT !.note = Note("renewed", c.no)])

Answer(c) ==
  /\ c.at = "done"
  /\ \/ Loaded(c) \/ Changed(c) \/ RenewStarted(c) \/ Polled(c)
     \/ ~c.ok /\ Then(c, {}, AfterFailure(c))
  /\ UNCHANGED <<dbVars, mgrVars, bgVars, turns, reload, ends>>

(* The answer does not come in the 30 seconds the server has for it, or is *)
(* lost: the handler goes on.  (StatementFails does it for a load; a poll  *)
(* without an answer is as good as none.)                                  *)
Lose(c) ==
  /\ Turn
  /\ c.op \notin {"load", "poll"} /\ ~c.lost
  /\ Then(c, IF c.at = "done" THEN {} ELSE {[c EXCEPT !.lost = TRUE]}, AfterFailure(c))
  /\ UNCHANGED <<dbVars, mgrVars, bgVars, reload, ends>>

Handle(c) ==
  /\ \/ GetTLS(c) \/ ReadConfig(c) \/ SetConfig(c) \/ SetNames(c) \/ BuildConfig(c)
     \/ Disable(c) \/ Apply(c) \/ LoadCertificate(c) \/ Begin(c) \/ Obtain(c)
     \/ ForceRenew(c) \/ RenewStatus(c)
  /\ UNCHANGED <<page, turns>>

Manage ==
  \/ RenewBegins \/ RenewObtains \/ RenewEnds
  \/ Tick \/ LoopBegins \/ LoopObtains

Next ==
  \/ FetchTLS \/ ForceRenewClick
  \/ \E on \in BOOLEAN, keys \in SUBSET Key : SaveTLSConfig(on, keys)
  \/ \E n \in Name : AddTlsDomain(n) \/ DeleteTlsDomain(n)
  \/ \E n \in page.polls : Poll(n)
  \/ \E c \in calls : \/ Handle(c) \/ Answer(c) \/ Lose(c)
                      \/ StatementFails(c) \/ ApplyFails(c) \/ ObtainFails(c)
  \/ Manage \/ Age \/ ContextEnds \/ Restart

Spec == Init /\ [][Next]_vars

Reloads == \E c \in Reloading : Handle(c)

(* The goroutines of the manager, and those of the handlers it serves, go  *)
(* on.                                                                     *)
FairSpec == Spec /\ WF_vars(Manage) /\ WF_vars(Reloads)

-----------------------------------------------------------------------------
CertSet == [names : SUBSET Name, due : BOOLEAN]
Creds == [Key -> 0..MaxTurns]
ConfSet == [on : BOOLEAN, creds : Creds]
NoteSet == [what : {"", "saved", "renewing", "renewed", "failed"}, no : 0..MaxTurns]

(* A certificate covers names, of each set of names one is on the disk;    *)
(* the lock has one holder, and a manager that obtains one has a client.   *)
TypeOK ==
  /\ conf \in ConfSet /\ names \subseteq Name
  /\ mgr \in [client : BOOLEAN, names : SUBSET Name, creds : Creds]
  /\ served \in CertSet /\ disk \subseteq CertSet
  /\ \A d, e \in disk : d.names = e.names => d = e
  /\ renewal \in [st : {"none", "wait", "obtain", "ok", "failed", "told"}, no : 0..MaxTurns]
  /\ lastErr \in BOOLEAN /\ loop \in {"idle", "wait", "obtain", "ended"}
  /\ page \in [busy : BOOLEAN, shown : SUBSET Name, note : NoteSet, polls : SUBSET (1..MaxTurns),
               clicks : 0..MaxTurns]
  /\ \A c \in calls : c.op \in Op /\ c.at \in At /\ c.no \in 0..page.clicks
  /\ Cardinality({c \in calls : c.at = "obtaining"})
       + (IF renewal.st = "obtain" THEN 1 ELSE 0) + (IF loop = "obtain" THEN 1 ELSE 0) <= 1
  /\ Locked => mgr.client /\ mgr.names # {}
  /\ turns \in 0..MaxTurns /\ kept \in Creds
  /\ {behind, unserved} \subseteq BOOLEAN /\ {renewed, cut} \subseteq 0..page.clicks

(* What the administrator saved is stored and served.  A credential stays  *)
(* until another value is saved for it, unless changes overlapped.  When   *)
(* no change is under way the manager has the stored configuration, unless *)
(* the last reload failed or overlapped another change; and it serves the  *)
(* one certificate for exactly the stored names, unless it failed to       *)
(* obtain one since: as long as it serves another certificate, a later     *)
(* reload finds the names unchanged and does not try again.                *)
ServesStored ==
  /\ conf.creds = kept
  /\ Reloading = {} /\ ~behind =>
       /\ mgr = Configured
       /\ ~unserved => served.names = mgr.names

(* "Certificate renewed" is shown of a renewal that was successful, or     *)
(* that a later one made good; unless the server was restarted, which      *)
(* forgets the renewal and how it ended.                                   *)
RenewedIsTrue ==
  page.note.what = "renewed" => renewed >= page.note.no \/ cut >= page.note.no

(* "Auto-renew before expiry" (docs/design/tls-letsencrypt.md:8): a        *)
(* certificate that is due is renewed in the end, as long as it is one for *)
(* the names that are configured and the manager has a client.             *)
Renewable == mgr.client /\ served.names = mgr.names
AutoRenewed == served.due ~> (served.due => ~Renewable)
=============================================================================
