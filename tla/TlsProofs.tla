------------------------------ MODULE TlsProofs ------------------------------
(***************************************************************************)
(* Proofs about Tls, for any names, credentials and bounds: its type       *)
(* invariant with the one holder of the manager's lock, RenewedIsTrue and  *)
(* ServesStored.                                                           *)
(***************************************************************************)
EXTENDS Tls, TLAPS, FiniteSetTheorems

CallSet ==
  [op : Op, arg : Name \cup {None}, form : [on : BOOLEAN, keys : SUBSET Key],
   value : 0..MaxTurns, no : 0..MaxTurns, at : At, conf : ConfSet, names : SUBSET Name,
   says : {"", "in progress", "failed", "renewed"}, ok : BOOLEAN, lost : BOOLEAN,
   alone : BOOLEAN]

(* A request comes to the statements of its own handler, and it asks for   *)
(* the end of a renewal that was clicked.                                  *)
CallOK(c) ==
  /\ c \in CallSet
  /\ c.no \in 0..page.clicks
  /\ c.at \in At \ {"asked", "result", "done"} => c.op \in Changing
  /\ c.at = "result" => c.op = "poll"
  /\ c.op \in {"renew", "poll"} => c.no # 0
  /\ c.op = "poll" /\ c.at = "done" /\ c.ok => c.says # ""
  /\ c.op = "add" /\ c.at # "done" => c.arg \in Name

CallsOK == \A c \in calls : CallOK(c)

(* TypeOK without the counting of the holders, part by part, and the       *)
(* clicks there were.                                                      *)
DbOK == conf \in ConfSet /\ names \subseteq Name
MgrOK ==
  /\ mgr \in [client : BOOLEAN, names : SUBSET Name, creds : Creds]
  /\ served \in CertSet /\ disk \subseteq CertSet
  /\ \A d, e \in disk : d.names = e.names => d = e
BgOK ==
  /\ renewal \in [st : {"none", "wait", "obtain", "ok", "failed", "told"}, no : 0..MaxTurns]
  /\ lastErr \in BOOLEAN /\ loop \in {"idle", "wait", "obtain", "ended"}
PageOK ==
  /\ page \in [busy : BOOLEAN, shown : SUBSET Name, note : NoteSet, polls : SUBSET (1..MaxTurns),
               clicks : 0..MaxTurns]
  /\ page.polls \subseteq 1..page.clicks
  /\ turns \in 0..MaxTurns /\ page.clicks <= turns
ReloadOK == kept \in Creds /\ behind \in BOOLEAN /\ unserved \in BOOLEAN
EndsOK == renewed \in 0..page.clicks /\ cut \in 0..page.clicks
Types == DbOK /\ MgrOK /\ BgOK /\ PageOK /\ ReloadOK /\ EndsOK

(* The lock has one holder, who found a client and names to ask for.       *)
LockInv ==
  /\ \A c, d \in calls : c.at = "obtaining" /\ d.at = "obtaining" => c = d
  /\ renewal.st = "obtain" => loop # "obtain" /\ \A c \in calls : c.at # "obtaining"
  /\ loop = "obtain" => \A c \in calls : c.at # "obtaining"
  /\ Locked => mgr.client /\ mgr.names # {}

TypeInv == Types /\ CallsOK /\ LockInv

-----------------------------------------------------------------------------
(* What the steps do to the requests                                       *)

LEMMA Blanks ==
  /\ NoKeys \in Creds /\ NoConf \in ConfSet
  /\ Blank \in [on : BOOLEAN, keys : SUBSET Key]
  /\ Off \in [client : BOOLEAN, names : SUBSET Name, creds : Creds]
  /\ NoCert \in CertSet
  /\ \A op \in Op : Request(op) \in CallSet
<1>1. NoKeys \in Creds
  BY TlsAssumption DEF NoKeys, Creds
<1>2. NoConf \in ConfSet
  BY <1>1 DEF NoConf, ConfSet
<1>3. \A op \in Op : Request(op) \in CallSet
  BY <1>2, TlsAssumption DEF Request, CallSet, Blank, At
<1> QED BY <1>1, <1>2, <1>3 DEF Blank, Off, NoCert, CertSet

(* The answer of a handler.                                                *)
Told(c, ok, list, says) ==
  [Request(c.op) EXCEPT !.no = c.no, !.at = "done", !.ok = ok, !.names = list, !.says = says]

LEMMA Clicks ==
  ASSUME TypeInv
  PROVE  page.clicks \in 0..MaxTurns /\ page.clicks <= page.clicks
<1>1. page.clicks \in 0..MaxTurns
  BY DEF TypeInv, Types, PageOK
<1> QED BY <1>1, TlsAssumption

LEMMA NoteTypes ==
  \A what \in {"", "saved", "renewing", "renewed", "failed"} : Note(what, 0) \in NoteSet
<1>1. 0 \in 0..MaxTurns
  BY TlsAssumption
<1> QED BY <1>1 DEF Note, NoteSet

LEMMA OldCall ==
  ASSUME TypeInv, NEW d \in calls, page'.clicks \in 0..MaxTurns,
         page.clicks <= page'.clicks
  PROVE  CallOK(d)'
<1>1. CallOK(d)
  BY DEF TypeInv, CallsOK
<1>2. page.clicks \in 0..MaxTurns
  BY DEF TypeInv, Types, PageOK
<1>3. d.no \in 0..page.clicks => d.no \in 0..page'.clicks
  BY <1>2, TlsAssumption
<1> QED BY <1>1, <1>3 DEF CallOK

LEMMA ToldCallOK ==
  ASSUME TypeInv, NEW c \in calls, NEW ok \in BOOLEAN, NEW list \in SUBSET Name,
         NEW says \in {"", "in progress", "failed", "renewed"},
         c.op = "poll" /\ ok => says # "",
         page' = page, NEW d, d = Told(c, ok, list, says)
  PROVE  CallOK(d)'
<1>1. CallOK(c)
  BY DEF TypeInv, CallsOK
<1>2. c \in CallSet
  BY <1>1 DEF CallOK
<1>3. /\ d \in CallSet /\ d.op = c.op /\ d.no = c.no /\ d.at = "done"
      /\ d.ok = ok /\ d.says = says
  <2>1. c.op \in Op /\ c.no \in 0..MaxTurns
    BY <1>2 DEF CallSet
  <2>2. Request(c.op) \in CallSet /\ Request(c.op).op = c.op
    BY <2>1, Blanks DEF Request
  <2> QED BY <2>1, <2>2 DEF Told, CallSet, At
<1>4. d.op = "poll" /\ d.ok => d.says # ""
  <2>1. CASE ok = TRUE
    BY <1>3, <2>1, Zenon
  <2>2. CASE ok = FALSE
    BY <1>3, <2>2, Zenon
  <2> QED BY <2>1, <2>2
<1>5. d \in CallSet /\ d.op = c.op /\ d.no = c.no /\ d.at = "done"
  BY <1>3, Zenon
<1> QED BY <1>1, <1>4, <1>5 DEF CallOK

(* The answer of a handler keeps the types of the requests.                *)
LEMMA TellOK ==
  ASSUME TypeInv, NEW c \in calls, NEW ok \in BOOLEAN, NEW list \in SUBSET Name,
         NEW says \in {"", "in progress", "failed", "renewed"},
         c.op = "poll" /\ ok => says # "",
         page' = page, Tell(c, ok, list, says)
  PROVE  CallsOK'
<1>1. page'.clicks \in 0..MaxTurns /\ page.clicks <= page'.clicks
  BY Clicks
<1>2. \A d \in calls : CallOK(d)'
  BY <1>1, OldCall
<1>3. \A d : d = Told(c, ok, list, says) => CallOK(d)'
  BY ToldCallOK
<1>4. \A d \in calls' : (d \in calls /\ d # c) \/ d = Told(c, ok, list, says)
  BY DEF Tell, Replace, Told
<1>5. \A d \in calls' : CallOK(d)'
  BY <1>2, <1>3, <1>4
<1> QED BY <1>5 DEF CallsOK

(* A statement of a handler keeps them, too.                               *)
LEMMA ReplaceOK ==
  ASSUME TypeInv, NEW c \in calls, NEW d, Replace(c, {d}), page' = page,
         d \in CallSet, d.op = c.op, d.no = c.no, d.arg = c.arg, c.at # "done",
         d.at \in At \ {"asked", "result", "done"} => c.op \in Changing,
         d.at = "result" => c.op = "poll",
         d.at # "done"
  PROVE  CallsOK'
<1>0. page'.clicks \in 0..MaxTurns /\ page.clicks <= page'.clicks
  BY Clicks
<1>1. \A e \in calls : CallOK(e)'
  BY <1>0, OldCall
<1>2. CallOK(c)
  BY DEF TypeInv, CallsOK
<1>3. CallOK(d)'
  BY <1>2 DEF CallOK
<1> QED BY <1>1, <1>3 DEF CallsOK, Replace

LEMMA GoToOK ==
  ASSUME TypeInv, NEW c \in calls, NEW at \in At \ {"asked", "result", "done"}, GoTo(c, at),
         page' = page, c.op \in Changing, c.at # "done"
  PROVE  CallsOK'
<1> DEFINE d == [c EXCEPT !.at = at]
<1>1. c \in CallSet
  BY DEF TypeInv, CallsOK, CallOK
<1>2. d \in CallSet /\ d.op = c.op /\ d.no = c.no /\ d.at = at /\ d.arg = c.arg
  BY <1>1 DEF CallSet
<1> QED BY <1>2, ReplaceOK DEF GoTo

-----------------------------------------------------------------------------
(* The type invariant                                                      *)

(* A handler that is done leaves the answer, and nothing it had begun.     *)
Done(c) ==
  /\ \A d \in calls : d # c => d \in calls'
  /\ \A d \in calls' : (d \in calls /\ d # c) \/ (d.op = c.op /\ d.no = c.no /\ d.at = "done")

LEMMA AnsweredDone ==
  ASSUME TypeInv, NEW c \in calls, NEW ok \in BOOLEAN, NEW list \in SUBSET Name,
         NEW says \in {"", "in progress", "failed", "renewed"},
         Tell(c, ok, list, says)
  PROVE  Done(c)
<1>1. c.op \in Op /\ c.no \in 0..MaxTurns
  BY DEF TypeInv, CallsOK, CallOK, CallSet
<1>2. Request(c.op) \in CallSet /\ Request(c.op).op = c.op
  BY <1>1, Blanks DEF Request
<1>3. \A d : d = Told(c, ok, list, says) => d.op = c.op /\ d.no = c.no /\ d.at = "done"
  BY <1>1, <1>2 DEF Told, CallSet
<1> QED BY <1>3 DEF Done, Tell, Replace, Told

LEMMA ReloadedOK ==
  ASSUME TypeInv, NEW c \in calls, c.op \in Changing, NEW ok \in BOOLEAN, page' = page,
         Reloaded(c, ok)
  PROVE  CallsOK' /\ Done(c) /\ behind' \in BOOLEAN
<1>1. Tell(c, ok, {}, "") /\ behind' \in BOOLEAN
  BY DEF Reloaded, Answered
<1>2. Done(c)
  BY <1>1, AnsweredDone
<1>3. CallsOK'
  BY <1>1, TellOK DEF Changing
<1> QED BY <1>1, <1>2, <1>3

LEMMA Frames ==
  ASSUME Types
  PROVE  /\ UNCHANGED dbVars => DbOK'
         /\ UNCHANGED mgrVars => MgrOK'
         /\ UNCHANGED bgVars => BgOK'
         /\ UNCHANGED <<page, turns>> => PageOK'
         /\ UNCHANGED reload => ReloadOK'
         /\ UNCHANGED ends /\ page'.clicks = page.clicks => EndsOK'
<1>1. UNCHANGED dbVars => DbOK'
  BY DEF Types, DbOK, dbVars
<1>2. UNCHANGED mgrVars => MgrOK'
  BY DEF Types, MgrOK, mgrVars
<1>3. UNCHANGED bgVars => BgOK'
  BY DEF Types, BgOK, bgVars
<1>4. UNCHANGED <<page, turns>> => PageOK'
  BY DEF Types, PageOK
<1>5. UNCHANGED reload => ReloadOK'
  BY DEF Types, ReloadOK, reload
<1>6. UNCHANGED ends /\ page'.clicks = page.clicks => EndsOK'
  BY DEF Types, EndsOK, ends
<1> QED BY <1>1, <1>2, <1>3, <1>4, <1>5, <1>6

LEMMA CallTypes ==
  ASSUME TypeInv, NEW c \in calls
  PROVE  /\ CallOK(c) /\ c \in CallSet
         /\ c.at \in At \ {"asked", "result", "done"} => c.op \in Changing
         /\ c.at \in {"merge", "build", "names", "apply", "load", "wait", "obtaining"} => c.op \in Changing
BY DEF TypeInv, CallsOK, CallOK, At

-----------------------------------------------------------------------------
(* The lock                                                                *)

Held == \E c \in calls : c.at = "obtaining"

(* A step after which whoever holds the lock held it before.               *)
LEMMA LockKept ==
  ASSUME LockInv, Held' => Held,
         \A c, d \in calls' : c.at = "obtaining" /\ d.at = "obtaining" => c = d,
         renewal'.st = "obtain" => renewal.st = "obtain",
         loop' = "obtain" => loop = "obtain",
         mgr' = mgr \/ (mgr'.client = mgr.client /\ mgr'.names = mgr.names) \/ ~Locked
  PROVE  LockInv'
<1>1. Locked' => Locked
  BY DEF Locked, Held
<1>2. Locked' => mgr'.client /\ mgr'.names # {}
  BY <1>1 DEF LockInv
<1>3. Held' => renewal'.st # "obtain" /\ loop' # "obtain"
  BY DEF LockInv, Held
<1>4. renewal'.st = "obtain" => loop' # "obtain"
  BY DEF LockInv
<1> QED BY <1>2, <1>3, <1>4 DEF LockInv, Held

(* A step that gives the lock to nobody.                                   *)
LEMMA LockFree ==
  ASSUME LockInv, \A d \in calls' : d.at = "obtaining" => d \in calls,
         renewal'.st = "obtain" => renewal.st = "obtain",
         loop' = "obtain" => loop = "obtain",
         mgr' = mgr \/ ~Locked
  PROVE  LockInv'
<1>1. Held' => Held
  BY DEF Held
<1>2. \A c, d \in calls' : c.at = "obtaining" /\ d.at = "obtaining" => c = d
  BY DEF LockInv
<1> QED BY <1>1, <1>2, LockKept

LEMMA ChangeLock ==
  ASSUME TypeInv, NEW c \in CallSet, c.at = "asked", Change(c)
  PROVE  LockInv'
<1>0. LockInv
  BY DEF TypeInv
<1>1. UNCHANGED <<mgrVars, bgVars>>
  BY DEF Change
<1>2. \A d : d = [c EXCEPT !.alone = Reloading = {}] => d.at = "asked"
  BY DEF CallSet
<1>3. \A e \in calls : \A d : d = [e EXCEPT !.alone = FALSE] => d.at = e.at
  BY CallTypes DEF CallSet
<1>4. \A d \in calls' : d.at = "obtaining" =>
        \E e \in calls : /\ e.at = "obtaining"
                         /\ d = IF e \in Reloading THEN [e EXCEPT !.alone = FALSE] ELSE e
  <2>1. TAKE d \in calls'
  <2>2. HAVE d.at = "obtaining"
  <2>3. d # [c EXCEPT !.alone = Reloading = {}]
    BY <1>2, <2>2
  <2>4. PICK e \in calls : d = IF e \in Reloading THEN [e EXCEPT !.alone = FALSE] ELSE e
    BY <2>3 DEF Change
  <2>5. e.at = "obtaining"
    BY <1>3, <2>2, <2>4
  <2> QED BY <2>4, <2>5
<1>5. \A d, e \in calls : d.at = "obtaining" /\ e.at = "obtaining" => d = e
  BY <1>0 DEF LockInv
<1>6. \A d, e \in calls' : d.at = "obtaining" /\ e.at = "obtaining" => d = e
  BY <1>4, <1>5
<1>7. Held' => Held
  BY <1>4 DEF Held
<1> QED BY <1>0, <1>1, <1>6, <1>7, LockKept DEF mgrVars, bgVars

LEMMA AskLock ==
  ASSUME TypeInv, NEW c, c.at = "asked", calls' = calls \cup {c}, UNCHANGED <<mgrVars, bgVars>>
  PROVE  LockInv'
BY LockFree DEF TypeInv, mgrVars, bgVars

-----------------------------------------------------------------------------
(* The steps of the page: they make requests and change what it shows.     *)
LEMMA ChangeTypes ==
  ASSUME TypeInv, NEW c \in CallSet, c.op \in Changing, c.no = 0, c.at = "asked",
         c.op = "add" => c.arg \in Name, Change(c)
  PROVE  TypeInv'
<1>1. page' = [page EXCEPT !.busy = TRUE, !.note = Note("", 0)] /\ turns' = turns + 1
      /\ turns < MaxTurns
  BY DEF Change, Turn
<1>2. Note("", 0) \in NoteSet
  BY TlsAssumption DEF Note, NoteSet
<1>3. page'.clicks = page.clicks /\ page'.clicks \in 0..MaxTurns
  BY <1>1 DEF TypeInv, Types, PageOK
<1>4. \A d \in calls : CallOK(d)'
  BY <1>3, Clicks, OldCall
<1>5. \A d : d = [c EXCEPT !.alone = Reloading = {}] => CallOK(d)'
  <2>1. TAKE d
  <2>2. HAVE d = [c EXCEPT !.alone = Reloading = {}]
  <2>3. d \in CallSet /\ d.op = c.op /\ d.no = c.no /\ d.at = c.at /\ d.arg = c.arg
    BY <2>2 DEF CallSet
  <2> QED BY <1>3, <2>3, TlsAssumption DEF CallOK, Changing
<1>6. \A e \in calls : \A d : d = [e EXCEPT !.alone = FALSE] => CallOK(d)'
  <2>1. TAKE e \in calls
  <2>2. TAKE d
  <2>3. HAVE d = [e EXCEPT !.alone = FALSE]
  <2>4. e \in CallSet /\ CallOK(e)'
    BY <1>4 DEF TypeInv, CallsOK, CallOK
  <2>5. /\ d \in CallSet /\ d.op = e.op /\ d.no = e.no /\ d.at = e.at
        /\ d.ok = e.ok /\ d.says = e.says /\ d.arg = e.arg
    BY <2>3, <2>4 DEF CallSet
  <2> QED BY <2>4, <2>5 DEF CallOK
<1>7. CallsOK'
  BY <1>4, <1>5, <1>6 DEF Change, CallsOK
<1>8. UNCHANGED <<dbVars, mgrVars, bgVars, reload, ends>>
  BY DEF Change
<1>9. PageOK'
  <2>1. PageOK
    BY DEF TypeInv, Types
  <2>2. /\ page' \in [busy : BOOLEAN, shown : SUBSET Name, note : NoteSet,
                      polls : SUBSET (1..MaxTurns), clicks : 0..MaxTurns]
        /\ page'.polls = page.polls /\ page'.clicks = page.clicks
    BY <2>1, <1>1, <1>2 DEF PageOK
  <2>3. turns' \in 0..MaxTurns /\ page.clicks <= turns'
    BY <2>1, <1>1, TlsAssumption DEF PageOK
  <2> QED BY <2>1, <2>2, <2>3 DEF PageOK
<1>10. LockInv'
  BY ChangeLock
<1> QED BY <1>3, <1>7, <1>8, <1>9, <1>10, Frames DEF TypeInv, Types

LEMMA TurnBound ==
  ASSUME PageOK, Turn
  PROVE  turns' \in 0..MaxTurns /\ page.clicks <= turns'
<1>1. turns \in 0..MaxTurns /\ page.clicks \in 0..MaxTurns /\ page.clicks <= turns
  BY DEF PageOK
<1> QED BY <1>1, TlsAssumption DEF Turn

LEMMA TurnTaken ==
  ASSUME PageOK, Turn, page' = page
  PROVE  PageOK'
BY TurnBound DEF PageOK

LEMMA CallsStep ==
  ASSUME TypeInv, \A d \in calls' : d \in calls \/ CallOK(d)',
         page'.clicks \in 0..MaxTurns, page.clicks <= page'.clicks
  PROVE  CallsOK'
<1>1. \A d \in calls : CallOK(d)'
  BY OldCall
<1> QED BY <1>1 DEF CallsOK

LEMMA FetchTypes ==
  ASSUME TypeInv, FetchTLS
  PROVE  TypeInv'
<1> DEFINE c == Request("load")
<1>0. Types /\ PageOK /\ page.clicks \in 0..MaxTurns /\ page.clicks <= page.clicks
  BY Clicks DEF TypeInv, Types
<1>1. c \in CallSet /\ c.op = "load" /\ c.no = 0 /\ c.at = "asked"
  BY Blanks DEF Op, Request
<1>2. page' = [page EXCEPT !.note = Note("", 0)] /\ turns < MaxTurns /\ turns' = turns + 1
  BY DEF FetchTLS, Turn
<1>3. Note("", 0) \in NoteSet
  BY NoteTypes
<1>4. /\ page' \in [busy : BOOLEAN, shown : SUBSET Name, note : NoteSet,
                    polls : SUBSET (1..MaxTurns), clicks : 0..MaxTurns]
      /\ page'.polls = page.polls /\ page'.clicks = page.clicks
  BY <1>0, <1>2, <1>3 DEF PageOK
<1>5. turns' \in 0..MaxTurns /\ page.clicks <= turns'
  BY <1>0, TurnBound DEF FetchTLS
<1>6. PageOK'
  BY <1>0, <1>4, <1>5 DEF PageOK
<1>7. 0 \in 0..page'.clicks
  BY <1>0, <1>4, TlsAssumption
<1>8. \A d : d = c => CallOK(d)'
  BY <1>1, <1>7 DEF CallOK, Changing
<1>9. \A d \in calls' : d \in calls \/ CallOK(d)'
  BY <1>8 DEF FetchTLS
<1>10. page'.clicks \in 0..MaxTurns /\ page.clicks <= page'.clicks
  BY <1>0, <1>4
<1>11. CallsOK'
  BY <1>9, <1>10, CallsStep
<1>12. LockInv'
  BY <1>1, AskLock DEF FetchTLS
<1> QED BY <1>0, <1>4, <1>6, <1>11, <1>12, Frames DEF FetchTLS, Types, TypeInv

LEMMA RenewClickTypes ==
  ASSUME TypeInv, ForceRenewClick
  PROVE  TypeInv'
<1>0. Types /\ PageOK /\ page.clicks \in 0..MaxTurns /\ page.clicks <= turns /\ turns \in 0..MaxTurns
  BY DEF TypeInv, Types, PageOK
<1>1. turns < MaxTurns /\ turns' = turns + 1
  BY DEF ForceRenewClick, Turn
<1>2. /\ page.clicks + 1 \in 1..MaxTurns /\ page.clicks + 1 <= turns'
      /\ page.clicks + 1 \in 0..MaxTurns /\ turns' \in 0..MaxTurns
  BY <1>0, <1>1, TlsAssumption
<1> DEFINE c == [Request("renew") EXCEPT !.no = page.clicks + 1]
<1>3. c \in CallSet /\ c.op = "renew" /\ c.no = page.clicks + 1 /\ c.at = "asked"
  <2>1. Request("renew") \in CallSet /\ Request("renew").op = "renew" /\ Request("renew").at = "asked"
    BY Blanks DEF Op, Request
  <2> QED BY <2>1, <1>2 DEF CallSet
<1>4. Note("renewing", 0) \in NoteSet
  BY NoteTypes
<1>5. page' = [page EXCEPT !.busy = TRUE, !.note = Note("renewing", 0), !.clicks = @ + 1]
  BY DEF ForceRenewClick
<1>6. /\ page' \in [busy : BOOLEAN, shown : SUBSET Name, note : NoteSet,
                    polls : SUBSET (1..MaxTurns), clicks : 0..MaxTurns]
      /\ page'.polls = page.polls /\ page'.clicks = page.clicks + 1
  BY <1>0, <1>2, <1>4, <1>5 DEF PageOK
<1>7. \A n \in 0..page.clicks : n \in 0..page'.clicks
  BY <1>0, <1>6, TlsAssumption
<1>8. 1..page.clicks \subseteq 1..page'.clicks
  BY <1>0, <1>6, TlsAssumption
<1>9. PageOK'
  BY <1>0, <1>2, <1>6, <1>8 DEF PageOK
<1>10. EndsOK'
  BY <1>0, <1>7 DEF ForceRenewClick, ends, Types, EndsOK
<1>11. page.clicks + 1 \in 0..page'.clicks /\ page.clicks + 1 # 0
  BY <1>0, <1>6, TlsAssumption
<1>12. \A d : d = c => CallOK(d)'
  BY <1>3, <1>11 DEF CallOK, Changing
<1>13. page'.clicks \in 0..MaxTurns /\ page.clicks <= page'.clicks
  BY <1>0, <1>2, <1>6, TlsAssumption
<1>14. \A d \in calls' : d \in calls \/ CallOK(d)'
  BY <1>12 DEF ForceRenewClick
<1>15. CallsOK'
  BY <1>13, <1>14, CallsStep
<1>16. LockInv'
  BY <1>3, AskLock DEF ForceRenewClick
<1> QED BY <1>0, <1>9, <1>10, <1>15, <1>16, Frames DEF ForceRenewClick, Types, TypeInv

LEMMA SaveTypes ==
  ASSUME TypeInv, NEW on \in BOOLEAN, NEW keys \in SUBSET Key, SaveTLSConfig(on, keys)
  PROVE  TypeInv'
<1> DEFINE c == [Request("save") EXCEPT !.form = [on |-> on, keys |-> keys], !.value = turns + 1]
<1>0. turns \in 0..MaxTurns
  BY DEF TypeInv, Types, PageOK
<1>1. turns < MaxTurns
  BY DEF SaveTLSConfig, Change, Turn
<1>2. turns + 1 \in 0..MaxTurns
  BY <1>0, <1>1, TlsAssumption
<1>3. /\ Request("save") \in CallSet /\ Request("save").op = "save"
      /\ Request("save").at = "asked" /\ Request("save").no = 0
  BY Blanks DEF Op, Changing, Request
<1>4. c \in CallSet /\ c.op = "save" /\ c.no = 0 /\ c.at = "asked"
  BY <1>2, <1>3 DEF CallSet
<1> QED BY <1>4, ChangeTypes DEF SaveTLSConfig, Changing

LEMMA NameTypes ==
  ASSUME TypeInv, NEW n \in Name, AddTlsDomain(n) \/ DeleteTlsDomain(n)
  PROVE  TypeInv'
<1>1. ASSUME NEW op \in {"add", "delete"}, Change([Request(op) EXCEPT !.arg = n])
      PROVE  TypeInv'
  <2> DEFINE c == [Request(op) EXCEPT !.arg = n]
  <2>1. /\ Request(op) \in CallSet /\ Request(op).op = op
        /\ Request(op).at = "asked" /\ Request(op).no = 0
    BY Blanks DEF Op, Changing, Request
  <2>2. c \in CallSet /\ c.op = op /\ c.no = 0 /\ c.at = "asked" /\ c.arg = n
    BY <2>1 DEF CallSet
  <2> QED BY <1>1, <2>2, ChangeTypes DEF Changing
<1> QED BY <1>1 DEF AddTlsDomain, DeleteTlsDomain

LEMMA PollTypes ==
  ASSUME TypeInv, NEW n \in page.polls, Poll(n)
  PROVE  TypeInv'
<1> DEFINE c == [Request("poll") EXCEPT !.no = n]
<1>0. Types /\ PageOK /\ page.clicks \in 0..MaxTurns /\ page.clicks <= page.clicks
  BY Clicks DEF TypeInv, Types
<1>1. n \in 1..page.clicks
  BY <1>0 DEF PageOK
<1>2. n \in 0..page.clicks /\ n \in 0..MaxTurns /\ n # 0
  BY <1>0, <1>1, TlsAssumption
<1>3. Request("poll") \in CallSet /\ Request("poll").op = "poll" /\ Request("poll").at = "asked"
  BY Blanks DEF Op, Request
<1>4. c \in CallSet /\ c.op = "poll" /\ c.no = n /\ c.at = "asked"
  BY <1>2, <1>3 DEF CallSet
<1>5. page' = page /\ calls' = calls \cup {c}
  BY DEF Poll
<1>6. \A d : d = c => CallOK(d)'
  BY <1>2, <1>4, <1>5 DEF CallOK, Changing
<1>7. \A d \in calls' : d \in calls \/ CallOK(d)'
  BY <1>5, <1>6
<1>8. CallsOK'
  BY <1>0, <1>5, <1>7, CallsStep
<1>9. LockInv'
  BY <1>4, <1>5, AskLock DEF Poll
<1> QED BY <1>0, <1>5, <1>8, <1>9, Frames DEF Poll, Types, TypeInv

(* The steps that handle an answer.                                        *)
PageSet ==
  [busy : BOOLEAN, shown : SUBSET Name, note : NoteSet, polls : SUBSET (1..MaxTurns),
   clicks : 0..MaxTurns]

LEMMA PageTypes ==
  ASSUME TypeInv, NEW cs, \A d \in cs : d = Request("load") \/ CallOK(d)',
         calls' \subseteq calls \cup cs,
         page' \in PageSet, page'.clicks = page.clicks, page'.polls \subseteq 1..page.clicks,
         turns' \in 0..MaxTurns, page.clicks <= turns',
         UNCHANGED <<dbVars, mgrVars, bgVars, reload, ends>>
  PROVE  Types' /\ CallsOK'
<1>1. page'.clicks \in 0..MaxTurns /\ page.clicks <= page'.clicks /\ 0 \in 0..page'.clicks
  BY Clicks, TlsAssumption
<1>2. PageOK'
  BY DEF PageOK, PageSet
<1>3. \A d : d = Request("load") => CallOK(d)'
  <2>1. /\ Request("load") \in CallSet /\ Request("load").op = "load"
        /\ Request("load").at = "asked" /\ Request("load").no = 0
    BY Blanks DEF Op, Request
  <2> QED BY <1>1, <2>1 DEF CallOK, Changing
<1>4. \A d \in calls' : d \in calls \/ CallOK(d)'
  BY <1>3
<1>5. CallsOK'
  BY <1>1, <1>4, CallsStep
<1> QED BY <1>2, <1>5, Frames DEF TypeInv, Types

LEMMA FailureTypes ==
  ASSUME TypeInv, NEW c
  PROVE  /\ AfterFailure(c) \in PageSet /\ AfterFailure(c).clicks = page.clicks
         /\ AfterFailure(c).polls = page.polls
<1>1. page \in PageSet /\ Note("failed", 0) \in NoteSet
  BY NoteTypes DEF TypeInv, Types, PageOK, PageSet
<1> QED BY <1>1 DEF AfterFailure, Free, PageSet

LEMMA AnswerTypes ==
  ASSUME TypeInv, NEW c \in calls, Answer(c)
  PROVE  Types' /\ CallsOK'
<1>1. page \in PageSet /\ page.polls \subseteq 1..page.clicks
  BY DEF TypeInv, Types, PageOK, PageSet
<1>2. turns' = turns /\ turns' \in 0..MaxTurns /\ page.clicks <= turns'
  BY DEF Answer, TypeInv, Types, PageOK
<1>3. UNCHANGED <<dbVars, mgrVars, bgVars, reload, ends>>
  BY DEF Answer
<1>4. CallOK(c) /\ c \in CallSet
  BY DEF TypeInv, CallsOK, CallOK
<1>5. ASSUME NEW p, Then(c, {}, p) \/ Then(c, {Request("load")}, p),
             p \in PageSet, p.clicks = page.clicks, p.polls \subseteq 1..page.clicks
      PROVE  Types' /\ CallsOK'
  <2>1. calls' \subseteq calls \cup {Request("load")} /\ page' = p
    BY <1>5 DEF Then, Replace
  <2>2. \A d \in {Request("load")} : d = Request("load") \/ CallOK(d)'
    OBVIOUS
  <2> QED BY <1>2, <1>3, <1>5, <2>1, <2>2, PageTypes
<1>6. CASE Loaded(c)
  <2> DEFINE p == [page EXCEPT !.shown = c.names]
  <2>1. p \in PageSet /\ p.clicks = page.clicks /\ p.polls = page.polls
    BY <1>1, <1>4 DEF PageSet, CallSet
  <2> QED BY <1>1, <1>5, <1>6, <2>1 DEF Loaded
<1>7. CASE Changed(c)
  <2> DEFINE p == Free([page EXCEPT !.note = IF c.op = "save" THEN Note("saved", 0) ELSE @])
  <2>1. p \in PageSet /\ p.clicks = page.clicks /\ p.polls = page.polls
    BY <1>1, NoteTypes DEF PageSet, Free
  <2> QED BY <1>1, <1>5, <1>7, <2>1 DEF Changed
<1>8. CASE RenewStarted(c)
  <2> DEFINE p == [page EXCEPT !.polls = @ \cup {c.no}]
  <2>1. c.no \in 1..page.clicks /\ c.no \in 1..MaxTurns
    BY <1>4, <1>8, Clicks, TlsAssumption DEF RenewStarted, CallOK
  <2>2. p \in PageSet /\ p.clicks = page.clicks /\ p.polls = page.polls \cup {c.no}
    BY <1>1, <2>1 DEF PageSet
  <2> QED BY <1>1, <1>5, <1>8, <2>1, <2>2 DEF RenewStarted
<1>9. CASE Polled(c)
  <2> DEFINE over == Free([page EXCEPT !.polls = @ \ {c.no}])
  <2>1. over \in PageSet /\ over.clicks = page.clicks /\ over.polls \subseteq page.polls
    BY <1>1 DEF PageSet, Free
  <2>2. Note("failed", 0) \in NoteSet /\ Note("renewed", c.no) \in NoteSet
    BY <1>4, NoteTypes DEF Note, NoteSet, CallSet
  <2> DEFINE f == [over EXCEPT !.note = Note("failed", 0)]
             r == [over EXCEPT !.note = Note("renewed", c.no)]
  <2>3. f \in PageSet /\ f.clicks = page.clicks /\ f.polls = over.polls
    BY <2>1, <2>2 DEF PageSet
  <2>4. r \in PageSet /\ r.clicks = page.clicks /\ r.polls = over.polls
    BY <2>1, <2>2 DEF PageSet
  <2>5. c.op = "poll" /\ c.ok /\ c.at = "done" => c.says # ""
    BY <1>4 DEF CallOK
  <2>6. c.says \in {"in progress", "failed", "renewed"}
    BY <1>4, <1>9, <2>5 DEF CallSet, Polled, Answer
  <2>7. Then(c, {}, page) \/ Then(c, {}, f) \/ Then(c, {Request("load")}, r)
    BY <1>9, <2>6 DEF Polled
  <2> HIDE DEF over, f, r
  <2> QED BY <1>1, <1>5, <2>1, <2>3, <2>4, <2>7
<1>10. CASE Then(c, {}, AfterFailure(c))
  BY <1>1, <1>5, <1>10, FailureTypes
<1> QED BY <1>6, <1>7, <1>8, <1>9, <1>10 DEF Answer

LEMMA LoseTypes ==
  ASSUME TypeInv, NEW c \in calls, Lose(c)
  PROVE  Types' /\ CallsOK'
<1>1. page' = AfterFailure(c) /\ page.polls \subseteq 1..page.clicks
  BY DEF Lose, Then, TypeInv, Types, PageOK
<1>2. page' \in PageSet /\ page'.clicks = page.clicks /\ page'.polls = page.polls
  BY <1>1, FailureTypes
<1>3. turns' \in 0..MaxTurns /\ page.clicks <= turns'
  BY TurnBound DEF Lose, TypeInv, Types
<1> DEFINE d == [c EXCEPT !.lost = TRUE]
<1>4. CallOK(c) /\ c \in CallSet
  BY DEF TypeInv, CallsOK, CallOK
<1>5. \A e : e = d => CallOK(e)'
  <2>1. /\ d \in CallSet /\ d.op = c.op /\ d.no = c.no /\ d.at = c.at
        /\ d.ok = c.ok /\ d.says = c.says /\ d.arg = c.arg
    BY <1>4 DEF CallSet
  <2> QED BY <1>2, <1>4, <2>1 DEF CallOK
<1>6. calls' \subseteq calls \cup {d} /\ \A e \in {d} : CallOK(e)'
  BY <1>5 DEF Lose, Then, Replace
<1> QED BY <1>1, <1>2, <1>3, <1>6, PageTypes DEF Lose

-----------------------------------------------------------------------------
(* The handlers and the manager                                            *)

LEMMA StoredTypes ==
  ASSUME MgrOK, NEW cert \in CertSet
  PROVE  Stored(cert) \subseteq CertSet /\ \A d, e \in Stored(cert) : d.names = e.names => d = e
BY DEF MgrOK, Stored

LEMMA ObtainTypes ==
  ASSUME TypeInv
  PROVE  /\ Obtained => MgrOK' /\ unserved' \in BOOLEAN
         /\ NotObtained => MgrOK' /\ turns' \in 0..MaxTurns /\ page.clicks <= turns'
<1>1. MgrOK /\ PageOK
  BY DEF TypeInv, Types
<1>2. Cert(mgr.names) \in CertSet
  BY <1>1 DEF MgrOK, Cert, CertSet
<1>3. ASSUME Obtained PROVE MgrOK' /\ unserved' \in BOOLEAN
  BY <1>1, <1>2, <1>3, StoredTypes DEF MgrOK, Obtained
<1>4. ASSUME NotObtained PROVE MgrOK' /\ turns' \in 0..MaxTurns /\ page.clicks <= turns'
  <2>1. turns' \in 0..MaxTurns /\ page.clicks <= turns'
    BY <1>1, <1>4, TurnBound DEF NotObtained
  <2>2. disk' \subseteq disk /\ mgr' = mgr /\ served' = served
    BY <1>4 DEF NotObtained
  <2> QED BY <1>1, <2>1, <2>2 DEF MgrOK
<1> QED BY <1>3, <1>4

LEMMA ConfiguredTypes ==
  ASSUME DbOK
  PROVE  Configured \in [client : BOOLEAN, names : SUBSET Name, creds : Creds]
BY Blanks DEF DbOK, Configured, ConfSet

(* The statements of the handlers on the database.                         *)
LEMMA DbTypes ==
  ASSUME TypeInv, NEW c \in calls, UNCHANGED <<page, turns>>,
         GetTLS(c) \/ ReadConfig(c) \/ SetConfig(c) \/ SetNames(c) \/ BuildConfig(c)
  PROVE  Types' /\ CallsOK'
<1>0. /\ c \in CallSet /\ Types /\ page' = page /\ PageOK'
      /\ c.at \in {"merge", "build", "names"} => c.op \in Changing
  BY CallTypes, Frames DEF TypeInv
<1>1. conf \in ConfSet /\ names \in SUBSET Name
  BY <1>0 DEF Types, DbOK
<1>2. CASE GetTLS(c)
  <2>1. CallsOK'
    BY <1>0, <1>1, <1>2, TellOK DEF GetTLS
  <2> QED BY <1>0, <1>2, <2>1, Frames DEF GetTLS, Types
<1>3. CASE ReadConfig(c)
  <2> DEFINE d == [c EXCEPT !.conf = conf, !.at = "merge"]
  <2>1. d \in CallSet /\ d.op = c.op /\ d.no = c.no /\ d.at = "merge" /\ d.arg = c.arg
    BY <1>0, <1>1 DEF CallSet, At
  <2>2. CallsOK'
    BY <1>0, <1>3, <2>1, ReplaceOK DEF ReadConfig, Changing
  <2> QED BY <1>0, <1>3, <2>2, Frames DEF ReadConfig, Types
<1>4. CASE SetConfig(c)
  <2>1. c.op \in Changing
    BY <1>0, <1>4 DEF SetConfig
  <2>2. CallsOK'
    BY <1>0, <1>4, <2>1, GoToOK DEF SetConfig, At
  <2>3. Merged(c.conf.creds, c) \in Creds
    BY <1>0 DEF Merged, CallSet, ConfSet, Creds
  <2>4. conf' \in ConfSet /\ conf'.creds \in Creds
    BY <1>0, <1>4, <2>3 DEF SetConfig, ConfSet, CallSet
  <2>5. [k \in Key |-> IF k \in c.form.keys THEN c.value ELSE kept[k]] \in Creds
    BY <1>0 DEF Types, ReloadOK, CallSet, Creds
  <2>6. kept' \in Creds
    BY <1>4, <2>4, <2>5 DEF SetConfig
  <2>7. DbOK' /\ ReloadOK'
    BY <1>0, <1>1, <1>4, <2>4, <2>6 DEF SetConfig, DbOK, ReloadOK, Types
  <2> QED BY <1>0, <1>4, <2>2, <2>7, Frames DEF SetConfig, Types
<1>5. CASE SetNames(c)
  <2>1. c.op \in Changing /\ c.op # "poll"
    BY <1>5 DEF SetNames, Changing
  <2>2. CallsOK'
    <3>1. CASE Refuse(c)
      BY <1>0, <2>1, <3>1, TellOK DEF Refuse, Answered
    <3>2. CASE GoTo(c, "build")
      BY <1>0, <1>5, <2>1, <3>2, GoToOK DEF At, SetNames
    <3> QED BY <1>5, <3>1, <3>2 DEF SetNames
  <2>3. names' \subseteq Name
    <3>1. c.op = "add" => c.arg \in Name
      BY <1>5 DEF SetNames, TypeInv, CallsOK, CallOK
    <3> QED BY <1>1, <1>5, <3>1 DEF SetNames
  <2> QED BY <1>0, <1>5, <2>2, <2>3, Frames DEF SetNames, Types, DbOK
<1>6. CASE BuildConfig(c)
  <2>1. c.op \in Changing
    BY <1>0, <1>6 DEF BuildConfig
  <2> DEFINE d == IF c.at = "names" THEN [c EXCEPT !.names = names, !.at = "apply"]
                  ELSE [c EXCEPT !.conf = conf, !.at = IF conf.on THEN "names" ELSE "apply"]
  <2>2. d \in CallSet /\ d.op = c.op /\ d.no = c.no /\ d.at \in {"names", "apply"} /\ d.arg = c.arg
    BY <1>0, <1>1 DEF CallSet, At
  <2>3. CallsOK'
    <3>1. Replace(c, {d})
      BY <1>6 DEF BuildConfig
    <3> HIDE DEF d
    <3> QED BY <1>0, <1>6, <2>1, <2>2, <3>1, ReplaceOK DEF BuildConfig
  <2> QED BY <1>0, <1>6, <2>3, Frames DEF BuildConfig, Types
<1> QED BY <1>2, <1>3, <1>4, <1>5, <1>6

(* Those on the manager, under its lock.                                   *)
LEMMA ReloadTypes ==
  ASSUME TypeInv, NEW c \in calls, UNCHANGED <<page, turns>>,
         Disable(c) \/ Apply(c) \/ LoadCertificate(c) \/ Begin(c) \/ Obtain(c)
  PROVE  Types' /\ CallsOK'
<1>0. /\ c \in CallSet /\ Types /\ page' = page /\ PageOK' /\ MgrOK /\ ReloadOK
      /\ c.at \in {"apply", "load", "wait", "obtaining"} => c.op \in Changing
  BY CallTypes, Frames DEF TypeInv, Types
<1>1. c.op \in Changing /\ c.at # "done"
  BY <1>0 DEF Disable, Apply, LoadCertificate, Begin, Obtain
<1>2. ASSUME NEW ok \in BOOLEAN, Reloaded(c, ok) PROVE CallsOK' /\ behind' \in BOOLEAN
  BY <1>0, <1>1, <1>2, ReloadedOK
<1>3. ASSUME NEW at \in {"load", "wait", "obtaining"}, GoTo(c, at) PROVE CallsOK'
  <2>1. at \in At \ {"asked", "result", "done"}
    BY <1>3 DEF At
  <2> QED BY <1>0, <1>1, <1>3, <2>1, GoToOK
<1>4. CASE Disable(c)
  <2>1. CallsOK' /\ behind' \in BOOLEAN
    BY <1>2, <1>4 DEF Disable
  <2>2. MgrOK' /\ ReloadOK'
    BY <1>0, <1>4, <2>1, Blanks DEF Disable, MgrOK, ReloadOK
  <2> QED BY <1>0, <1>4, <2>1, <2>2, Frames DEF Disable, Types
<1>5. CASE Apply(c)
  <2>1. CallsOK' /\ behind' \in BOOLEAN
    BY <1>0, <1>2, <1>3, <1>5 DEF Apply, ReloadOK
  <2>2. Applied(c) \in [client : BOOLEAN, names : SUBSET Name, creds : Creds]
    BY <1>0 DEF Applied, CallSet, ConfSet
  <2>3. MgrOK' /\ ReloadOK'
    BY <1>0, <1>5, <2>1, <2>2 DEF Apply, MgrOK, ReloadOK
  <2> QED BY <1>0, <1>5, <2>1, <2>3, Frames DEF Apply, Types
<1>6. CASE LoadCertificate(c)
  <2>1. CallsOK' /\ behind' \in BOOLEAN
    BY <1>0, <1>2, <1>3, <1>6 DEF LoadCertificate, ReloadOK
  <2>2. MgrOK' /\ ReloadOK'
    BY <1>0, <1>6, <2>1 DEF LoadCertificate, OnDisk, MgrOK, ReloadOK
  <2> QED BY <1>0, <1>6, <2>1, <2>2, Frames DEF LoadCertificate, Types
<1>7. CASE Begin(c)
  <2>1. CallsOK' /\ behind' \in BOOLEAN
    BY <1>0, <1>2, <1>3, <1>7 DEF Begin, ReloadOK
  <2>2. ReloadOK'
    BY <1>0, <1>7, <2>1 DEF Begin, ReloadOK
  <2> QED BY <1>0, <1>7, <2>1, <2>2, Frames DEF Begin, Types
<1>8. CASE Obtain(c)
  <2>1. CallsOK' /\ behind' \in BOOLEAN
    BY <1>2, <1>8 DEF Obtain
  <2>2. MgrOK' /\ ReloadOK'
    BY <1>0, <1>8, <2>1, ObtainTypes DEF Obtain, ReloadOK
  <2> QED BY <1>0, <1>8, <2>1, <2>2, Frames DEF Obtain, Types
<1> QED BY <1>4, <1>5, <1>6, <1>7, <1>8

(* Those for the button and its timer.                                     *)
LEMMA RenewTypes ==
  ASSUME TypeInv, NEW c \in calls, UNCHANGED <<page, turns>>, ForceRenew(c) \/ RenewStatus(c)
  PROVE  Types' /\ CallsOK'
<1>0. c \in CallSet /\ CallOK(c) /\ Types /\ page' = page /\ PageOK' /\ BgOK
  BY CallTypes, Frames DEF TypeInv, Types
<1>1. CASE ForceRenew(c)
  <2>1. CallsOK'
    BY <1>0, <1>1, TellOK DEF ForceRenew, Refuse, Answered
  <2>2. BgOK'
    <3>1. c.no \in 0..MaxTurns
      BY <1>0 DEF CallSet
    <3>2. renewal' = renewal \/ renewal' = [st |-> "wait", no |-> c.no]
      BY <1>1 DEF ForceRenew
    <3>3. lastErr' = lastErr /\ loop' = loop
      BY <1>1 DEF ForceRenew
    <3> QED BY <1>0, <3>1, <3>2, <3>3 DEF BgOK
  <2> QED BY <1>0, <1>1, <2>1, <2>2, Frames DEF ForceRenew, Types
<1>2. CASE RenewStatus(c)
  <2>1. CASE GoTo(c, "result")
    <3> DEFINE d == [c EXCEPT !.at = "result"]
    <3>1. d \in CallSet /\ d.op = c.op /\ d.no = c.no /\ d.at = "result" /\ d.arg = c.arg
      BY <1>0 DEF CallSet, At
    <3>2. c.op = "poll" /\ CallOK(c)
      BY <1>0, <1>2 DEF RenewStatus
    <3>3. \A e : e = d => CallOK(e)'
      BY <1>0, <3>1, <3>2 DEF CallOK
    <3>4. \A e \in calls' : e \in calls \/ CallOK(e)'
      BY <2>1, <3>3 DEF GoTo, Replace
    <3>5. CallsOK'
      BY <1>0, <3>4, Clicks, CallsStep
    <3> QED BY <1>0, <1>2, <3>5, Frames DEF RenewStatus, Types
  <2>2. CASE \E says \in {"in progress", "failed", "renewed"} : Tell(c, TRUE, {}, says)
    <3>1. CallsOK'
      BY <1>0, <2>2, TellOK
    <3> QED BY <1>0, <1>2, <3>1, Frames DEF RenewStatus, Types
  <2> QED BY <1>2, <2>1, <2>2 DEF RenewStatus
<1> QED BY <1>1, <1>2

(* The faults of a handler.                                                *)
LEMMA FaultTypes ==
  ASSUME TypeInv, NEW c \in calls, StatementFails(c) \/ ApplyFails(c) \/ ObtainFails(c)
  PROVE  Types' /\ CallsOK'
<1>0. /\ c \in CallSet /\ Types /\ PageOK /\ MgrOK /\ ReloadOK
      /\ c.at \in {"build", "names", "apply", "obtaining"} => c.op \in Changing
  BY CallTypes DEF TypeInv, Types
<1>1. Turn /\ page' = page
  BY DEF StatementFails, ApplyFails, ObtainFails, NotObtained
<1>2. PageOK'
  BY <1>0, <1>1, TurnTaken
<1>3. ASSUME NEW ok \in BOOLEAN, Reloaded(c, ok), c.op \in Changing
      PROVE  CallsOK' /\ behind' \in BOOLEAN
  BY <1>1, <1>3, ReloadedOK
<1>4. CASE StatementFails(c)
  <2>1. CallsOK' /\ behind' \in BOOLEAN
    <3>1. CASE c.at \in {"build", "names"}
      BY <1>0, <1>3, <1>4, <3>1 DEF StatementFails
    <3>2. CASE c.at \notin {"build", "names"}
      BY <1>0, <1>1, <1>4, <3>2, TellOK DEF StatementFails, Refuse, Answered, ReloadOK
    <3> QED BY <3>1, <3>2
  <2>2. ReloadOK'
    BY <1>0, <1>4, <2>1 DEF StatementFails, ReloadOK
  <2> QED BY <1>0, <1>1, <1>2, <1>4, <2>1, <2>2, Frames DEF StatementFails, Types
<1>5. CASE ApplyFails(c)
  <2>1. CallsOK' /\ behind' \in BOOLEAN
    BY <1>0, <1>3, <1>5 DEF ApplyFails
  <2>2. Applied(c) \in [client : BOOLEAN, names : SUBSET Name, creds : Creds]
    BY <1>0 DEF Applied, CallSet, ConfSet
  <2>3. mgr' \in [client : BOOLEAN, names : SUBSET Name, creds : Creds]
    BY <1>0, <1>5, <2>2 DEF ApplyFails, MgrOK
  <2>4. MgrOK' /\ ReloadOK'
    BY <1>0, <1>5, <2>1, <2>3 DEF ApplyFails, MgrOK, ReloadOK
  <2> QED BY <1>0, <1>1, <1>2, <1>5, <2>1, <2>4, Frames DEF ApplyFails, Types
<1>6. CASE ObtainFails(c)
  <2>1. CallsOK' /\ behind' \in BOOLEAN
    BY <1>0, <1>3, <1>6 DEF ObtainFails
  <2>2. MgrOK' /\ ReloadOK'
    BY <1>0, <1>6, <2>1, ObtainTypes DEF ObtainFails, ReloadOK
  <2> QED BY <1>0, <1>1, <1>2, <1>6, <2>1, <2>2, Frames DEF ObtainFails, Types
<1> QED BY <1>4, <1>5, <1>6

(* Renewals, and the age of the certificate.                               *)
LEMMA ManageTypes ==
  ASSUME TypeInv, Manage \/ Age \/ ContextEnds
  PROVE  Types' /\ CallsOK'
<1>0. Types /\ PageOK /\ MgrOK /\ ReloadOK /\ BgOK /\ EndsOK
  BY DEF TypeInv, Types
<1>1. page' = page
  BY DEF Manage, Age, ContextEnds, RenewBegins, RenewObtains, RenewEnds, Tick, LoopBegins, LoopObtains
<1>2. calls' = calls
  BY DEF Manage, Age, ContextEnds, RenewBegins, RenewObtains, RenewEnds, Tick, LoopBegins, LoopObtains
<1>3. CallsOK'
  BY <1>1, <1>2, Clicks, CallsStep
<1>4. page.clicks \in 0..page.clicks
  BY Clicks
<1>5. CASE RenewBegins \/ RenewEnds
  <2>1. BgOK'
    <3>1. 0 \in 0..MaxTurns
      BY TlsAssumption
    <3>2. \/ \E st \in {"obtain", "failed", "told"} : renewal' = [renewal EXCEPT !.st = st]
          \/ renewal' = [st |-> "none", no |-> 0]
      BY <1>5 DEF RenewBegins, RenewEnds
    <3>3. loop' = loop /\ lastErr' \in BOOLEAN
      BY <1>0, <1>5 DEF RenewBegins, RenewEnds, BgOK
    <3> QED BY <1>0, <3>1, <3>2, <3>3 DEF BgOK
  <2> QED BY <1>0, <1>3, <1>5, <2>1, Frames DEF RenewBegins, RenewEnds, Types
<1>6. CASE RenewObtains
  <2>1. BgOK'
    BY <1>0, <1>6 DEF RenewObtains, BgOK
  <2>2. MgrOK' /\ ReloadOK' /\ EndsOK'
    BY <1>0, <1>4, <1>6, ObtainTypes DEF RenewObtains, ReloadOK, EndsOK
  <2>3. PageOK'
    <3>1. turns' \in 0..MaxTurns /\ page.clicks <= turns'
      BY <1>0, <1>6, ObtainTypes DEF RenewObtains, PageOK
    <3> QED BY <1>0, <1>1, <3>1 DEF PageOK
  <2> QED BY <1>0, <1>3, <1>6, <2>1, <2>2, <2>3, Frames DEF RenewObtains, Types
<1>7. CASE Tick \/ LoopBegins
  <2>1. BgOK'
    BY <1>0, <1>7 DEF Tick, LoopBegins, BgOK
  <2> QED BY <1>0, <1>3, <1>7, <2>1, Frames DEF Tick, LoopBegins, Types
<1>8. CASE LoopObtains
  <2>1. BgOK'
    BY <1>0, <1>8 DEF LoopObtains, BgOK
  <2>2. MgrOK' /\ ReloadOK'
    BY <1>0, <1>8, ObtainTypes DEF LoopObtains, ReloadOK
  <2>3. PageOK'
    <3>1. turns' \in 0..MaxTurns /\ page.clicks <= turns'
      BY <1>0, <1>8, ObtainTypes DEF LoopObtains, PageOK
    <3> QED BY <1>0, <1>1, <3>1 DEF PageOK
  <2> QED BY <1>0, <1>1, <1>3, <1>8, <2>1, <2>2, <2>3, Frames DEF LoopObtains, Types
<1>9. CASE Age
  <2>1. PageOK'
    BY <1>0, <1>1, <1>9, TurnTaken DEF Age
  <2>2. served' \in CertSet
    BY <1>0, <1>9 DEF Age, MgrOK, CertSet
  <2>3. MgrOK'
    BY <1>0, <1>9, <2>2, StoredTypes DEF Age, MgrOK, Stored
  <2> QED BY <1>0, <1>1, <1>3, <1>9, <2>1, <2>3, Frames DEF Age, Types
<1>10. CASE ContextEnds
  <2>1. PageOK'
    BY <1>0, <1>1, <1>10, TurnTaken DEF ContextEnds
  <2>2. BgOK'
    BY <1>0, <1>10 DEF ContextEnds, BgOK
  <2> QED BY <1>0, <1>1, <1>3, <1>10, <2>1, <2>2, Frames DEF ContextEnds, Types
<1> QED BY <1>5, <1>6, <1>7, <1>8, <1>9, <1>10 DEF Manage

LEMMA RestartTypes ==
  ASSUME TypeInv, Restart
  PROVE  Types' /\ CallsOK'
<1>0. Types /\ DbOK /\ PageOK /\ MgrOK /\ ReloadOK /\ EndsOK
  BY DEF TypeInv, Types
<1>1. page' = page /\ dbVars' = dbVars /\ kept' = kept /\ renewed' = renewed
  BY DEF Restart
<1>2. PageOK'
  <2>1. CASE turns' = turns
    BY <1>0, <1>1, <2>1 DEF PageOK
  <2>2. CASE Turn
    BY <1>0, <1>1, <2>2, TurnTaken
  <2> QED BY <2>1, <2>2 DEF Restart
<1>3. Configured \in [client : BOOLEAN, names : SUBSET Name, creds : Creds]
  BY <1>0, ConfiguredTypes
<1>4. MgrOK'
  <2>1. mgr' \in [client : BOOLEAN, names : SUBSET Name, creds : Creds]
    BY <1>3 DEF Restart
  <2>2. Cert(mgr'.names) \in CertSet
    BY <2>1 DEF Cert, CertSet
  <2>3. \/ served' \in disk \cup {NoCert} /\ disk' = disk
        \/ served' = Cert(mgr'.names) /\ disk' = Stored(Cert(mgr'.names))
    BY DEF Restart
  <2>4. served' \in CertSet /\ disk' \subseteq CertSet
    BY <1>0, <2>2, <2>3, StoredTypes, Blanks DEF MgrOK
  <2>5. \A d, e \in disk' : d.names = e.names => d = e
    BY <1>0, <2>2, <2>3, StoredTypes DEF MgrOK
  <2> QED BY <2>1, <2>4, <2>5 DEF MgrOK
<1>5. BgOK'
  <2>1. 0 \in 0..MaxTurns
    BY TlsAssumption
  <2>2. renewal' = [st |-> "none", no |-> 0] /\ lastErr' = FALSE /\ loop' \in {"idle", "ended"}
    BY DEF Restart
  <2> QED BY <2>1, <2>2 DEF BgOK
<1>6. ReloadOK'
  BY <1>0, <1>1 DEF Restart, ReloadOK
<1>7. EndsOK'
  <2>1. page.clicks \in 0..page.clicks
    BY Clicks
  <2> QED BY <1>0, <1>1, <2>1 DEF Restart, EndsOK
<1>8. \A c \in calls : \A d :
        d = [Request(c.op) EXCEPT !.no = c.no, !.at = "done"] => CallOK(d)'
  <2>1. TAKE c \in calls
  <2>2. TAKE d
  <2>3. HAVE d = [Request(c.op) EXCEPT !.no = c.no, !.at = "done"]
  <2>4. CallOK(c) /\ c.op \in Op /\ c.no \in 0..MaxTurns
    BY CallTypes DEF CallSet
  <2>5. Request(c.op) \in CallSet /\ Request(c.op).op = c.op /\ Request(c.op).ok = FALSE
    BY <2>4, Blanks DEF Request
  <2>6. d \in CallSet /\ d.op = c.op /\ d.no = c.no /\ d.at = "done" /\ d.ok = FALSE
    BY <2>3, <2>4, <2>5 DEF CallSet, At
  <2> QED BY <1>1, <2>4, <2>6 DEF CallOK
<1>9. \A d \in calls' : d \in calls \/ CallOK(d)'
  BY <1>8 DEF Restart
<1>10. CallsOK'
  <2>1. page'.clicks \in 0..MaxTurns /\ page.clicks <= page'.clicks
    BY <1>1, Clicks
  <2> QED BY <1>9, <2>1, CallsStep
<1> QED BY <1>0, <1>1, <1>2, <1>4, <1>5, <1>6, <1>7, <1>10, Frames DEF Types

LEMMA HandleLock ==
  ASSUME TypeInv, NEW c \in calls,
         \/ Handle(c) \/ Answer(c) \/ Lose(c)
         \/ StatementFails(c) \/ ApplyFails(c) \/ ObtainFails(c)
  PROVE  LockInv'
<1>0. LockInv /\ CallOK(c) /\ c \in CallSet
  BY CallTypes DEF TypeInv
<1>1. ASSUME NEW ok \in BOOLEAN, Reloaded(c, ok) \/ Answered(c, ok)
      PROVE  Done(c)
  <2>1. Tell(c, ok, {}, "")
    BY <1>1 DEF Reloaded, Answered
  <2> QED BY <2>1, AnsweredDone
<1>2. ASSUME NEW at \in At \ {"obtaining"}, GoTo(c, at)
      PROVE  \A d \in calls' : d.at = "obtaining" => d \in calls
  <2>1. \A d : d = [c EXCEPT !.at = at] => d.at # "obtaining"
    BY <1>0, <1>2 DEF CallSet
  <2> QED BY <1>2, <2>1 DEF GoTo, Replace
<1>3. ASSUME Done(c) PROVE \A d \in calls' : d.at = "obtaining" => d \in calls
  BY <1>3 DEF Done
<1>4. CASE GetTLS(c) \/ RenewStatus(c)
  <2>1. c.op = "load" => names \in SUBSET Name
    BY DEF TypeInv, Types, DbOK
  <2>2. \/ \E says \in {"in progress", "failed", "renewed"} : Tell(c, TRUE, {}, says)
        \/ GoTo(c, "result")
        \/ Tell(c, TRUE, names, "") /\ names \in SUBSET Name
    BY <1>4, <2>1 DEF GetTLS, RenewStatus
  <2>3. \A d \in calls' : d.at = "obtaining" => d \in calls
    BY <1>2, <1>3, <2>2, AnsweredDone DEF At
  <2>4. UNCHANGED <<mgrVars, bgVars>>
    BY <1>4 DEF GetTLS, RenewStatus
  <2> QED BY <1>0, <2>3, <2>4, LockFree DEF mgrVars, bgVars
<1>5. CASE ReadConfig(c)
  <2>1. \A d : d = [c EXCEPT !.conf = conf, !.at = "merge"] => d.at # "obtaining"
    BY <1>0 DEF CallSet
  <2>2. \A d \in calls' : d.at = "obtaining" => d \in calls
    BY <1>5, <2>1 DEF ReadConfig, Replace
  <2> QED BY <1>0, <1>5, <2>2, LockFree DEF ReadConfig, mgrVars, bgVars
<1>6. CASE SetConfig(c)
  <2>1. \A d \in calls' : d.at = "obtaining" => d \in calls
    BY <1>2, <1>6 DEF SetConfig, At
  <2> QED BY <1>0, <1>6, <2>1, LockFree DEF SetConfig, mgrVars, bgVars
<1>7. CASE SetNames(c)
  <2>1. \A d \in calls' : d.at = "obtaining" => d \in calls
    BY <1>1, <1>2, <1>3, <1>7 DEF SetNames, At, Refuse
  <2> QED BY <1>0, <1>7, <2>1, LockFree DEF SetNames, mgrVars, bgVars
<1>8. CASE BuildConfig(c)
  <2>1. /\ \A d : d = [c EXCEPT !.names = names, !.at = "apply"] => d.at # "obtaining"
        /\ \A d : d = [c EXCEPT !.conf = conf, !.at = IF conf.on THEN "names" ELSE "apply"]
                  => d.at # "obtaining"
    BY <1>0 DEF CallSet
  <2>2. \A d \in calls' : d.at = "obtaining" => d \in calls
    BY <1>8, <2>1 DEF BuildConfig, Replace
  <2> QED BY <1>0, <1>8, <2>2, LockFree DEF BuildConfig, mgrVars, bgVars
<1>9. CASE Disable(c) \/ ApplyFails(c)
  <2>1. \A d \in calls' : d.at = "obtaining" => d \in calls
    BY <1>1, <1>3, <1>9 DEF Disable, ApplyFails
  <2>2. ~Locked /\ bgVars' = bgVars
    BY <1>9 DEF Disable, ApplyFails
  <2> QED BY <1>0, <2>1, <2>2, LockFree DEF bgVars
<1>10. CASE Apply(c)
  <2>1. \A d \in calls' : d.at = "obtaining" => d \in calls
    BY <1>1, <1>2, <1>3, <1>10 DEF Apply, At
  <2>2. ~Locked /\ bgVars' = bgVars
    BY <1>10 DEF Apply
  <2> QED BY <1>0, <2>1, <2>2, LockFree DEF bgVars
<1>11. CASE LoadCertificate(c)
  <2>1. \A d \in calls' : d.at = "obtaining" => d \in calls
    BY <1>1, <1>2, <1>3, <1>11 DEF LoadCertificate, At
  <2>2. mgr' = mgr /\ bgVars' = bgVars
    BY <1>11 DEF LoadCertificate
  <2> QED BY <1>0, <2>1, <2>2, LockFree DEF bgVars
<1>12. CASE Begin(c)
  <2>0. mgr' = mgr /\ bgVars' = bgVars /\ ~Locked
    BY <1>12 DEF Begin, mgrVars
  <2>1. CASE Reloaded(c, FALSE)
    BY <1>0, <1>1, <1>3, <2>0, <2>1, LockFree DEF bgVars
  <2>2. CASE GoTo(c, "obtaining") /\ mgr.names # {} /\ mgr.client
    <3>1. calls' = (calls \ {c}) \cup {[c EXCEPT !.at = "obtaining"]}
      BY <2>2 DEF GoTo, Replace
    <3>2. /\ \A d \in calls : d.at # "obtaining"
          /\ renewal.st # "obtain" /\ loop # "obtain"
      BY <2>0 DEF Locked
    <3>3. \A d, e \in calls' : d.at = "obtaining" /\ e.at = "obtaining" => d = e
      BY <3>1, <3>2
    <3> QED BY <2>0, <2>2, <3>2, <3>3 DEF LockInv, bgVars
  <2> QED BY <1>12, <2>1, <2>2 DEF Begin
<1>13. CASE Obtain(c) \/ ObtainFails(c)
  <2>1. \A d \in calls' : d.at = "obtaining" => d \in calls
    BY <1>1, <1>3, <1>13 DEF Obtain, ObtainFails
  <2>2. mgr' = mgr /\ bgVars' = bgVars
    BY <1>13 DEF Obtain, ObtainFails, Obtained, NotObtained
  <2> QED BY <1>0, <2>1, <2>2, LockFree DEF bgVars
<1>14. CASE StatementFails(c)
  <2>1. \A d \in calls' : d.at = "obtaining" => d \in calls
    BY <1>1, <1>3, <1>14 DEF StatementFails, Refuse
  <2> QED BY <1>0, <1>14, <2>1, LockFree DEF StatementFails, mgrVars, bgVars
<1>15. CASE ForceRenew(c)
  <2>1. \A d \in calls' : d.at = "obtaining" => d \in calls
    BY <1>1, <1>3, <1>15 DEF ForceRenew, Refuse
  <2>2. mgr' = mgr /\ loop' = loop
    BY <1>15 DEF ForceRenew, mgrVars
  <2>3. renewal' = renewal \/ renewal' = [st |-> "wait", no |-> c.no]
    BY <1>15 DEF ForceRenew
  <2>4. renewal'.st = "obtain" => renewal.st = "obtain"
    BY <2>3
  <2> QED BY <1>0, <2>1, <2>2, <2>4, LockFree
<1>16. CASE Answer(c)
  <2>1. Request("load").at = "asked"
    BY DEF Request
  <2>2. \A d \in calls' : d \in calls \/ d = Request("load")
    <3>1. c.op = "poll" /\ c.ok => c.says \in {"in progress", "failed", "renewed"}
      BY <1>0, <1>16 DEF CallOK, CallSet, Answer
    <3>2. CASE Polled(c)
      BY <3>1, <3>2 DEF Polled, Then, Replace
    <3>3. CASE ~Polled(c)
      BY <1>16, <3>3, Zenon DEF Answer, Loaded, Changed, RenewStarted, Then, Replace
    <3> QED BY <3>2, <3>3
  <2> QED BY <1>0, <1>16, <2>1, <2>2, LockFree DEF Answer, mgrVars, bgVars
<1>17. CASE Lose(c)
  <2> DEFINE e == [c EXCEPT !.lost = TRUE]
  <2>1. e.at = c.at
    BY <1>0 DEF CallSet
  <2>2. \A d \in calls' : (d \in calls /\ d # c) \/ d = e
    BY <1>17 DEF Lose, Then, Replace
  <2> HIDE DEF e
  <2>3. Held' => Held
    BY <2>1, <2>2 DEF Held
  <2>4. \A d, f \in calls' : d.at = "obtaining" /\ f.at = "obtaining" => d = f
    BY <1>0, <2>1, <2>2 DEF LockInv
  <2> QED BY <1>0, <1>17, <2>3, <2>4, LockKept DEF Lose, mgrVars, bgVars
<1> QED BY <1>4, <1>5, <1>6, <1>7, <1>8, <1>9, <1>10, <1>11, <1>12, <1>13, <1>14, <1>15, <1>16, <1>17
        DEF Handle

LEMMA ManageLock ==
  ASSUME TypeInv, Manage \/ Age \/ ContextEnds
  PROVE  LockInv'
<1>0. LockInv
  BY DEF TypeInv
<1>1. calls' = calls /\ mgr' = mgr
  BY DEF Manage, Age, ContextEnds, RenewBegins, RenewObtains, RenewEnds, Tick, LoopBegins,
         LoopObtains, Obtained, NotObtained, mgrVars
<1>2. ASSUME renewal'.st = "obtain" => renewal.st = "obtain",
             loop' = "obtain" => loop = "obtain"
      PROVE  LockInv'
  BY <1>0, <1>1, <1>2, LockFree
<1>3. CASE RenewBegins
  <2>1. /\ \A c \in calls : c.at # "obtaining"
        /\ loop # "obtain" /\ loop' = loop
    BY <1>3 DEF RenewBegins, Locked
  <2>2. renewal'.st = "obtain" => mgr.client /\ mgr.names # {}
    <3>1. renewal \in [st : {"none", "wait", "obtain", "ok", "failed", "told"}, no : 0..MaxTurns]
      BY DEF TypeInv, Types, BgOK
    <3> QED BY <1>3, <3>1 DEF RenewBegins
  <2> QED BY <1>1, <2>1, <2>2 DEF LockInv, Locked
<1>4. CASE LoopBegins
  <2>1. /\ \A c \in calls : c.at # "obtaining"
        /\ renewal.st # "obtain" /\ renewal' = renewal
    BY <1>4 DEF LoopBegins, Locked
  <2>2. loop' = "obtain" => mgr.client /\ mgr.names # {}
    BY <1>4 DEF LoopBegins
  <2> QED BY <1>1, <2>1, <2>2 DEF LockInv, Locked
<1>5. CASE RenewObtains \/ RenewEnds
  <2>1. loop' = loop
    BY <1>5 DEF RenewObtains, RenewEnds
  <2>2. \/ \E st \in {"ok", "failed", "told"} : renewal' = [renewal EXCEPT !.st = st]
        \/ renewal' = [st |-> "none", no |-> 0]
    BY <1>5 DEF RenewObtains, RenewEnds
  <2>3. renewal'.st # "obtain"
    <3>1. renewal \in [st : {"none", "wait", "obtain", "ok", "failed", "told"}, no : 0..MaxTurns]
      BY DEF TypeInv, Types, BgOK
    <3> QED BY <2>2, <3>1
  <2> QED BY <1>2, <2>1, <2>3
<1>6. CASE Tick \/ LoopObtains \/ Age \/ ContextEnds
  <2>1. renewal' = renewal /\ (loop' = "obtain" => loop = "obtain")
    BY <1>6 DEF Tick, LoopObtains, Age, ContextEnds, bgVars
  <2> QED BY <1>2, <2>1
<1> QED BY <1>3, <1>4, <1>5, <1>6 DEF Manage

LEMMA RestartLock ==
  ASSUME TypeInv, Restart
  PROVE  LockInv'
<1>1. \A c \in calls : \A d :
        d = [Request(c.op) EXCEPT !.no = c.no, !.at = "done"] => d.at = "done"
  <2>1. \A c \in calls : c.op \in Op
    BY CallTypes DEF CallSet
  <2>2. \A op \in Op : Request(op) \in CallSet
    BY Blanks
  <2> QED BY <2>1, <2>2 DEF CallSet
<1>2. \A d \in calls' : d.at # "obtaining"
  BY <1>1 DEF Restart
<1>3. renewal'.st # "obtain" /\ loop' # "obtain"
  BY DEF Restart
<1> QED BY <1>2, <1>3 DEF LockInv, Locked

-----------------------------------------------------------------------------
LEMMA InitTypes == Init => TypeInv
<1> SUFFICES ASSUME Init PROVE TypeInv
  OBVIOUS
<1>1. 0 \in 0..MaxTurns /\ First \subseteq Name
  BY TlsAssumption
<1>2. conf = [on |-> TRUE, creds |-> NoKeys] /\ names = First
  BY DEF Init, NoConf
<1>3. DbOK
  BY <1>1, <1>2, Blanks DEF DbOK, ConfSet
<1>4. mgr \in [client : BOOLEAN, names : SUBSET Name, creds : Creds] /\ mgr = Configured
  BY <1>3, ConfiguredTypes DEF Init
<1>5. MgrOK
  <2>1. mgr.names \subseteq Name
    BY <1>4
  <2>2. served \in CertSet
    BY <2>1 DEF Init, Cert, CertSet
  <2>3. disk \subseteq {served}
    BY DEF Init
  <2> QED BY <1>4, <2>2, <2>3 DEF MgrOK
<1>6. BgOK
  BY <1>1 DEF Init, BgOK
<1>7. PageOK
  <2>1. Note("", 0) \in NoteSet
    BY NoteTypes
  <2>2. page = [busy |-> FALSE, shown |-> names, note |-> Note("", 0), polls |-> {}, clicks |-> 0]
        /\ turns = 0
    BY DEF Init
  <2>3. names \in SUBSET Name
    BY <1>1, <1>2
  <2>4. /\ page \in [busy : BOOLEAN, shown : SUBSET Name, note : NoteSet,
                     polls : SUBSET (1..MaxTurns), clicks : 0..MaxTurns]
        /\ page.polls = {} /\ page.clicks = 0
    <3>1. {} \in SUBSET (1..MaxTurns) /\ FALSE \in BOOLEAN
      OBVIOUS
    <3> DEFINE turnSet == 0..MaxTurns
               pollSets == SUBSET (1..MaxTurns)
    <3>2. 0 \in turnSet /\ {} \in pollSets
      BY <1>1, <3>1
    <3> HIDE DEF turnSet, pollSets
    <3>3. page \in [busy : BOOLEAN, shown : SUBSET Name, note : NoteSet,
                   polls : pollSets, clicks : turnSet]
      BY <2>1, <2>2, <2>3, <3>2
    <3>4. page.polls = {} /\ page.clicks = 0
      BY <2>2
    <3> QED BY <3>3, <3>4 DEF turnSet, pollSets
  <2>5. page.clicks <= turns
    <3>1. page.clicks = 0
      BY <2>4, Zenon
    <3>2. turns = 0
      BY <2>2, Zenon
    <3>3. 0 <= 0
      OBVIOUS
    <3> QED BY <3>1, <3>2, <3>3, Zenon
  <2> QED BY <1>1, <2>2, <2>4, <2>5 DEF PageOK
<1>8. ReloadOK /\ EndsOK /\ CallsOK
  <2>1. ReloadOK
    BY Blanks DEF Init, ReloadOK
  <2>2. EndsOK
    <3>1. page.clicks = 0 /\ renewed = 0 /\ cut = 0
      BY DEF Init
    <3> QED BY <3>1 DEF EndsOK
  <2>3. CallsOK
    BY DEF Init, CallsOK
  <2> QED BY <2>1, <2>2, <2>3
<1>9. LockInv
  BY DEF Init, LockInv, Locked
<1> QED BY <1>3, <1>5, <1>6, <1>7, <1>8, <1>9 DEF TypeInv, Types

LEMMA TypeStep == TypeInv /\ [Next]_vars => TypeInv'
<1> SUFFICES ASSUME TypeInv, [Next]_vars PROVE TypeInv'
  OBVIOUS
<1>1. ASSUME NEW c \in calls,
             \/ Handle(c) \/ Answer(c) \/ Lose(c)
             \/ StatementFails(c) \/ ApplyFails(c) \/ ObtainFails(c)
      PROVE  TypeInv'
  <2>1. LockInv'
    BY <1>1, HandleLock
  <2>2. Types' /\ CallsOK'
    BY <1>1, DbTypes, ReloadTypes, RenewTypes, FaultTypes, AnswerTypes, LoseTypes DEF Handle
  <2> QED BY <2>1, <2>2 DEF TypeInv
<1>2. CASE Manage \/ Age \/ ContextEnds
  BY <1>2, ManageTypes, ManageLock DEF TypeInv
<1>3. CASE Restart
  BY <1>3, RestartTypes, RestartLock DEF TypeInv
<1>4. CASE UNCHANGED vars
  <2>1. UNCHANGED <<page, turns, calls, dbVars, mgrVars, bgVars, reload, ends>>
    BY <1>4 DEF vars
  <2>2. Types' /\ CallsOK'
    BY <2>1, Clicks, CallsStep, Frames DEF TypeInv, Types
  <2>3. LockInv'
    BY <2>1, LockFree DEF TypeInv, mgrVars, bgVars
  <2> QED BY <2>2, <2>3 DEF TypeInv
<1> QED BY <1>1, <1>2, <1>3, <1>4, FetchTypes, RenewClickTypes, SaveTypes, NameTypes, PollTypes
        DEF Next

LEMMA TypesImply == TypeInv => TypeOK
<1> SUFFICES ASSUME TypeInv PROVE TypeOK
  OBVIOUS
<1> DEFINE H == {c \in calls : c.at = "obtaining"}
<1>1. (H = {} /\ Cardinality(H) = 0) \/ (Cardinality(H) = 1 /\ H # {})
  <2>1. CASE H = {}
    BY <2>1, FS_EmptySet
  <2>2. CASE H # {}
    <3>1. PICK c \in H : H = {c}
      BY <2>2 DEF TypeInv, LockInv
    <3> QED BY <3>1, FS_Singleton
  <2> QED BY <2>1, <2>2
<1>2. /\ renewal.st = "obtain" => loop # "obtain" /\ H = {}
      /\ loop = "obtain" => H = {}
  BY DEF TypeInv, LockInv
<1>3. Cardinality(H)
       + (IF renewal.st = "obtain" THEN 1 ELSE 0) + (IF loop = "obtain" THEN 1 ELSE 0) <= 1
  <2> HIDE DEF H
  <2> QED BY <1>1, <1>2
<1>4. \A c \in calls : c.op \in Op /\ c.at \in At /\ c.no \in 0..page.clicks
  BY CallTypes DEF CallOK, CallSet
<1> QED BY <1>3, <1>4 DEF TypeInv, Types, DbOK, MgrOK, BgOK, PageOK, ReloadOK, EndsOK, LockInv,
        TypeOK

(* At any number of requests and turns the variables have their types, of  *)
(* each set of names one certificate is on the disk, one goroutine at a    *)
(* time holds the manager's lock to obtain one, and it has a client and    *)
(* names to ask for.                                                       *)
THEOREM TlsTypeCorrect == Spec => []TypeOK
<1>1. Init => TypeInv
  BY InitTypes
<1>2. TypeInv /\ [Next]_vars => TypeInv'
  BY TypeStep
<1>3. TypeInv => TypeOK
  BY TypesImply
<1> QED BY <1>1, <1>2, <1>3, PTL DEF Spec

-----------------------------------------------------------------------------
(* How a renewal ended, and what the page is told of it                    *)

(* The server accepted click n, and the page or the answer asks for the    *)
(* end of its renewal.                                                     *)
Accepted(n) ==
  \/ n \in page.polls
  \/ \E c \in calls : c.no = n /\ (c.op = "poll" \/ (c.op = "renew" /\ c.at = "done" /\ c.ok))
Good(n) == renewed >= n \/ cut >= n

(* Between renewals the error of the last one is what an accepted click    *)
(* is told; a poll that found no renewal in progress reads it, or that of  *)
(* a later one.                                                            *)
AcceptedInv ==
  \A n : Accepted(n) => /\ renewal.st \in {"none", "told"} => lastErr \/ Good(n)
                        /\ renewal.st = "ok" => Good(n)
PollsInv ==
  \A c \in calls : c.op = "poll" =>
    /\ c.at = "result" => lastErr \/ Good(c.no)
    /\ c.at = "done" /\ c.ok /\ c.says = "renewed" => Good(c.no)
NoteInv == page.note.what = "renewed" => Good(page.note.no)
EndsInv == AcceptedInv /\ PollsInv /\ NoteInv

(* A step that neither starts nor ends a renewal.                          *)
LEMMA EndsKept ==
  ASSUME EndsInv, UNCHANGED <<renewal, lastErr, ends>>,
         \A n \in page'.polls : Accepted(n),
         \A d \in calls' : \/ d.op \notin {"renew", "poll"}
                           \/ \E e \in calls : /\ d.op = e.op /\ d.no = e.no /\ d.at = e.at
                                               /\ d.ok = e.ok /\ d.says = e.says
                           \/ d.op = "renew" /\ d.at # "done"
                           \/ d.op = "poll" /\ d.at = "asked" /\ Accepted(d.no),
         page'.note.what = "renewed" => Good(page'.note.no)
  PROVE  EndsInv'
<1>1. \A n : Good(n)' = Good(n)
  BY DEF Good, ends
<1>2. \A n : Accepted(n)' => Accepted(n)
  <2>1. TAKE n
  <2>2. ASSUME NEW d \in calls', d.no = n,
               d.op = "poll" \/ (d.op = "renew" /\ d.at = "done" /\ d.ok)
        PROVE  Accepted(n)
    BY <2>2 DEF Accepted
  <2> QED BY <2>2 DEF Accepted
<1>3. AcceptedInv'
  BY <1>1, <1>2 DEF EndsInv, AcceptedInv
<1>4. PollsInv'
  BY <1>1 DEF EndsInv, PollsInv
<1>5. NoteInv'
  BY <1>1 DEF NoteInv
<1> QED BY <1>3, <1>4, <1>5 DEF EndsInv

LEMMA PageEnds ==
  ASSUME TypeInv, EndsInv, UNCHANGED <<renewal, lastErr, ends>>,
         NEW c, calls' = calls \cup {c},
         c.op \notin {"renew", "poll"} \/ (c.op = "renew" /\ c.at # "done")
           \/ (c.op = "poll" /\ c.at = "asked" /\ c.no \in page.polls),
         page'.polls = page.polls, page'.note.what # "renewed" \/ page'.note = page.note
  PROVE  EndsInv'
<1>1. \A n \in page'.polls : Accepted(n)
  BY DEF Accepted
<1>2. page'.note.what = "renewed" => Good(page'.note.no)
  BY DEF EndsInv, NoteInv
<1>3. c.op = "poll" => Accepted(c.no)
  BY DEF Accepted
<1> QED BY <1>1, <1>2, <1>3, EndsKept

LEMMA ChangeEnds ==
  ASSUME TypeInv, EndsInv, NEW c \in CallSet, c.op \in Changing, Change(c)
  PROVE  EndsInv'
<1>1. page \in PageSet /\ page' = [page EXCEPT !.busy = TRUE, !.note = Note("", 0)]
  BY DEF Change, TypeInv, Types, PageOK, PageSet
<1>2. page'.polls = page.polls /\ page'.note.what = ""
  BY <1>1 DEF PageSet, Note
<1>3. \A d : d = [c EXCEPT !.alone = Reloading = {}] => d.op \notin {"renew", "poll"}
  BY DEF CallSet, Changing
<1>4. \A e \in calls : \A d : d = [e EXCEPT !.alone = FALSE] =>
        /\ d.op = e.op /\ d.no = e.no /\ d.at = e.at /\ d.ok = e.ok /\ d.says = e.says
  BY CallTypes DEF CallSet
<1>5. \A d \in calls' : \/ d.op \notin {"renew", "poll"}
                        \/ \E e \in calls : /\ d.op = e.op /\ d.no = e.no /\ d.at = e.at
                                            /\ d.ok = e.ok /\ d.says = e.says
  BY <1>3, <1>4 DEF Change
<1>6. \A n \in page'.polls : Accepted(n)
  BY <1>2 DEF Accepted
<1> QED BY <1>2, <1>5, <1>6, EndsKept DEF Change, bgVars

LEMMA ClickEnds ==
  ASSUME TypeInv, EndsInv, FetchTLS \/ ForceRenewClick
  PROVE  EndsInv'
<1>1. page \in PageSet
  BY DEF TypeInv, Types, PageOK, PageSet
<1>2. CASE FetchTLS
  <2>1. page'.polls = page.polls /\ page'.note.what = ""
    BY <1>1, <1>2 DEF PageSet, Note, FetchTLS
  <2>2. Request("load").op = "load"
    BY DEF Request
  <2> QED BY <1>2, <2>1, <2>2, PageEnds DEF FetchTLS, bgVars
<1>3. CASE ForceRenewClick
  <2>1. page'.polls = page.polls /\ page'.note.what = "renewing"
    BY <1>1, <1>3 DEF PageSet, Note, ForceRenewClick
  <2>2. \A c : c = [Request("renew") EXCEPT !.no = page.clicks + 1] =>
               c.op = "renew" /\ c.at = "asked"
    BY DEF Request
  <2> QED BY <1>3, <2>1, <2>2, PageEnds DEF ForceRenewClick, bgVars
<1> QED BY <1>2, <1>3

LEMMA PollEnds ==
  ASSUME TypeInv, EndsInv, NEW n \in page.polls, Poll(n)
  PROVE  EndsInv'
<1>1. \A c : c = [Request("poll") EXCEPT !.no = n] => c.op = "poll" /\ c.at = "asked" /\ c.no = n
  BY DEF Request
<1> QED BY <1>1, PageEnds DEF Poll, bgVars

LEMMA SaveEnds ==
  ASSUME TypeInv, EndsInv, NEW on \in BOOLEAN, NEW keys \in SUBSET Key, SaveTLSConfig(on, keys)
  PROVE  EndsInv'
<1> DEFINE c == [Request("save") EXCEPT !.form = [on |-> on, keys |-> keys], !.value = turns + 1]
<1>0. turns \in 0..MaxTurns
  BY DEF TypeInv, Types, PageOK
<1>1. turns < MaxTurns
  BY DEF SaveTLSConfig, Change, Turn
<1>2. turns + 1 \in 0..MaxTurns
  BY <1>0, <1>1, TlsAssumption
<1>3. Request("save") \in CallSet /\ Request("save").op = "save"
  BY Blanks DEF Op, Changing, Request
<1>4. c \in CallSet /\ c.op = "save"
  BY <1>2, <1>3 DEF CallSet
<1> QED BY <1>4, ChangeEnds DEF SaveTLSConfig, Changing

LEMMA NameEnds ==
  ASSUME TypeInv, EndsInv, NEW n \in Name, AddTlsDomain(n) \/ DeleteTlsDomain(n)
  PROVE  EndsInv'
<1>1. ASSUME NEW op \in {"add", "delete"}, Change([Request(op) EXCEPT !.arg = n])
      PROVE  EndsInv'
  <2> DEFINE c == [Request(op) EXCEPT !.arg = n]
  <2>1. Request(op) \in CallSet /\ Request(op).op = op
    BY Blanks DEF Op, Changing, Request
  <2>2. c \in CallSet /\ c.op = op
    BY <2>1 DEF CallSet
  <2> QED BY <1>1, <2>2, ChangeEnds DEF Changing
<1> QED BY <1>1 DEF AddTlsDomain, DeleteTlsDomain

(* The answers: what is displayed was said.                                *)
LEMMA AnswerEnds ==
  ASSUME TypeInv, EndsInv, NEW c \in calls, Answer(c)
  PROVE  EndsInv'
<1>1. page \in PageSet /\ Request("load").op = "load"
  BY DEF TypeInv, Types, PageOK, PageSet, Request
<1>2. UNCHANGED <<renewal, lastErr, ends>>
  BY DEF Answer, bgVars
<1>3. ASSUME NEW p, Then(c, {}, p) \/ Then(c, {Request("load")}, p),
             \A n \in p.polls : Accepted(n), p.note.what = "renewed" => Good(p.note.no)
      PROVE  EndsInv'
  <2>1. /\ \A d \in calls' : d \in calls \/ d.op \notin {"renew", "poll"}
        /\ page' = p
    BY <1>1, <1>3 DEF Then, Replace
  <2> QED BY <1>2, <1>3, <2>1, EndsKept
<1>4. /\ \A n \in page.polls : Accepted(n)
      /\ page.note.what = "renewed" => Good(page.note.no)
  BY DEF Accepted, EndsInv, NoteInv
<1>5. CASE Loaded(c)
  <2> DEFINE p == [page EXCEPT !.shown = c.names]
  <2>1. p.polls = page.polls /\ p.note = page.note
    BY <1>1 DEF PageSet
  <2> QED BY <1>3, <1>4, <1>5, <2>1 DEF Loaded
<1>6. CASE Changed(c)
  <2> DEFINE p == Free([page EXCEPT !.note = IF c.op = "save" THEN Note("saved", 0) ELSE @])
  <2>1. p.polls = page.polls /\ (p.note = page.note \/ p.note.what = "saved")
    BY <1>1 DEF PageSet, Free, Note
  <2> HIDE DEF p
  <2>2. Then(c, {Request("load")}, p)
    BY <1>6 DEF Changed, p
  <2> QED BY <1>3, <1>4, <2>1, <2>2
<1>7. CASE RenewStarted(c)
  <2> DEFINE p == [page EXCEPT !.polls = @ \cup {c.no}]
  <2>1. p.polls = page.polls \cup {c.no} /\ p.note = page.note
    BY <1>1 DEF PageSet
  <2>2. Accepted(c.no)
    BY <1>7 DEF RenewStarted, Accepted, Answer
  <2> HIDE DEF p
  <2>3. Then(c, {}, p)
    BY <1>7 DEF RenewStarted, p
  <2> QED BY <1>3, <1>4, <2>1, <2>2, <2>3
<1>8. CASE Polled(c)
  <2> DEFINE over == Free([page EXCEPT !.polls = @ \ {c.no}])
             f == [over EXCEPT !.note = Note("failed", 0)]
             r == [over EXCEPT !.note = Note("renewed", c.no)]
  <2>1. c.says = "renewed" => Good(c.no)
    BY <1>8 DEF Polled, Answer, EndsInv, PollsInv
  <2>2. f.polls \subseteq page.polls /\ f.note.what = "failed"
    BY <1>1 DEF PageSet, Free, Note
  <2>3. r.polls \subseteq page.polls /\ r.note.no = c.no
    BY <1>1 DEF PageSet, Free, Note
  <2>4. c.says \in {"in progress", "failed", "renewed"}
    BY <1>8, CallTypes DEF CallOK, CallSet, Polled, Answer
  <2>5. \/ Then(c, {}, page) \/ Then(c, {}, f)
        \/ Then(c, {Request("load")}, r) /\ c.says = "renewed"
    BY <1>8, <2>4 DEF Polled
  <2> HIDE DEF over, f, r
  <2> QED BY <1>3, <1>4, <2>1, <2>2, <2>3, <2>5
<1>9. CASE Then(c, {}, AfterFailure(c))
  <2>1. AfterFailure(c).polls = page.polls
    BY FailureTypes
  <2>2. AfterFailure(c).note = page.note \/ AfterFailure(c).note.what = "failed"
    BY <1>1 DEF AfterFailure, Free, Note, PageSet
  <2> QED BY <1>3, <1>4, <1>9, <2>1, <2>2
<1> QED BY <1>5, <1>6, <1>7, <1>8, <1>9 DEF Answer

LEMMA LoseEnds ==
  ASSUME TypeInv, EndsInv, NEW c \in calls, Lose(c)
  PROVE  EndsInv'
<1>1. page \in PageSet /\ c \in CallSet /\ page' = AfterFailure(c)
  BY CallTypes DEF TypeInv, Types, PageOK, PageSet, Lose, Then
<1>2. page'.polls = page.polls
  BY <1>1, FailureTypes
<1>3. page'.note = page.note \/ page'.note.what = "failed"
  BY <1>1 DEF AfterFailure, Free, Note, PageSet
<1> DEFINE e == [c EXCEPT !.lost = TRUE]
<1>4. e.op = c.op /\ e.no = c.no /\ e.at = c.at /\ e.ok = c.ok /\ e.says = c.says
  BY <1>1 DEF CallSet
<1>5. \A d \in calls' : d \in calls \/ d = e
  BY DEF Lose, Then, Replace
<1> HIDE DEF e
<1>6. \A n \in page'.polls : Accepted(n)
  BY <1>2 DEF Accepted
<1>7. page'.note.what = "renewed" => Good(page'.note.no)
  BY <1>3 DEF EndsInv, NoteInv
<1> QED BY <1>4, <1>5, <1>6, <1>7, EndsKept DEF Lose, bgVars

(* A handler of another button changes nothing of a renewal.               *)
LEMMA OtherEnds ==
  ASSUME TypeInv, EndsInv, NEW c \in calls, c.op \notin {"renew", "poll"},
         \A d \in calls' : d \in calls \/ d.op = c.op,
         page' = page, UNCHANGED <<renewal, lastErr, ends>>
  PROVE  EndsInv'
<1>1. \A n \in page'.polls : Accepted(n)
  BY DEF Accepted
<1>2. page'.note.what = "renewed" => Good(page'.note.no)
  BY DEF EndsInv, NoteInv
<1> QED BY <1>1, <1>2, EndsKept

LEMMA HandlerEnds ==
  ASSUME TypeInv, EndsInv, NEW c \in calls, page' = page,
         \/ GetTLS(c) \/ ReadConfig(c) \/ SetConfig(c) \/ SetNames(c) \/ BuildConfig(c)
         \/ Disable(c) \/ Apply(c) \/ LoadCertificate(c) \/ Begin(c) \/ Obtain(c)
         \/ StatementFails(c) \/ ApplyFails(c) \/ ObtainFails(c)
  PROVE  EndsInv'
<1>0. /\ c \in CallSet
      /\ c.at \in {"merge", "build", "names", "apply", "load", "wait", "obtaining"}
           => c.op \in Changing
  BY CallTypes
<1>1. c.op \notin {"renew", "poll"}
  BY <1>0 DEF Changing, GetTLS, ReadConfig, SetConfig, SetNames, BuildConfig, Disable, Apply,
         LoadCertificate, Begin, Obtain, StatementFails, ApplyFails, ObtainFails
<1>2. UNCHANGED <<renewal, lastErr, ends>>
  BY DEF GetTLS, ReadConfig, SetConfig, SetNames, BuildConfig, Disable, Apply,
         LoadCertificate, Begin, Obtain, StatementFails, ApplyFails, ObtainFails, bgVars
<1>3. ASSUME \E ok \in BOOLEAN : Reloaded(c, ok) \/ Answered(c, ok)
      PROVE  \A d \in calls' : d \in calls \/ d.op = c.op
  <2>1. PICK ok \in BOOLEAN : Tell(c, ok, {}, "")
    BY <1>3 DEF Reloaded, Answered
  <2>2. Done(c)
    BY <2>1, AnsweredDone
  <2> QED BY <2>2 DEF Done
<1>4. ASSUME NEW at, GoTo(c, at)
      PROVE  \A d \in calls' : d \in calls \/ d.op = c.op
  <2>1. \A d : d = [c EXCEPT !.at = at] => d.op = c.op
    BY <1>0 DEF CallSet
  <2> QED BY <1>4, <2>1 DEF GoTo, Replace
<1>5. \A d \in calls' : d \in calls \/ d.op = c.op
  <2>1. CASE GetTLS(c)
    <3>1. names \in SUBSET Name
      BY DEF TypeInv, Types, DbOK
    <3>2. Done(c)
      BY <2>1, <3>1, AnsweredDone DEF GetTLS
    <3> QED BY <3>2 DEF Done
  <2>2. CASE ReadConfig(c)
    <3>1. \A d : d = [c EXCEPT !.conf = conf, !.at = "merge"] => d.op = c.op
      BY <1>0 DEF CallSet
    <3> QED BY <2>2, <3>1 DEF ReadConfig, Replace
  <2>3. CASE BuildConfig(c)
    <3>1. /\ \A d : d = [c EXCEPT !.names = names, !.at = "apply"] => d.op = c.op
          /\ \A d : d = [c EXCEPT !.conf = conf, !.at = IF conf.on THEN "names" ELSE "apply"]
                    => d.op = c.op
      BY <1>0 DEF CallSet
    <3> QED BY <2>3, <3>1 DEF BuildConfig, Replace
  <2>4. CASE SetConfig(c) \/ SetNames(c)
    BY <1>3, <1>4, <2>4 DEF SetConfig, SetNames, Refuse
  <2>5. CASE Disable(c) \/ Apply(c)
    BY <1>3, <1>4, <2>5 DEF Disable, Apply
  <2>6. CASE LoadCertificate(c) \/ Begin(c) \/ Obtain(c)
    BY <1>3, <1>4, <2>6 DEF LoadCertificate, Begin, Obtain
  <2>7. CASE StatementFails(c) \/ ApplyFails(c) \/ ObtainFails(c)
    BY <1>3, <2>7 DEF StatementFails, ApplyFails, ObtainFails, Refuse
  <2> QED BY <2>1, <2>2, <2>3, <2>4, <2>5, <2>6, <2>7
<1> QED BY <1>1, <1>2, <1>5, OtherEnds

(* A click is accepted when no renewal is in progress, and then one is.    *)
LEMMA ForceRenewEnds ==
  ASSUME TypeInv, EndsInv, NEW c \in calls, ForceRenew(c), page' = page
  PROVE  EndsInv'
<1>1. c.op = "renew" /\ c.op \in Op /\ UNCHANGED <<lastErr, ends>>
  BY CallTypes DEF ForceRenew, CallSet
<1>2. \A n : Good(n)' = Good(n)
  BY <1>1 DEF Good, ends
<1>3. \A d \in calls' : d \in calls \/ (d.op = "renew" /\ d.no = c.no)
  <2>1. \E ok \in BOOLEAN : Tell(c, ok, {}, "")
    BY DEF ForceRenew, Refuse, Answered
  <2>2. Done(c)
    BY <2>1, AnsweredDone
  <2> QED BY <1>1, <2>2 DEF Done
<1>4. PollsInv' /\ NoteInv'
  BY <1>1, <1>2, <1>3 DEF EndsInv, PollsInv, NoteInv
<1>5. CASE renewal.st # "none"
  <2>1. renewal' = renewal /\ Refuse(c)
    BY <1>5 DEF ForceRenew
  <2>2. \A d \in calls' : d \in calls \/ (d.op = "renew" /\ d.ok = FALSE)
    <3>1. Request(c.op) \in CallSet /\ Request(c.op).op = c.op /\ c.no \in 0..MaxTurns
      BY <1>1, Blanks, CallTypes DEF Request, CallSet
    <3>2. \A d : d = Told(c, FALSE, {}, "") => d.op = c.op /\ d.ok = FALSE
      BY <3>1 DEF Told, CallSet
    <3> QED BY <1>1, <2>1, <3>2 DEF Refuse, Answered, Tell, Replace, Told
  <2>3. \A n : Accepted(n)' => Accepted(n)
    BY <2>2 DEF Accepted
  <2>4. AcceptedInv'
    BY <1>1, <1>2, <2>1, <2>3 DEF EndsInv, AcceptedInv
  <2> QED BY <1>4, <2>4 DEF EndsInv
<1>6. CASE renewal.st = "none"
  <2>1. renewal'.st = "wait"
    BY <1>6 DEF ForceRenew
  <2> QED BY <1>4, <2>1 DEF EndsInv, AcceptedInv
<1> QED BY <1>5, <1>6

LEMMA StatusEnds ==
  ASSUME TypeInv, EndsInv, NEW c \in calls, RenewStatus(c), page' = page
  PROVE  EndsInv'
<1>1. c.op = "poll" /\ c \in CallSet /\ UNCHANGED <<renewal, lastErr, ends>>
  BY CallTypes DEF RenewStatus, bgVars
<1>2. \A n : Good(n)' = Good(n)
  BY <1>1 DEF Good, ends
<1>3. Accepted(c.no)
  BY <1>1 DEF Accepted
<1>4. ASSUME \A d \in calls' : d \in calls \/ (d.op = "poll" /\ d.no = c.no),
             \A d \in calls' : d \in calls \/
               /\ d.at = "result" => lastErr \/ Good(c.no)
               /\ d.at = "done" /\ d.says = "renewed" => Good(c.no)
      PROVE  EndsInv'
  <2>1. \A n : Accepted(n)' => Accepted(n)
    BY <1>1, <1>4 DEF Accepted
  <2>2. AcceptedInv'
    BY <1>1, <1>2, <2>1 DEF EndsInv, AcceptedInv
  <2>3. PollsInv' /\ NoteInv'
    BY <1>1, <1>2, <1>4 DEF EndsInv, PollsInv, NoteInv
  <2> QED BY <2>2, <2>3 DEF EndsInv
<1>5. CASE c.at = "asked" /\ renewal.st = "none" /\ GoTo(c, "result")
  <2>1. \A d : d = [c EXCEPT !.at = "result"] => d.op = "poll" /\ d.no = c.no /\ d.at = "result"
    BY <1>1 DEF CallSet
  <2>2. lastErr \/ Good(c.no)
    BY <1>3, <1>5 DEF EndsInv, AcceptedInv
  <2> QED BY <1>4, <1>5, <2>1, <2>2 DEF GoTo, Replace
<1>6. ASSUME NEW says \in {"in progress", "failed", "renewed"}, Tell(c, TRUE, {}, says),
             says = "renewed" => Good(c.no)
      PROVE  EndsInv'
  <2>1. Request(c.op) \in CallSet /\ Request(c.op).op = c.op /\ c.no \in 0..MaxTurns
    BY <1>1, Blanks, CallTypes DEF Request, CallSet
  <2>2. \A d : d = Told(c, TRUE, {}, says) =>
               d.op = c.op /\ d.no = c.no /\ d.at = "done" /\ d.says = says
    BY <2>1 DEF Told, CallSet
  <2>3. \A d \in calls' : d \in calls \/ d = Told(c, TRUE, {}, says)
    BY <1>6 DEF Tell, Replace, Told
  <2> QED BY <1>1, <1>4, <1>6, <2>2, <2>3
<1>7. CASE c.at = "asked" /\ Tell(c, TRUE, {}, "in progress")
  BY <1>6, <1>7
<1>8. CASE c.at = "result" /\ Tell(c, TRUE, {}, IF lastErr THEN "failed" ELSE "renewed")
  <2>1. lastErr \/ Good(c.no)
    BY <1>1, <1>8 DEF EndsInv, PollsInv
  <2> QED BY <1>6, <1>8, <2>1
<1> QED BY <1>5, <1>7, <1>8 DEF RenewStatus

(* The renewal ends well for all clicks there were.                        *)
LEMMA ManageEnds ==
  ASSUME TypeInv, EndsInv, Manage \/ Age \/ ContextEnds
  PROVE  EndsInv'
<1>0. /\ renewal \in [st : {"none", "wait", "obtain", "ok", "failed", "told"}, no : 0..MaxTurns]
      /\ page.clicks \in 0..MaxTurns /\ renewed \in 0..page.clicks
  BY DEF TypeInv, Types, BgOK, PageOK, EndsOK
<1>1. calls' = calls /\ page' = page /\ cut' = cut
  BY DEF Manage, Age, ContextEnds, RenewBegins, RenewObtains, RenewEnds, Tick, LoopBegins,
         LoopObtains, ends
<1>2. \A n : Accepted(n)' = Accepted(n)
  BY <1>1 DEF Accepted
<1>3. \A n : Accepted(n) => n \in 0..page.clicks
  <2>1. page.polls \subseteq 1..page.clicks
    BY DEF TypeInv, Types, PageOK
  <2>2. \A n \in page.polls : n \in 0..page.clicks
    BY <1>0, <2>1
  <2>3. \A c \in calls : c.no \in 0..page.clicks
    BY CallTypes DEF CallOK
  <2> QED BY <2>2, <2>3, Zenon DEF Accepted
<1>4. ASSUME UNCHANGED <<renewed, lastErr>>,
             renewal'.st \in {"none", "told"} => renewal.st \in {"none", "told"},
             renewal'.st # "ok" \/ renewal.st = "ok"
      PROVE  EndsInv'
  <2>1. \A n : Good(n)' = Good(n)
    BY <1>1, <1>4 DEF Good
  <2> QED BY <1>1, <1>2, <1>4, <2>1 DEF EndsInv, AcceptedInv, PollsInv, NoteInv
<1>5. CASE RenewBegins
  <2>1. renewal'.st \in {"failed", "obtain"}
    BY <1>0, <1>5 DEF RenewBegins
  <2> QED BY <1>4, <1>5, <2>1 DEF RenewBegins, ends
<1>6. CASE RenewObtains
  <2>1. CASE renewed' = page.clicks /\ renewal' = [renewal EXCEPT !.st = "ok"] /\ lastErr' = lastErr
    <3>1. \A n \in 0..page.clicks : page.clicks >= n
      BY <1>0
    <3>2. \A n : n \in 0..page.clicks => Good(n)'
      BY <2>1, <3>1 DEF Good
    <3>3. renewal'.st = "ok"
      BY <1>0, <2>1
    <3>4. AcceptedInv'
      BY <1>2, <1>3, <3>2, <3>3 DEF AcceptedInv
    <3>5. \A c \in calls : c.no \in 0..page.clicks
      BY CallTypes DEF CallOK
    <3>6. PollsInv'
      BY <1>1, <3>2, <3>5 DEF PollsInv
    <3>7. NoteInv'
      <4>1. page.note.no \in 0..MaxTurns
        BY DEF TypeInv, Types, PageOK, NoteSet
      <4>2. Good(page.note.no) => Good(page.note.no)'
        BY <1>0, <1>1, <2>1, <4>1, TlsAssumption DEF Good
      <4> QED BY <1>1, <4>2 DEF EndsInv, NoteInv
    <3> QED BY <3>4, <3>6, <3>7 DEF EndsInv
  <2>2. CASE renewal' = [renewal EXCEPT !.st = "failed"] /\ renewed' = renewed
    <3>1. renewal'.st = "failed"
      BY <1>0, <2>2
    <3> QED BY <1>4, <1>6, <2>2, <3>1 DEF RenewObtains
  <2> QED BY <1>6, <2>1, <2>2 DEF RenewObtains
<1>7. CASE RenewEnds
  <2>0. UNCHANGED ends
    BY <1>7 DEF RenewEnds
  <2>1. \A n : Good(n)' = Good(n)
    BY <2>0 DEF Good, ends
  <2>2. CASE renewal.st \in {"ok", "failed"} /\ lastErr' = (renewal.st = "failed")
             /\ renewal' = [renewal EXCEPT !.st = "told"]
    <3>1. renewal'.st = "told"
      BY <1>0, <2>2
    <3>2. AcceptedInv'
      BY <1>2, <2>1, <2>2, <3>1 DEF EndsInv, AcceptedInv
    <3>3. \A c \in calls : c.op = "poll" => Accepted(c.no)
      BY DEF Accepted
    <3>4. PollsInv'
      BY <1>1, <2>1, <2>2, <3>3 DEF EndsInv, AcceptedInv, PollsInv
    <3>5. NoteInv'
      BY <1>1, <2>1 DEF EndsInv, NoteInv
    <3> QED BY <3>2, <3>4, <3>5 DEF EndsInv
  <2>3. CASE renewal.st = "told" /\ renewal' = [st |-> "none", no |-> 0] /\ lastErr' = lastErr
    BY <1>4, <2>0, <2>3 DEF ends
  <2> QED BY <1>7, <2>2, <2>3 DEF RenewEnds
<1>8. CASE Tick \/ LoopBegins \/ LoopObtains \/ Age \/ ContextEnds
  <2>1. UNCHANGED <<renewal, renewed, lastErr>>
    BY <1>8 DEF Tick, LoopBegins, LoopObtains, Age, ContextEnds, bgVars, ends
  <2> QED BY <1>4, <2>1
<1> QED BY <1>5, <1>6, <1>7, <1>8 DEF Manage

(* A restart forgets all: every click so far is cut off.                   *)
LEMMA RestartEnds ==
  ASSUME TypeInv, EndsInv, Restart
  PROVE  EndsInv'
<1>0. /\ page' = page /\ renewed' = renewed /\ cut' = page.clicks
      /\ renewed \in 0..page.clicks /\ cut \in 0..page.clicks /\ page.clicks \in 0..MaxTurns
  BY DEF Restart, TypeInv, Types, EndsOK, PageOK
<1>1. \A n \in 0..page.clicks : page.clicks >= n
  BY <1>0
<1>2. \A n : n \in 0..page.clicks => Good(n)'
  BY <1>0, <1>1 DEF Good
<1>3. \A d \in calls' : d \in calls \/ (\E c \in calls : d.no = c.no /\ d.says = "")
  <2>1. \A c \in calls : \A d : d = [Request(c.op) EXCEPT !.no = c.no, !.at = "done"] =>
          d.no = c.no /\ d.says = ""
    BY DEF Request
  <2> QED BY <2>1 DEF Restart
<1>4. \A d \in calls' : d.no \in 0..page.clicks
  BY <1>3, CallTypes DEF CallOK
<1>5. \A n \in page.polls : n \in 0..page.clicks
  BY <1>0 DEF TypeInv, Types, PageOK
<1>6. \A n : Accepted(n)' => n \in 0..page.clicks
  BY <1>0, <1>4, <1>5, Zenon DEF Accepted
<1>7. AcceptedInv' /\ PollsInv'
  BY <1>2, <1>4, <1>6 DEF AcceptedInv, PollsInv
<1>8. NoteInv'
  <2>1. page.note.no \in 0..MaxTurns
    BY DEF TypeInv, Types, PageOK, NoteSet
  <2>2. Good(page.note.no) => Good(page.note.no)'
    BY <1>0, <2>1, TlsAssumption DEF Good
  <2> QED BY <1>0, <2>2 DEF EndsInv, NoteInv
<1> QED BY <1>7, <1>8 DEF EndsInv

LEMMA EndsStep == TypeInv /\ EndsInv /\ [Next]_vars => EndsInv'
<1> SUFFICES ASSUME TypeInv, EndsInv, [Next]_vars PROVE EndsInv'
  OBVIOUS
<1>1. ASSUME NEW c \in calls,
             \/ Handle(c) \/ Answer(c) \/ Lose(c)
             \/ StatementFails(c) \/ ApplyFails(c) \/ ObtainFails(c)
      PROVE  EndsInv'
  <2>1. Handle(c) => page' = page
    BY DEF Handle
  <2>2. StatementFails(c) \/ ApplyFails(c) \/ ObtainFails(c) => page' = page
    BY DEF StatementFails, ApplyFails, ObtainFails, NotObtained
  <2> QED BY <1>1, <2>1, <2>2, HandlerEnds, ForceRenewEnds, StatusEnds, AnswerEnds, LoseEnds
          DEF Handle
<1>2. CASE UNCHANGED vars
  <2>1. UNCHANGED <<page, calls, renewal, lastErr, renewed, cut>>
    BY <1>2 DEF vars, bgVars, ends
  <2> QED BY <2>1 DEF EndsInv, AcceptedInv, PollsInv, NoteInv, Accepted, Good
<1> QED BY <1>1, <1>2, ManageEnds, RestartEnds, ClickEnds, SaveEnds, NameEnds, PollEnds DEF Next

(* "Certificate renewed" is shown only of a renewal that was successful or *)
(* made good by a later one, or that a restart had the server forget, with *)
(* any number of clicks, polls in flight and lost answers.                 *)
THEOREM RenewalsEndAsTold == Spec => []RenewedIsTrue
<1>1. Init => TypeInv /\ EndsInv
  <2>1. Init => EndsInv
    <3>1. ASSUME Init PROVE calls = {} /\ page.polls = {} /\ page.note.what = ""
      BY <3>1 DEF Init, Note
    <3> QED BY <3>1, Zenon DEF EndsInv, AcceptedInv, PollsInv, NoteInv, Accepted
  <2> QED BY <2>1, InitTypes
<1>2. TypeInv /\ EndsInv /\ [Next]_vars => (TypeInv /\ EndsInv)'
  BY TypeStep, EndsStep
<1>3. TypeInv /\ EndsInv => RenewedIsTrue
  BY DEF EndsInv, NoteInv, Good, RenewedIsTrue
<1> QED BY <1>1, <1>2, <1>3, PTL DEF Spec

-----------------------------------------------------------------------------
(* What is stored is what the manager has                                  *)

Loading == {"load", "wait", "obtaining"}
Effective == {"build", "names", "apply"} \cup Loading

(* Of several changes none is alone, and what a change that is alone has   *)
(* read is what is stored.                                                 *)
Current(c) ==
  /\ c.at \in {"merge", "names", "apply"} => c.conf = conf
  /\ c.at = "names" => conf.on
  /\ c.at = "apply" /\ conf.on => c.names = names
  /\ c.at \in Loading => mgr = Configured
AloneInv ==
  /\ \A c, d \in Reloading : c.alone => c = d
  /\ \A c \in Reloading : c.alone => Current(c)

(* What the manager does not have yet, or does not serve yet, a handler is *)
(* on its way to.                                                          *)
Obtaining(c) == c.at \in {"wait", "obtaining"} \/ (c.at = "load" /\ mgr.names # {})
ServeInv ==
  /\ conf.creds = kept
  /\ behind \/ mgr = Configured \/ \E c \in calls : c.at \in Effective
  /\ unserved \/ served.names = mgr.names \/ \E c \in calls : Obtaining(c)

LEMMA QuietAlone ==
  ASSUME AloneInv, UNCHANGED <<conf, names, mgr>>,
         \A e \in calls' : e \in calls \/ e.op \notin Changing \/ e.at = "done"
  PROVE  AloneInv'
<1>1. \A e \in Reloading' : e \in Reloading
  BY DEF Reloading
<1>2. \A e : Current(e)' = Current(e)
  BY DEF Current, Configured
<1> QED BY <1>1, <1>2 DEF AloneInv

LEMMA QuietServe ==
  ASSUME ServeInv, UNCHANGED <<conf, names, mgr, kept, behind, unserved>>,
         served'.names = served.names,
         \A c \in calls : c.at \in Effective => \E e \in calls' : e.at = c.at
  PROVE  ServeInv'
<1>1. Configured' = Configured
  BY DEF Configured
<1>2. (\E c \in calls : c.at \in Effective) => \E c \in calls' : c.at \in Effective
  OBVIOUS
<1>3. (\E c \in calls : Obtaining(c)) => \E c \in calls' : Obtaining(c)'
  BY DEF Obtaining, Effective, Loading
<1> QED BY <1>1, <1>2, <1>3 DEF ServeInv

(* One statement of the handler of c, which leaves d of it.                *)
Stepped(c, d) ==
  /\ \A e \in calls : e # c => e \in calls'
  /\ \A e \in calls' : (e \in calls /\ e # c) \/ e = d
  /\ d.op = c.op /\ (d.at = "done" \/ d.alone = c.alone)

LEMMA ToldStepped ==
  ASSUME TypeInv, NEW c \in calls, NEW ok \in BOOLEAN, NEW list \in SUBSET Name,
         NEW says \in {"", "in progress", "failed", "renewed"},
         Tell(c, ok, list, says)
  PROVE  \E d : Stepped(c, d) /\ d.at = "done"
<1>1. c.op \in Op /\ c.no \in 0..MaxTurns
  BY CallTypes DEF CallSet
<1>2. Request(c.op) \in CallSet /\ Request(c.op).op = c.op
  BY <1>1, Blanks DEF Request
<1>3. \A d : d = Told(c, ok, list, says) => d.op = c.op /\ d.at = "done"
  BY <1>1, <1>2 DEF Told, CallSet
<1>4. \E d : d = Told(c, ok, list, says)
  OBVIOUS
<1>5. PICK d : d = Told(c, ok, list, says)
  BY <1>4
<1>6. Stepped(c, d) /\ d.at = "done"
  BY <1>3, <1>5 DEF Stepped, Tell, Replace, Told
<1> QED BY <1>6

LEMMA GoToStepped ==
  ASSUME TypeInv, NEW c \in calls, NEW at, GoTo(c, at)
  PROVE  \E d \in calls' : /\ Stepped(c, d)
                           /\ d.at = at /\ d.conf = c.conf /\ d.names = c.names
<1> DEFINE d == [c EXCEPT !.at = at]
<1>1. /\ d.op = c.op /\ d.alone = c.alone /\ d.at = at /\ d.conf = c.conf
      /\ d.names = c.names
  BY CallTypes DEF CallSet
<1>2. calls' = (calls \ {c}) \cup {d}
  BY DEF GoTo, Replace
<1> HIDE DEF d
<1> QED BY <1>1, <1>2 DEF Stepped

LEMMA AloneStep ==
  ASSUME TypeInv, AloneInv, NEW c \in calls, c.at # "done", NEW d, Stepped(c, d),
         c.op \in Changing \/ UNCHANGED <<conf, names, mgr>>,
         d.op \in Changing /\ d.alone /\ d.at # "done" => Current(d)'
  PROVE  AloneInv'
<1>1. \A e \in Reloading' : e = d \/ (e \in Reloading /\ e # c)
  BY DEF Reloading, Stepped
<1>2. c.op \in Changing => c \in Reloading
  BY DEF Reloading
<1>3. \A e, f \in Reloading' : e.alone => e = f
  BY <1>1, <1>2 DEF AloneInv, Stepped, Reloading
<1>4. ASSUME NEW e \in Reloading', e.alone PROVE Current(e)'
  <2>1. CASE e = d
    BY <1>4, <2>1 DEF Reloading
  <2>2. CASE e # d
    <3>1. e \in Reloading /\ e # c /\ e \in calls
      BY <1>1, <2>2 DEF Reloading
    <3>2. c.op \notin Changing
      BY <1>2, <1>4, <3>1 DEF AloneInv
    <3>3. Current(e) /\ UNCHANGED <<conf, names, mgr>>
      BY <1>4, <3>1, <3>2 DEF AloneInv
    <3> QED BY <3>3 DEF Current, Configured
  <2> QED BY <2>1, <2>2
<1> QED BY <1>3, <1>4 DEF AloneInv

(* A handler that ends with what is stored unchanged.                      *)
LEMMA EndedAlone ==
  ASSUME TypeInv, AloneInv, NEW c \in calls, c.at # "done", NEW ok \in BOOLEAN,
         Reloaded(c, ok) \/ Answered(c, ok),
         c.op \in Changing \/ UNCHANGED <<conf, names, mgr>>
  PROVE  AloneInv'
<1>1. Tell(c, ok, {}, "")
  BY DEF Reloaded, Answered
<1>2. PICK d : Stepped(c, d) /\ d.at = "done"
  BY <1>1, ToldStepped
<1> QED BY <1>2, AloneStep

LEMMA HandlerAlone ==
  ASSUME TypeInv, AloneInv, NEW c \in calls,
         \/ GetTLS(c) \/ ReadConfig(c) \/ SetConfig(c) \/ SetNames(c) \/ BuildConfig(c)
         \/ Disable(c) \/ Apply(c) \/ LoadCertificate(c) \/ Begin(c) \/ Obtain(c)
         \/ StatementFails(c) \/ ApplyFails(c) \/ ObtainFails(c)
  PROVE  AloneInv'
<1>0. /\ c \in CallSet
      /\ c.at \in {"merge", "build", "names", "apply", "load", "wait", "obtaining"}
           => c.op \in Changing
  BY CallTypes
<1>1. c.at # "done"
  BY DEF GetTLS, ReadConfig, SetConfig, SetNames, BuildConfig, Disable, Apply,
         LoadCertificate, Begin, Obtain, StatementFails, ApplyFails, ObtainFails
<1>2. c.op \in Changing /\ c.alone => Current(c)
  BY <1>1 DEF AloneInv, Reloading
<1>3. ASSUME NEW ok \in BOOLEAN, Reloaded(c, ok) \/ Answered(c, ok), c.op \in Changing
      PROVE  AloneInv'
  BY <1>1, <1>3, EndedAlone
<1>4. ASSUME NEW at, GoTo(c, at), c.op \in Changing,
             at \in {"load", "wait", "obtaining"} /\ c.alone => (mgr = Configured)',
             at \in {"load", "wait", "obtaining", "build"}
      PROVE  AloneInv'
  <2>1. PICK d \in calls' : Stepped(c, d) /\ d.at = at
    BY <1>4, GoToStepped
  <2>2. d.op \in Changing /\ d.alone /\ d.at # "done" => Current(d)'
    BY <1>4, <2>1 DEF Stepped, Current, Loading
  <2> QED BY <1>1, <1>4, <2>1, <2>2, AloneStep
<1>5. CASE GetTLS(c)
  <2>1. names \in SUBSET Name
    BY DEF TypeInv, Types, DbOK
  <2>2. PICK d : Stepped(c, d) /\ d.at = "done"
    BY <1>5, <2>1, ToldStepped DEF GetTLS
  <2> QED BY <1>1, <1>5, <2>2, AloneStep DEF GetTLS, dbVars, mgrVars
<1>6. CASE ReadConfig(c)
  <2>0. PICK d : d = [c EXCEPT !.conf = conf, !.at = "merge"]
    OBVIOUS
  <2>1. d.op = c.op /\ d.alone = c.alone /\ d.conf = conf /\ d.at = "merge"
    BY <1>0, <2>0 DEF CallSet
  <2>2. calls' = (calls \ {c}) \cup {d} /\ UNCHANGED <<conf, names, mgr>>
    BY <1>6, <2>0 DEF ReadConfig, Replace, dbVars, mgrVars
  <2>3. Stepped(c, d) /\ Current(d)'
    BY <2>1, <2>2 DEF Stepped, Current, Loading
  <2> QED BY <1>1, <2>2, <2>3, AloneStep
<1>7. CASE SetConfig(c)
  BY <1>0, <1>4, <1>7 DEF SetConfig
<1>8. CASE SetNames(c)
  BY <1>3, <1>4, <1>8 DEF SetNames, Refuse, Changing
<1>9. CASE BuildConfig(c)
  <2>0. UNCHANGED <<conf, names, mgr>> /\ c.op \in Changing
    BY <1>0, <1>9 DEF BuildConfig, dbVars, mgrVars
  <2>1. CASE c.at = "names"
    <3>0. PICK d : d = [c EXCEPT !.names = names, !.at = "apply"]
      OBVIOUS
    <3>1. d.op = c.op /\ d.alone = c.alone /\ d.conf = c.conf /\ d.names = names /\ d.at = "apply"
      BY <1>0, <3>0 DEF CallSet
    <3>2. calls' = (calls \ {c}) \cup {d}
      BY <1>9, <2>1, <3>0 DEF BuildConfig, Replace
    <3>3. Stepped(c, d)
      BY <3>1, <3>2 DEF Stepped
    <3>4. d.alone => Current(d)'
      BY <1>2, <2>0, <2>1, <3>1 DEF Current, Loading
    <3> QED BY <1>1, <2>0, <3>3, <3>4, AloneStep
  <2>2. CASE c.at = "build"
    <3>0. PICK d : d = [c EXCEPT !.conf = conf, !.at = IF conf.on THEN "names" ELSE "apply"]
      OBVIOUS
    <3>1. /\ d.op = c.op /\ d.alone = c.alone /\ d.conf = conf
          /\ d.at = IF conf.on THEN "names" ELSE "apply"
      BY <1>0, <3>0 DEF CallSet
    <3>2. calls' = (calls \ {c}) \cup {d}
      BY <1>9, <2>2, <3>0 DEF BuildConfig, Replace
    <3>3. Stepped(c, d)
      BY <3>1, <3>2 DEF Stepped
    <3>4. Current(d)'
      BY <2>0, <3>1 DEF Current, Loading
    <3> QED BY <1>1, <2>0, <3>3, <3>4, AloneStep
  <2> QED BY <1>9, <2>1, <2>2 DEF BuildConfig
<1>10. CASE Disable(c) \/ ApplyFails(c)
  BY <1>0, <1>3, <1>10 DEF Disable, ApplyFails
<1>11. CASE Apply(c)
  <2>1. c.op \in Changing
    BY <1>0, <1>11 DEF Apply
  <2>2. c.alone => c.conf = conf /\ c.names = names
    BY <1>2, <1>11, <2>1 DEF Current, Apply
  <2>3. c.alone => mgr' = Configured'
    BY <1>11, <2>2 DEF Apply, Applied, Configured, dbVars
  <2> QED BY <1>3, <1>4, <1>11, <2>1, <2>3 DEF Apply
<1>12. CASE LoadCertificate(c) \/ Begin(c)
  <2>1. c.op \in Changing
    BY <1>0, <1>12 DEF LoadCertificate, Begin
  <2>2. c.alone => mgr = Configured
    BY <1>2, <1>12, <2>1 DEF Current, Loading, LoadCertificate, Begin
  <2>3. UNCHANGED <<conf, names, mgr>>
    BY <1>12 DEF LoadCertificate, Begin, dbVars, mgrVars
  <2>4. c.alone => (mgr = Configured)'
    BY <2>2, <2>3 DEF Configured
  <2> QED BY <1>3, <1>4, <1>12, <2>1, <2>4 DEF LoadCertificate, Begin
<1>13. CASE Obtain(c) \/ ObtainFails(c)
  BY <1>0, <1>3, <1>13 DEF Obtain, ObtainFails
<1>14. CASE StatementFails(c)
  <2>1. \E ok \in BOOLEAN : Reloaded(c, ok) \/ Answered(c, ok)
    BY <1>14 DEF StatementFails, Refuse
  <2>2. UNCHANGED <<conf, names, mgr>>
    BY <1>14 DEF StatementFails, dbVars, mgrVars
  <2> QED BY <1>1, <2>1, <2>2, EndedAlone
<1> QED BY <1>5, <1>6, <1>7, <1>8, <1>9, <1>10, <1>11, <1>12, <1>13, <1>14

(* A handler that ends, or goes on to another statement.                   *)
LEMMA EndedServe ==
  ASSUME TypeInv, ServeInv, AloneInv, NEW c \in calls, c.op \in Changing, c.at # "done",
         NEW ok \in BOOLEAN, Reloaded(c, ok), conf' = conf, names' = names, kept' = kept,
         ok /\ c.alone => mgr' = Configured,
         \/ unserved' \/ (served.names = mgr.names)'
         \/ ~Obtaining(c) /\ mgr'.names = mgr.names /\ served' = served /\ (unserved => unserved')
  PROVE  ServeInv'
<1>1. Tell(c, ok, {}, "")
  BY DEF Reloaded, Answered
<1>2. PICK d : Stepped(c, d) /\ d.at = "done"
  BY <1>1, ToldStepped
<1>3. behind' = ~(ok /\ c.alone) /\ Configured' = Configured
  BY DEF Reloaded, Configured
<1>4. behind' \/ (mgr = Configured)'
  BY <1>3
<1>5. \A e \in calls : e # c => e \in calls'
  BY <1>2 DEF Stepped
<1>6. mgr'.names = mgr.names => \A e : Obtaining(e)' = Obtaining(e)
  BY DEF Obtaining
<1>7. unserved' \/ (served.names = mgr.names)' \/ \E e \in calls' : Obtaining(e)'
  BY <1>5, <1>6, Zenon DEF ServeInv
<1> QED BY <1>4, <1>7 DEF ServeInv

LEMMA GoneOnServe ==
  ASSUME TypeInv, ServeInv, NEW c \in calls, NEW at \in Effective, GoTo(c, at),
         (conf.creds = kept)', at = "load" => mgr'.names # {},
         \/ at \in {"wait", "obtaining", "load"}
         \/ UNCHANGED <<unserved, served, mgr>> /\ ~Obtaining(c)
  PROVE  ServeInv'
<1>1. PICK d \in calls' : Stepped(c, d) /\ d.at = at
  BY GoToStepped
<1>2. \E e \in calls' : e.at \in Effective
  BY <1>1
<1>3. CASE at \in {"wait", "obtaining", "load"}
  <2>1. Obtaining(d)'
    BY <1>1, <1>3 DEF Obtaining
  <2> QED BY <1>2, <2>1 DEF ServeInv
<1>4. CASE UNCHANGED <<unserved, served, mgr>> /\ ~Obtaining(c)
  <2>1. \A e \in calls : e # c => e \in calls'
    BY <1>1 DEF Stepped
  <2>2. \A e : Obtaining(e)' = Obtaining(e)
    BY <1>4 DEF Obtaining
  <2>3. unserved' \/ (served.names = mgr.names)' \/ \E e \in calls' : Obtaining(e)'
    BY <1>4, <2>1, <2>2, Zenon DEF ServeInv
  <2> QED BY <1>2, <2>3 DEF ServeInv
<1> QED BY <1>3, <1>4

(* The statements that leave the manager alone.                            *)
LEMMA DbServe ==
  ASSUME TypeInv, ServeInv, AloneInv, NEW c \in calls,
         \/ GetTLS(c) \/ ReadConfig(c) \/ SetConfig(c) \/ SetNames(c) \/ BuildConfig(c)
         \/ StatementFails(c)
  PROVE  ServeInv'
<1>0. /\ c \in CallSet
      /\ c.at \in {"merge", "build", "names"} => c.op \in Changing
  BY CallTypes
<1>1. UNCHANGED <<mgr, served, unserved>> /\ c.at # "done" /\ ~Obtaining(c)
  BY DEF GetTLS, ReadConfig, SetConfig, SetNames, BuildConfig, StatementFails, mgrVars, reload,
         Obtaining
<1>2. ASSUME c.at \notin Effective, NEW d, \A e \in calls : e # c => e \in calls',
             UNCHANGED <<conf, names, kept, behind>>
      PROVE  ServeInv'
  <2>1. \A e \in calls : e.at \in Effective => \E f \in calls' : f.at = e.at
    BY <1>2
  <2> QED BY <1>1, <1>2, <2>1, QuietServe
<1>3. ASSUME NEW ok \in BOOLEAN, Answered(c, ok), c.at \notin Effective,
             UNCHANGED <<conf, names, kept, behind>>
      PROVE  ServeInv'
  <2>1. Done(c)
    BY <1>3, AnsweredDone DEF Answered
  <2> QED BY <1>2, <1>3, <2>1 DEF Done
<1>4. CASE GetTLS(c)
  <2>1. names \in SUBSET Name
    BY DEF TypeInv, Types, DbOK
  <2>2. Done(c)
    BY <1>4, <2>1, AnsweredDone DEF GetTLS
  <2> QED BY <1>2, <1>4, <2>2 DEF GetTLS, Done, dbVars, reload, Effective, Loading
<1>5. CASE ReadConfig(c)
  BY <1>2, <1>5 DEF ReadConfig, Replace, dbVars, reload, Effective, Loading
<1>6. CASE SetConfig(c)
  <2>1. c \in Reloading
    BY <1>0, <1>6 DEF SetConfig, Reloading
  <2>2. c.alone => c.conf = conf
    BY <1>6, <2>1 DEF SetConfig, AloneInv, Current
  <2>3. conf.creds = kept
    BY DEF ServeInv
  <2>4. c.alone => Merged(c.conf.creds, c) = [k \in Key |-> IF k \in c.form.keys THEN c.value ELSE kept[k]]
    BY <2>2, <2>3 DEF Merged
  <2>5. conf'.creds = Merged(c.conf.creds, c)
    BY <1>6 DEF SetConfig
  <2>6. kept' = IF c.alone THEN [k \in Key |-> IF k \in c.form.keys THEN c.value ELSE kept[k]]
                ELSE conf'.creds
    BY <1>6 DEF SetConfig
  <2>7. (conf.creds = kept)'
    BY <2>4, <2>5, <2>6
  <2>8. GoTo(c, "build")
    BY <1>6 DEF SetConfig
  <2> QED BY <1>1, <2>7, <2>8, GoneOnServe DEF Effective
<1>7. CASE SetNames(c)
  <2>1. CASE Refuse(c) /\ names' = names
    BY <1>3, <1>7, <2>1 DEF SetNames, Refuse, reload, Effective, Loading
  <2>2. CASE GoTo(c, "build")
    <3>1. (conf.creds = kept)'
      BY <1>7 DEF SetNames, ServeInv, reload
    <3> QED BY <1>1, <2>2, <3>1, GoneOnServe DEF Effective
  <2> QED BY <1>7, <2>1, <2>2 DEF SetNames
<1>8. CASE BuildConfig(c)
  <2>1. PICK d : /\ d = IF c.at = "names" THEN [c EXCEPT !.names = names, !.at = "apply"]
                        ELSE [c EXCEPT !.conf = conf, !.at = IF conf.on THEN "names" ELSE "apply"]
                 /\ calls' = (calls \ {c}) \cup {d}
    BY <1>8 DEF BuildConfig, Replace
  <2>2. d.at \in {"names", "apply"}
    BY <1>0, <2>1 DEF CallSet
  <2>3. \E e \in calls' : e.at \in Effective
    BY <2>1, <2>2 DEF Effective
  <2>4. UNCHANGED <<conf, kept>>
    BY <1>8 DEF BuildConfig, dbVars, reload
  <2>5. \A e : Obtaining(e)' = Obtaining(e)
    BY <1>1 DEF Obtaining
  <2>6. \A e \in calls : e # c => e \in calls'
    BY <2>1
  <2>7. unserved' \/ (served.names = mgr.names)' \/ \E e \in calls' : Obtaining(e)'
    BY <1>1, <2>5, <2>6, Zenon DEF ServeInv
  <2> QED BY <2>3, <2>4, <2>7 DEF ServeInv
<1>9. CASE StatementFails(c)
  <2>0. UNCHANGED <<conf, names, kept>>
    BY <1>9 DEF StatementFails, dbVars
  <2>1. CASE c.at \in {"build", "names"}
    <3>1. Reloaded(c, FALSE) /\ c.op \in Changing
      BY <1>0, <1>9, <2>1 DEF StatementFails
    <3> QED BY <1>1, <2>0, <3>1, EndedServe
  <2>2. CASE c.at \notin {"build", "names"}
    <3>1. Answered(c, FALSE) /\ behind' = behind /\ c.at \notin Effective
      BY <1>9, <2>2 DEF StatementFails, Refuse, Effective, Loading
    <3> QED BY <1>3, <2>0, <3>1
  <2> QED BY <2>1, <2>2
<1> QED BY <1>4, <1>5, <1>6, <1>7, <1>8, <1>9

(* The statements of a reload on the manager.                              *)
LEMMA ReloadServe ==
  ASSUME TypeInv, ServeInv, AloneInv, NEW c \in calls,
         \/ Disable(c) \/ Apply(c) \/ ApplyFails(c) \/ LoadCertificate(c) \/ Begin(c)
         \/ Obtain(c) \/ ObtainFails(c)
  PROVE  ServeInv'
<1>0. /\ c.op \in Changing /\ c.at \in {"apply", "load", "wait", "obtaining"} /\ c.at # "done"
      /\ UNCHANGED <<conf, names, kept>>
  BY CallTypes DEF Disable, Apply, ApplyFails, LoadCertificate, Begin, Obtain, ObtainFails, dbVars
<1>1. c.alone => Current(c)
  BY <1>0 DEF AloneInv, Reloading
<1>2. Configured' = Configured /\ (conf.creds = kept)'
  BY <1>0 DEF Configured, ServeInv
<1>3. CASE Disable(c)
  <2>1. Reloaded(c, TRUE) /\ mgr' = Off /\ served' = NoCert /\ ~c.conf.on /\ c.at = "apply"
    BY <1>3 DEF Disable
  <2>2. c.alone => mgr' = Configured
    BY <1>1, <2>1 DEF Current, Configured
  <2>3. (served.names = mgr.names)'
    BY <2>1 DEF Off, NoCert
  <2> QED BY <1>0, <2>1, <2>2, <2>3, EndedServe
<1>4. CASE Apply(c)
  <2>0. /\ mgr' = Applied(c) /\ mgr'.names = c.names /\ UNCHANGED <<served, unserved>>
        /\ c.at = "apply" /\ c.conf.on
    BY <1>4 DEF Apply, Applied
  <2>1. c.alone => mgr' = Configured
    BY <1>1, <2>0 DEF Current, Configured, Applied
  <2>2. CASE GoTo(c, "wait")
    BY <1>2, <2>2, GoneOnServe DEF Effective, Loading
  <2>3. CASE GoTo(c, "load") /\ c.names # {}
    BY <1>2, <2>0, <2>3, GoneOnServe DEF Effective, Loading
  <2>4. CASE Reloaded(c, TRUE) /\ c.names = mgr.names
    <3>1. ~Obtaining(c) /\ mgr'.names = mgr.names
      BY <2>0, <2>4 DEF Obtaining
    <3> QED BY <1>0, <2>0, <2>1, <2>4, <3>1, EndedServe
  <2> QED BY <1>4, <2>2, <2>3, <2>4 DEF Apply
<1>5. CASE ApplyFails(c)
  <2>1. Reloaded(c, FALSE) /\ c.at = "apply" /\ served' = served
    BY <1>5 DEF ApplyFails
  <2>2. unserved' \/ (mgr'.names = mgr.names /\ (unserved => unserved'))
    BY <1>5 DEF ApplyFails
  <2>3. ~Obtaining(c)
    BY <2>1 DEF Obtaining
  <2> QED BY <1>0, <2>1, <2>2, <2>3, EndedServe
<1>6. CASE LoadCertificate(c)
  <2>0. c.at = "load" /\ mgr' = mgr
    BY <1>6 DEF LoadCertificate
  <2>1. c.alone => mgr' = Configured
    BY <1>1, <2>0 DEF Current, Loading
  <2>2. CASE mgr.names = {} /\ Reloaded(c, TRUE) /\ UNCHANGED <<served, unserved>>
    <3>1. ~Obtaining(c)
      BY <2>0, <2>2 DEF Obtaining
    <3> QED BY <1>0, <2>0, <2>1, <2>2, <3>1, EndedServe
  <2>3. CASE GoTo(c, "wait")
    BY <1>2, <2>3, GoneOnServe DEF Effective, Loading
  <2>4. CASE served' \in OnDisk /\ Reloaded(c, TRUE)
    <3>1. (served.names = mgr.names)'
      BY <2>0, <2>4 DEF OnDisk
    <3> QED BY <1>0, <2>1, <2>4, <3>1, EndedServe
  <2> QED BY <1>6, <2>2, <2>3, <2>4 DEF LoadCertificate
<1>7. CASE Begin(c)
  <2>1. CASE Reloaded(c, FALSE) /\ unserved' = TRUE
    BY <1>0, <2>1, EndedServe
  <2>2. CASE GoTo(c, "obtaining")
    BY <1>2, <2>2, GoneOnServe DEF Effective, Loading
  <2> QED BY <1>7, <2>1, <2>2 DEF Begin
<1>8. CASE Obtain(c)
  <2>1. Reloaded(c, TRUE) /\ mgr' = mgr /\ served' = Cert(mgr.names) /\ c.at = "obtaining"
    BY <1>8 DEF Obtain, Obtained
  <2>2. c.alone => mgr' = Configured
    BY <1>1, <2>1 DEF Current, Loading
  <2>3. (served.names = mgr.names)'
    BY <2>1 DEF Cert
  <2> QED BY <1>0, <2>1, <2>2, <2>3, EndedServe
<1>9. CASE ObtainFails(c)
  <2>1. Reloaded(c, FALSE) /\ unserved' = TRUE
    BY <1>9 DEF ObtainFails
  <2> QED BY <1>0, <2>1, EndedServe
<1> QED BY <1>3, <1>4, <1>5, <1>6, <1>7, <1>8, <1>9

(* A change that begins has the others no longer alone.                    *)
LEMMA ChangeServe ==
  ASSUME TypeInv, ServeInv, AloneInv, NEW c \in CallSet, c.at = "asked", Change(c)
  PROVE  ServeInv' /\ AloneInv'
<1>0. UNCHANGED <<conf, names, mgr, served, kept, behind, unserved>>
  BY DEF Change, dbVars, mgrVars, reload
<1>1. PICK n : n = [c EXCEPT !.alone = Reloading = {}]
  OBVIOUS
<1>2. n.op = c.op /\ n.at = "asked" /\ n.alone = (Reloading = {})
  BY <1>1 DEF CallSet
<1>3. \A e \in calls : \A d : d = [e EXCEPT !.alone = FALSE] =>
        d.op = e.op /\ d.at = e.at /\ d.alone = FALSE
  BY CallTypes DEF CallSet
<1>4. \A d \in calls' : \/ d = n
                        \/ d \in calls /\ d \notin Reloading
                        \/ d.alone = FALSE /\ Reloading # {}
  BY <1>1, <1>3 DEF Change
<1>5. \A e \in calls : \E d \in calls' : d.at = e.at
  <2>1. TAKE e \in calls
  <2>2. CASE e \in Reloading
    <3>1. [e EXCEPT !.alone = FALSE] \in calls'
      BY <2>2 DEF Change
    <3> QED BY <1>3, <3>1
  <2>3. CASE e \notin Reloading
    BY <2>3 DEF Change
  <2> QED BY <2>2, <2>3
<1>6. ServeInv'
  BY <1>0, <1>5, QuietServe
<1>7. \A d \in Reloading' : d = n \/ (d.alone = FALSE /\ Reloading # {})
  BY <1>4 DEF Reloading
<1>8. AloneInv'
  <2>1. \A d, e \in Reloading' : d.alone => d = e
    BY <1>2, <1>7
  <2>2. Current(n)'
    BY <1>2 DEF Current, Loading
  <2> QED BY <1>7, <2>1, <2>2 DEF AloneInv
<1> QED BY <1>6, <1>8

LEMMA PageServe ==
  ASSUME TypeInv, ServeInv, AloneInv,
         \/ FetchTLS \/ ForceRenewClick
         \/ \E n \in page.polls : Poll(n)
  PROVE  ServeInv' /\ AloneInv'
<1>0. UNCHANGED <<conf, names, mgr, served, kept, behind, unserved>>
  BY DEF FetchTLS, ForceRenewClick, Poll, dbVars, mgrVars, reload
<1>1. \E d : calls' = calls \cup {d} /\ d.op \notin Changing
  <2>1. Request("load").op = "load"
    BY DEF Request
  <2>2. "load" \notin Changing /\ "renew" \notin Changing /\ "poll" \notin Changing
    BY DEF Changing
  <2>3. CASE FetchTLS
    <3>1. calls' = calls \cup {Request("load")}
      BY <2>3 DEF FetchTLS
    <3> QED BY <2>1, <2>2, <3>1
  <2>4. CASE ForceRenewClick
    <3>1. PICK d : d = [Request("renew") EXCEPT !.no = page.clicks + 1]
      OBVIOUS
    <3>2. calls' = calls \cup {d}
      BY <2>4, <3>1 DEF ForceRenewClick
    <3>3. d.op = "renew"
      BY <3>1 DEF Request
    <3> QED BY <2>2, <3>2, <3>3
  <2>5. CASE \E n \in page.polls : Poll(n)
    <3>1. PICK n, d : d = [Request("poll") EXCEPT !.no = n] /\ calls' = calls \cup {d}
      BY <2>5 DEF Poll
    <3>2. d.op = "poll"
      BY <3>1 DEF Request
    <3> QED BY <2>2, <3>1, <3>2
  <2> QED BY <2>3, <2>4, <2>5
<1> QED BY <1>0, <1>1, QuietAlone, QuietServe

LEMMA SaveServe ==
  ASSUME TypeInv, ServeInv, AloneInv, NEW on \in BOOLEAN, NEW keys \in SUBSET Key,
         SaveTLSConfig(on, keys)
  PROVE  ServeInv' /\ AloneInv'
<1> DEFINE c == [Request("save") EXCEPT !.form = [on |-> on, keys |-> keys], !.value = turns + 1]
<1>0. turns \in 0..MaxTurns
  BY DEF TypeInv, Types, PageOK
<1>1. turns < MaxTurns
  BY DEF SaveTLSConfig, Change, Turn
<1>2. turns + 1 \in 0..MaxTurns
  BY <1>0, <1>1, TlsAssumption
<1>3. Request("save") \in CallSet /\ Request("save").at = "asked"
  BY Blanks DEF Op, Changing, Request
<1>4. c \in CallSet /\ c.at = "asked"
  BY <1>2, <1>3 DEF CallSet
<1> QED BY <1>4, ChangeServe DEF SaveTLSConfig

LEMMA NameServe ==
  ASSUME TypeInv, ServeInv, AloneInv, NEW n \in Name, AddTlsDomain(n) \/ DeleteTlsDomain(n)
  PROVE  ServeInv' /\ AloneInv'
<1>1. ASSUME NEW op \in {"add", "delete"}, Change([Request(op) EXCEPT !.arg = n])
      PROVE  ServeInv' /\ AloneInv'
  <2> DEFINE c == [Request(op) EXCEPT !.arg = n]
  <2>1. Request(op) \in CallSet /\ Request(op).at = "asked"
    BY Blanks DEF Op, Changing, Request
  <2>2. c \in CallSet /\ c.at = "asked"
    BY <2>1 DEF CallSet
  <2> QED BY <1>1, <2>2, ChangeServe
<1> QED BY <1>1 DEF AddTlsDomain, DeleteTlsDomain

(* The answers, and the handlers for the button and its timer.             *)
LEMMA QuietSteps ==
  ASSUME TypeInv, ServeInv, AloneInv, NEW c \in calls,
         \/ Answer(c) \/ Lose(c) \/ ForceRenew(c) \/ RenewStatus(c)
  PROVE  ServeInv' /\ AloneInv'
<1>0. UNCHANGED <<conf, names, mgr, served, kept, behind, unserved>>
  BY DEF Answer, Lose, ForceRenew, RenewStatus, dbVars, mgrVars, reload
<1>1. c \in CallSet /\ (c.at \in Effective => c.op \in Changing /\ c.at # "done")
  BY CallTypes DEF Effective, Loading
<1>2. ASSUME c.at \notin Effective, \A e \in calls : e # c => e \in calls',
             \A e \in calls' : e \in calls \/ e.op \notin Changing \/ e.at = "done"
      PROVE  ServeInv' /\ AloneInv'
  BY <1>0, <1>2, QuietAlone, QuietServe
<1>3. CASE Answer(c)
  <2>1. Request("load").op \notin Changing
    BY DEF Request, Changing
  <2>2. calls' = calls \ {c} \/ calls' = (calls \ {c}) \cup {Request("load")}
    <3>1. c.op = "poll" /\ c.ok => c.says \in {"in progress", "failed", "renewed"}
      BY <1>3, CallTypes DEF CallOK, CallSet, Answer
    <3>2. CASE Polled(c)
      BY <3>1, <3>2 DEF Polled, Then, Replace
    <3>3. CASE ~Polled(c)
      BY <1>3, <3>3 DEF Answer, Loaded, Changed, RenewStarted, Then, Replace
    <3> QED BY <3>2, <3>3
  <2> QED BY <1>1, <1>2, <1>3, <2>1, <2>2 DEF Answer
<1>4. CASE ForceRenew(c)
  <2>1. \E ok \in BOOLEAN : Tell(c, ok, {}, "")
    BY <1>4 DEF ForceRenew, Refuse, Answered
  <2>2. PICK d : Stepped(c, d) /\ d.at = "done"
    BY <2>1, ToldStepped
  <2> QED BY <1>1, <1>2, <1>4, <2>2 DEF Stepped, ForceRenew, Changing
<1>5. CASE RenewStatus(c)
  <2>1. \/ \E says \in {"in progress", "failed", "renewed"} : Tell(c, TRUE, {}, says)
        \/ GoTo(c, "result")
    BY <1>5 DEF RenewStatus
  <2>2. PICK d : Stepped(c, d)
    BY <2>1, ToldStepped, GoToStepped
  <2> QED BY <1>1, <1>2, <1>5, <2>2 DEF Stepped, RenewStatus, Changing
<1>6. CASE Lose(c)
  <2>1. CASE calls' = calls \ {c} /\ c.at = "done"
    BY <1>1, <1>2, <2>1
  <2>2. CASE calls' = (calls \ {c}) \cup {[c EXCEPT !.lost = TRUE]} /\ c.at # "done"
    <3>1. PICK d : d = [c EXCEPT !.lost = TRUE]
      OBVIOUS
    <3>2. /\ d.op = c.op /\ d.at = c.at /\ d.alone = c.alone /\ d.conf = c.conf
          /\ d.names = c.names
      BY <1>1, <3>1 DEF CallSet
    <3>3. Stepped(c, d) /\ d \in calls'
      BY <2>2, <3>1, <3>2 DEF Stepped
    <3>4. d.op \in Changing /\ d.alone /\ d.at # "done" => Current(d)'
      <4>1. c.op \in Changing /\ c.alone => Current(c)
        BY <2>2 DEF AloneInv, Reloading
      <4> QED BY <1>0, <3>2, <4>1 DEF Current, Configured
    <3>5. AloneInv'
      BY <1>0, <2>2, <3>3, <3>4, AloneStep
    <3>6. \A e \in calls : \E f \in calls' : f.at = e.at
      BY <3>2, <3>3 DEF Stepped
    <3> QED BY <1>0, <3>5, <3>6, QuietServe
  <2> QED BY <1>6, <2>1, <2>2 DEF Lose, Then, Replace
<1> QED BY <1>3, <1>4, <1>5, <1>6

LEMMA ManageServe ==
  ASSUME TypeInv, ServeInv, AloneInv, Manage \/ Age \/ ContextEnds
  PROVE  ServeInv' /\ AloneInv'
<1>0. UNCHANGED <<conf, names, mgr, calls, kept, behind>>
  BY DEF Manage, Age, ContextEnds, RenewBegins, RenewObtains, RenewEnds, Tick, LoopBegins,
         LoopObtains, Obtained, NotObtained, dbVars, mgrVars, reload
<1>1. AloneInv'
  BY <1>0, QuietAlone
<1>2. CASE Obtained
  <2>1. (served.names = mgr.names)'
    BY <1>0, <1>2 DEF Obtained, Cert
  <2>2. (behind \/ mgr = Configured \/ \E c \in calls : c.at \in Effective)'
    BY <1>0 DEF ServeInv, Configured
  <2>3. (conf.creds = kept)'
    BY <1>0 DEF ServeInv
  <2> QED BY <1>1, <2>1, <2>2, <2>3 DEF ServeInv
<1>3. CASE unserved' = unserved /\ served'.names = served.names
  BY <1>0, <1>1, <1>3, QuietServe
<1>4. CASE RenewBegins \/ RenewEnds \/ Tick \/ LoopBegins \/ ContextEnds
  <2>1. unserved' = unserved /\ served' = served
    BY <1>4 DEF RenewBegins, RenewEnds, Tick, LoopBegins, ContextEnds, mgrVars, reload
  <2> QED BY <1>3, <2>1
<1>5. CASE RenewObtains \/ LoopObtains
  <2>1. Obtained \/ (unserved' = unserved /\ served' = served)
    BY <1>5 DEF RenewObtains, LoopObtains, NotObtained
  <2> QED BY <1>2, <1>3, <2>1
<1>6. CASE Age
  <2>1. served \in CertSet
    BY DEF TypeInv, Types, MgrOK
  <2>2. unserved' = unserved /\ served'.names = served.names
    BY <1>6, <2>1 DEF Age, reload, CertSet
  <2> QED BY <1>3, <2>2
<1> QED BY <1>4, <1>5, <1>6 DEF Manage

LEMMA RestartServe ==
  ASSUME TypeInv, ServeInv, AloneInv, Restart
  PROVE  ServeInv' /\ AloneInv'
<1>1. \A d \in calls' : d.at = "done"
  <2>1. \A op \in Op : Request(op) \in CallSet
    BY Blanks
  <2>2. \A c \in calls : c.op \in Op
    BY CallTypes DEF CallSet
  <2>3. \A c \in calls : \A d : d = [Request(c.op) EXCEPT !.no = c.no, !.at = "done"] => d.at = "done"
    BY <2>1, <2>2 DEF CallSet
  <2> QED BY <2>3 DEF Restart
<1>2. AloneInv'
  BY <1>1 DEF AloneInv, Reloading
<1>3. UNCHANGED <<conf, names, kept>> /\ mgr' = Configured
  BY DEF Restart, dbVars
<1>4. (mgr = Configured)' /\ (conf.creds = kept)'
  BY <1>3 DEF Configured, ServeInv
<1>5. unserved' \/ (served.names = mgr.names)'
  <2> DEFINE ns == mgr'.names
             found == {d \in disk : d.names = ns}
  <2>1. Cert(ns).names = ns /\ (ns = {} => NoCert.names = ns) /\ \A d \in found : d.names = ns
    BY DEF Cert, NoCert
  <2>2. \/ served' \in IF ns = {} THEN {NoCert} ELSE found
        \/ served' = Cert(ns) \/ unserved'
    BY DEF Restart
  <2> QED BY <2>1, <2>2
<1> QED BY <1>2, <1>4, <1>5 DEF ServeInv

LEMMA ServeStep == TypeInv /\ ServeInv /\ AloneInv /\ [Next]_vars => ServeInv' /\ AloneInv'
<1> SUFFICES ASSUME TypeInv, ServeInv, AloneInv, [Next]_vars PROVE ServeInv' /\ AloneInv'
  OBVIOUS
<1>1. ASSUME NEW c \in calls,
             \/ Handle(c) \/ Answer(c) \/ Lose(c)
             \/ StatementFails(c) \/ ApplyFails(c) \/ ObtainFails(c)
      PROVE  ServeInv' /\ AloneInv'
  <2>1. ASSUME ForceRenew(c) \/ RenewStatus(c) \/ Answer(c) \/ Lose(c)
        PROVE  ServeInv' /\ AloneInv'
    BY <2>1, QuietSteps
  <2>2. ASSUME \/ GetTLS(c) \/ ReadConfig(c) \/ SetConfig(c) \/ SetNames(c) \/ BuildConfig(c)
               \/ StatementFails(c)
        PROVE  ServeInv' /\ AloneInv'
    BY <2>2, HandlerAlone, DbServe
  <2>3. ASSUME \/ Disable(c) \/ Apply(c) \/ ApplyFails(c) \/ LoadCertificate(c) \/ Begin(c)
               \/ Obtain(c) \/ ObtainFails(c)
        PROVE  ServeInv' /\ AloneInv'
    BY <2>3, HandlerAlone, ReloadServe
  <2> QED BY <1>1, <2>1, <2>2, <2>3 DEF Handle
<1>2. CASE UNCHANGED vars
  <2>1. UNCHANGED <<conf, names, mgr, served, calls, kept, behind, unserved>>
    BY <1>2 DEF vars, dbVars, mgrVars, reload
  <2> QED BY <2>1, QuietAlone, QuietServe
<1> QED BY <1>1, <1>2, ManageServe, RestartServe, PageServe, SaveServe, NameServe DEF Next

(* What is saved is stored, and what is stored is what the manager has and *)
(* serves, for any names, credentials, faults and interleavings of changes *)
(* with renewals and restarts.                                             *)
THEOREM StoredIsServed == Spec => []ServesStored
<1>1. Init => TypeInv /\ ServeInv /\ AloneInv
  <2>1. ASSUME Init PROVE ServeInv /\ AloneInv
    <3>1. mgr = Configured /\ served.names = mgr.names /\ conf.creds = kept /\ calls = {}
      BY <2>1 DEF Init, Cert, NoConf
    <3> QED BY <3>1 DEF ServeInv, AloneInv, Reloading
  <2> QED BY <2>1, InitTypes
<1>2. TypeInv /\ ServeInv /\ AloneInv /\ [Next]_vars => (TypeInv /\ ServeInv /\ AloneInv)'
  BY TypeStep, ServeStep
<1>3. TypeInv /\ ServeInv => ServesStored
  <2> SUFFICES ASSUME TypeInv, ServeInv PROVE ServesStored
    OBVIOUS
  <2>1. \A c \in calls : c.at \in Effective => c \in Reloading
    BY CallTypes DEF Reloading, Effective, Loading
  <2>2. \A c \in calls : Obtaining(c) => c \in Reloading
    BY CallTypes DEF Reloading, Obtaining
  <2> QED BY <2>1, <2>2 DEF ServeInv, ServesStored
<1> QED BY <1>1, <1>2, <1>3, PTL DEF Spec
=============================================================================
