------------------------------- MODULE Compose -------------------------------
(***************************************************************************)
(* Writing a mail in the browser: the compose page (Compose.jsx), the      *)
(* draft handlers of the webmail API, and the worker that mails a draft.   *)
(* The page saves the draft by itself three seconds after a change, and    *)
(* the send button, the attach button and the page's own loading make      *)
(* requests of their own: nothing orders them but the user's patience, and *)
(* every answer comes back to a page that may have moved on.               *)
(*                                                                         *)
(* One browser tab shows at most one compose page; a request outlives the  *)
(* page that made it.  The recipients, the subject and the text are one    *)
(* number, raised by every edit, so that two contents are equal only when  *)
(* they are the same version; 0 is an empty page.  Cc and Bcc are kept     *)
(* apart, since an empty list is stored differently from a full one.  What *)
(* the page displays besides (the error, the time of saving) is left out.  *)
(***************************************************************************)
EXTENDS Naturals, Sequences, FiniteSets

CONSTANTS
  Addr,       \* addresses the user may put into Cc or Bcc
  File,       \* files the user may attach
  Existing,   \* drafts stored before
  MaxDrafts,  \* bound: drafts the server stores
  MaxEdits,   \* bound: versions of the content
  MaxPages,   \* bound: how often a compose page is opened
  MaxCalls,   \* bound: requests in progress at one time
  MaxTurns    \* bound: turns out of the ordinary, see Turn

ASSUME ComposeAssumption ==
  /\ Existing \in Nat /\ MaxDrafts \in Nat /\ MaxEdits \in Nat
  /\ MaxPages \in Nat /\ MaxCalls \in Nat /\ MaxTurns \in Nat
  /\ Existing <= MaxEdits /\ Existing <= MaxDrafts

VARIABLES
  \* the server
  drafts,   \* the rows of messages, in the order of creation; ids are places
  jobs,     \* how many send_draft jobs wait for a draft
  hand,     \* the message the worker read, while it works on it
  mails,    \* what was mailed
  \* the browser
  page,     \* the compose page
  calls,    \* requests made and not yet handled by the page's code
  \* the environment
  edits,    \* the last version the user wrote
  turns,    \* turns so far
  \* history
  clicks,   \* what the page showed when the user sent a draft
  kept,     \* files the server took: the page that was told, and the file
  binned,   \* files the user removed
  raced,    \* drafts that were saved automatically around a send
  shaky,    \* the last save of the page overlapped another one, or failed
  excess    \* creations of a page that overlapped another, or whose answer was lost

serverVars == <<drafts, jobs, hand, mails>>
history == <<clicks, kept, binned, raced, shaky, excess>>
vars == <<serverVars, page, calls, edits, turns, history>>

Draft == 1..Len(drafts)
None == 0
Nobody == [id |-> None, body |-> 0]

(* The content a request carries or an answer brings back.                 *)
Content(body, cc) == [body |-> body, cc |-> cc]
Empty == Content(0, {})
Shown == Content(page.body, page.cc)

(* What a request does, and what the page's code does with the answer:     *)
(* "load" fills the page, "save" is the automatic save, "submit" the save  *)
(* of the send button, "send" its second request, "start" the creation of  *)
(* a draft for an attachment, "upload" and "remove" change the attachments *)
(* and "discard" deletes the draft.  The requests that list the attached   *)
(* files for display are left out.                                         *)
Op == {"load", "save", "submit", "send", "start", "upload", "remove", "discard"}

(* The requests that write the content of a draft; they create one when    *)
(* the page knows of none.                                                 *)
Writing == {"save", "submit", "start"}

Call(op, id, what, files) ==
  [op |-> op, page |-> page.no, id |-> id, what |-> what, files |-> files,
   of |-> None, st |-> "asked"]

Blank(no, id) ==
  [no |-> no, open |-> FALSE, loaded |-> None, id |-> id,
   body |-> 0, cc |-> {}, sending |-> FALSE, armed |-> FALSE]

Init ==
  /\ drafts = [d \in 1..Existing |->
                 [state |-> "draft", body |-> d, cc |-> {}, atts |-> {}, by |-> 0]]
  /\ jobs = [d \in 1..MaxDrafts |-> 0]
  /\ hand = Nobody
  /\ mails = {}
  /\ page = Blank(0, None)
  /\ calls = {}
  /\ edits = Existing
  /\ turns = 0
  /\ clicks = {} /\ kept = {} /\ binned = {} /\ raced = {} /\ shaky = FALSE
  /\ excess = [n \in 1..MaxPages |-> 0]

-----------------------------------------------------------------------------
(* The user and the page                                                   *)

(* Bound: what a behaviour has room for beside opening a page, writing and *)
(* sending.  A file, a change of Cc, a removal, a discard, another page, a *)
(* jump in the history and a fault take one turn each.                     *)
Turn == turns < MaxTurns /\ turns' = turns + 1

(* The calls that may still write draft d, and those of page n that will   *)
(* create one.                                                             *)
Writes(d) == {c \in calls : c.op \in Writing /\ c.id = d /\ d # None}
Creates(n) == {c \in calls : c.op \in Writing /\ c.id = None /\ c.page = n}

Ask(cs) == /\ Cardinality(calls \cup cs) <= MaxCalls
           /\ calls' = calls \cup cs

(* A request that writes: overlapping ones may reach the server in any     *)
(* order.  Bound: no two equal ones at a time.                             *)
Write(op, files) ==
  LET others == Writes(page.id) \cup Creates(page.no)
      call == Call(op, page.id, Shown, files) IN
  /\ call \notin calls
  /\ Ask({call})
  /\ shaky' = (others # {})
  /\ excess' = IF page.id = None /\ others # {}
                 THEN [excess EXCEPT ![page.no] = @ + 1]
                 ELSE excess

(* The page is opened empty or with a quotation (reply, forward), or on a  *)
(* draft of the list; every field that is set starts the timer.            *)
Open(d) ==
  /\ ~page.open /\ page.no < MaxPages
  /\ IF page.no = 0 THEN turns' = turns ELSE Turn
  /\ d # None => drafts[d].state = "draft"
  /\ \E n \in IF d = None THEN {0, edits + 1} ELSE {0} :
       /\ n <= MaxEdits
       /\ edits' = IF n = 0 THEN edits ELSE n
       /\ page' = [Blank(page.no + 1, d) EXCEPT !.open = TRUE, !.body = n, !.armed = TRUE]
  /\ IF d = None THEN calls' = calls
     ELSE Ask({[Call("load", d, Empty, {}) EXCEPT !.page = page.no + 1]})
  /\ shaky' = FALSE
  /\ UNCHANGED <<serverVars, clicks, kept, binned, raced, excess>>

(* A jump in the history of the tab from one compose URL to another: the   *)
(* router keeps the page and its state, and the page loads the draft of    *)
(* the URL.  (The compose button of the side bar is a jump to the URL      *)
(* without a draft, which changes nothing.)                                *)
Jump(d) ==
  /\ Turn
  /\ page.open /\ d # page.loaded
  /\ Ask({Call("load", d, Empty, {})})
  /\ UNCHANGED <<serverVars, page, edits, history>>

Edit ==
  /\ page.open /\ edits < MaxEdits
  /\ edits' = edits + 1
  /\ page' = [page EXCEPT !.body = edits + 1, !.armed = TRUE]
  /\ UNCHANGED <<serverVars, calls, turns, history>>

EditCc(a) ==
  /\ Turn
  /\ page.open
  /\ page' = [page EXCEPT !.cc = IF a \in @ THEN @ \ {a} ELSE @ \cup {a}, !.armed = TRUE]
  /\ UNCHANGED <<serverVars, calls, edits, history>>

(* A mutant: no save begins while another one is under way.                *)
PersistUnlessBusy ==
  /\ page.open /\ page.armed
  /\ page' = [page EXCEPT !.armed = FALSE]
  /\ IF page.body = 0 \/ Writes(page.id) \cup Creates(page.no) # {}
       THEN UNCHANGED <<calls, shaky, excess>>
       ELSE Write("save", {})
  /\ UNCHANGED <<serverVars, edits, turns, clicks, kept, binned, raced>>

(* persist, when the timer of three seconds ends.                          *)
Persist ==
  /\ page.open /\ page.armed
  /\ page' = [page EXCEPT !.armed = FALSE]
  /\ IF page.body = 0 THEN UNCHANGED <<calls, shaky, excess, raced>>
     ELSE /\ Write("save", {})
          /\ raced' = IF \/ \E k \in clicks : k.id = page.id
                         \/ \E c \in calls : c.op = "submit" /\ page.id \in {c.id, c.of}
                        THEN raced \cup ({page.id} \ {None}) ELSE raced
  /\ UNCHANGED <<serverVars, edits, turns, clicks, kept, binned>>

(* What the user sends: the content and the files of the page.             *)
Click(d, n, what, files) == [id |-> d, page |-> n, body |-> what.body, files |-> files]
AttachedTo(n) == {f \in File : <<n, f>> \in kept}

(* A mutant: a draft there is already is sent without saving it first.     *)
HandleSendUnsaved ==
  /\ page.open /\ ~page.sending /\ page.body # 0
  /\ page' = [page EXCEPT !.sending = TRUE]
  /\ IF page.id = None THEN Write("submit", AttachedTo(page.no))
     ELSE Ask({Call("send", page.id, Empty, {})}) /\ UNCHANGED <<shaky, excess>>
  /\ clicks' = clicks \cup {Click(d, page.no, Shown, AttachedTo(page.no)) : d \in {page.id} \ {None}}
  /\ UNCHANGED <<serverVars, edits, turns, kept, binned, raced>>

(* handleSend: the button is disabled while a send is under way and        *)
(* without a recipient, and a mail without text is refused.                *)
HandleSend ==
  /\ page.open /\ ~page.sending /\ page.body # 0
  /\ page' = [page EXCEPT !.sending = TRUE]
  /\ Write("submit", AttachedTo(page.no))
  /\ raced' = IF \E c \in Writes(page.id) : c.op = "save"
                THEN raced \cup {page.id} ELSE raced
  /\ clicks' = clicks \cup {Click(d, page.no, Shown, AttachedTo(page.no)) : d \in {page.id} \ {None}}
  /\ UNCHANGED <<serverVars, edits, turns, kept, binned>>

(* handleFiles, with ensureDraft.                                          *)
HandleFiles(f) ==
  /\ Turn
  /\ page.open
  /\ IF page.id = None THEN Write("start", {f})
     ELSE /\ Ask({Call("upload", page.id, Empty, {f})})
          /\ UNCHANGED <<shaky, excess>>
  /\ UNCHANGED <<serverVars, page, edits, clicks, kept, binned, raced>>

(* removeAttachment: the request names the page's draft and the row of the *)
(* attachment, which belongs to the draft it was uploaded to.  The page    *)
(* may display the list of a draft it had before.  The answer only changes *)
(* what is displayed.                                                      *)
RemoveAttachment(d, f) ==
  /\ Turn
  /\ page.open /\ page.id # None
  /\ f \in drafts[d].atts /\ (d = page.id \/ drafts[d].by = page.no)
  /\ Ask({[Call("remove", page.id, Empty, {f}) EXCEPT !.of = d]})
  /\ UNCHANGED <<serverVars, page, edits, history>>

(* A mutant: the discard button is there before the draft is.              *)
HandleDiscardAnyway ==
  /\ Turn
  /\ page.open
  /\ Ask({Call("discard", page.id, Empty, {})})
  /\ UNCHANGED <<serverVars, page, edits, history>>

HandleDiscard ==
  /\ Turn
  /\ page.open /\ page.id # None
  /\ Ask({Call("discard", page.id, Empty, {})})
  /\ UNCHANGED <<serverVars, page, edits, history>>

(* The close button, or a link to another page.                            *)
Leave ==
  /\ page.open
  /\ page' = Blank(page.no, None)
  /\ UNCHANGED <<serverVars, calls, edits, turns, history>>

-----------------------------------------------------------------------------
(* The server                                                              *)

Replace(c, d) == calls' = (calls \ {c}) \cup {d}
Reply(c, d) == Replace(c, [d EXCEPT !.st = "ok"])
Refuse(c) == Replace(c, [c EXCEPT !.st = "failed", !.what = Empty, !.files = {}])

Stored(d) == d \in Draft /\ drafts[d].state # "gone"
IsDraft(d) == d \in Draft /\ drafts[d].state = "draft"

GetMessage(c) ==
  /\ IF Stored(c.id)
       THEN Reply(c, [c EXCEPT !.what = Content(drafts[c.id].body, drafts[c.id].cc)])
       ELSE Refuse(c)
  /\ UNCHANGED <<drafts, jobs, binned>>

CreateDraft(c) ==
  /\ Len(drafts) < MaxDrafts
  /\ drafts' = Append(drafts, [state |-> "draft", body |-> c.what.body, cc |-> c.what.cc,
                               atts |-> {}, by |-> c.page])
  /\ Reply(c, [c EXCEPT !.of = Len(drafts) + 1])
  /\ UNCHANGED <<jobs, binned>>

(* updateDraft: extractAddresses makes no list of an empty one, and the    *)
(* statement keeps what it is given no value for.  Whether the message is  *)
(* still a draft is not asked.                                             *)
UpdateDraft(c) ==
  /\ IF Stored(c.id)
       THEN /\ drafts' = [drafts EXCEPT ![c.id].body = c.what.body,
                                        ![c.id].cc = IF c.what.cc = {} THEN @ ELSE c.what.cc]
            /\ Reply(c, [c EXCEPT !.what = Empty, !.files = {}])
       ELSE /\ Refuse(c)
            /\ drafts' = drafts
  /\ UNCHANGED <<jobs, binned>>

SendDraft(c) ==
  /\ IF IsDraft(c.id)
       THEN jobs' = [jobs EXCEPT ![c.id] = @ + 1] /\ Reply(c, c)
       ELSE jobs' = jobs /\ Refuse(c)
  /\ UNCHANGED <<drafts, binned>>

UploadAttachment(c) ==
  /\ IF IsDraft(c.id)
       THEN drafts' = [drafts EXCEPT ![c.id].atts = @ \cup c.files] /\ Reply(c, c)
       ELSE drafts' = drafts /\ Refuse(c)
  /\ UNCHANGED <<jobs, binned>>

DeleteAttachment(c) ==
  /\ IF Stored(c.id) /\ c.of = c.id /\ c.files \subseteq drafts[c.id].atts
       THEN /\ drafts' = [drafts EXCEPT ![c.id].atts = @ \ c.files]
            /\ binned' = binned \cup c.files
       ELSE UNCHANGED <<drafts, binned>>
  /\ calls' = calls \ {c}
  /\ jobs' = jobs

DeleteMessage(c) ==
  /\ drafts' = [drafts EXCEPT ![c.id].state = "gone", ![c.id].atts = {}]
  /\ Reply(c, c)
  /\ UNCHANGED <<jobs, binned>>

Handle(c) ==
  CASE c.op = "load" -> GetMessage(c)
    [] c.op \in Writing -> IF c.id = None THEN CreateDraft(c) ELSE UpdateDraft(c)
    [] c.op = "send" -> SendDraft(c)
    [] c.op = "upload" -> UploadAttachment(c)
    [] c.op = "remove" -> DeleteAttachment(c)
    [] c.op = "discard" -> DeleteMessage(c)

Serve(c) ==
  /\ c.st = "asked"
  /\ Handle(c)
  /\ UNCHANGED <<hand, mails, page, edits, turns, clicks, kept, raced,
                 shaky, excess>>

(* The request fails before it has an effect.                              *)
Fail(c) ==
  /\ Turn
  /\ c.st = "asked"
  /\ IF c.op = "remove" THEN calls' = calls \ {c} ELSE Refuse(c)
  /\ UNCHANGED <<serverVars, page, edits, history>>

(* The answer is lost: the browser takes the request for failed.           *)
Lose(c) ==
  /\ Turn
  /\ c.st = "ok"
  /\ Refuse(c)
  /\ excess' = IF c.op \in Writing /\ c.id = None
                 THEN [excess EXCEPT ![c.page] = @ + 1] ELSE excess
  /\ UNCHANGED <<serverVars, page, edits, clicks, kept, binned, raced, shaky>>

-----------------------------------------------------------------------------
(* The answers                                                             *)

Mine(c) == page.open /\ c.page = page.no
Then(c, cs) == calls' = (calls \ {c}) \cup cs

(* The page's draft is now d, and the timer starts anew.                   *)
Adopt(c, d, cs) ==
  /\ Then(c, cs)
  /\ page' = IF Mine(c) /\ page.id # d THEN [page EXCEPT !.id = d, !.armed = TRUE] ELSE page

(* The fields become those of the draft the answer brings, whatever the    *)
(* page shows by then.                                                     *)
Loaded(c) ==
  /\ c.op = "load" /\ c.st = "ok"
  /\ Then(c, {})
  /\ page' = IF Mine(c)
               THEN [page EXCEPT !.body = c.what.body, !.cc = c.what.cc, !.loaded = c.id,
                                 !.armed = @ \/ c.what # Shown]
               ELSE page
  /\ UNCHANGED <<clicks, kept, shaky>>

Saved(c) ==
  /\ c.op = "save" /\ c.st = "ok"
  /\ IF c.id = None THEN Adopt(c, c.of, {}) ELSE Then(c, {}) /\ page' = page
  /\ UNCHANGED <<clicks, kept, shaky>>

(* handleSend goes on: the draft is up to date, and is sent.               *)
Submitted(c) ==
  /\ c.op = "submit" /\ c.st = "ok"
  /\ LET d == IF c.id = None THEN c.of ELSE c.id
         send == {[Call("send", d, Empty, {}) EXCEPT !.page = c.page]} IN
     IF c.id = None
       THEN Adopt(c, d, send) /\ clicks' = clicks \cup {Click(d, c.page, c.what, c.files)}
       ELSE Then(c, send) /\ UNCHANGED <<page, clicks>>
  /\ UNCHANGED <<kept, shaky>>

(* The draft is queued, and whatever page is open makes way for the inbox. *)
Sent(c) ==
  /\ c.op = "send" /\ c.st = "ok"
  /\ Then(c, {})
  /\ page' = Blank(page.no, None)
  /\ UNCHANGED <<clicks, kept, shaky>>

NotSent(c) ==
  /\ c.op \in {"submit", "send"} /\ c.st = "failed"
  /\ Then(c, {})
  /\ page' = IF Mine(c) THEN [page EXCEPT !.sending = FALSE] ELSE page
  /\ shaky' = (shaky \/ c.op = "submit")
  /\ UNCHANGED <<clicks, kept>>

(* A mutant: ensureDraft does not set the page's draft.                    *)
StartedForgotten(c) ==
  /\ c.op = "start" /\ c.st = "ok"
  /\ Then(c, {[Call("upload", c.of, Empty, c.files) EXCEPT !.page = c.page]})
  /\ UNCHANGED <<page, clicks, kept, shaky>>

(* ensureDraft returned: the file follows.                                 *)
Started(c) ==
  /\ c.op = "start" /\ c.st = "ok"
  /\ Adopt(c, c.of, {[Call("upload", c.of, Empty, c.files) EXCEPT !.page = c.page]})
  /\ UNCHANGED <<clicks, kept, shaky>>

(* The upload worked, or its error is displayed.                           *)
Uploaded(c) ==
  /\ c.op = "upload" /\ c.st \in {"ok", "failed"}
  /\ Then(c, {})
  /\ kept' = IF c.st = "ok" THEN kept \cup ({c.page} \X c.files) ELSE kept
  /\ UNCHANGED <<page, clicks, shaky>>

(* Discarded or not, the user is taken back.                               *)
Discarded(c) ==
  /\ c.op = "discard" /\ c.st \in {"ok", "failed"}
  /\ Then(c, {})
  /\ page' = Blank(page.no, None)
  /\ UNCHANGED <<clicks, kept, shaky>>

(* Nothing comes of other failures; of a failed save the user learns not   *)
(* even that.                                                              *)
GivenUp(c) ==
  /\ c.op \in {"load", "save", "start"} /\ c.st = "failed"
  /\ Then(c, {})
  /\ shaky' = (shaky \/ c.op \in Writing)
  /\ UNCHANGED <<page, clicks, kept>>

Answer(c) ==
  /\ \/ Loaded(c) \/ Saved(c) \/ Submitted(c) \/ Sent(c) \/ NotSent(c)
     \/ Started(c) \/ Uploaded(c) \/ Discarded(c) \/ GivenUp(c)
  /\ UNCHANGED <<serverVars, edits, turns, binned, raced, excess>>

-----------------------------------------------------------------------------
(* The worker: module Outbound has its failures and retries                *)

Take(d) ==
  /\ hand = Nobody /\ jobs[d] > 0
  /\ jobs' = [jobs EXCEPT ![d] = @ - 1]
  /\ hand' = IF IsDraft(d) THEN [id |-> d, body |-> drafts[d].body] ELSE Nobody
  /\ UNCHANGED <<drafts, mails, page, calls, edits, turns, history>>

(* The attachments are read after the message; when they cannot be read,   *)
(* the mail goes without them.                                             *)
Mail ==
  LET d == hand.id IN
  /\ hand # Nobody
  /\ hand' = Nobody
  /\ \E bare \in BOOLEAN :
       /\ IF bare THEN Turn ELSE turns' = turns
       /\ mails' = mails \cup {[id |-> d, body |-> hand.body, bare |-> bare,
                                files |-> IF bare THEN {} ELSE drafts[d].atts]}
  /\ drafts' = IF Stored(d) THEN [drafts EXCEPT ![d].state = "sent"] ELSE drafts
  /\ UNCHANGED <<jobs, page, calls, edits, history>>

Next ==
  \/ Open(None)
  \/ \E d \in Draft : Open(d) \/ Jump(d) \/ Take(d)
  \/ Edit \/ (\E a \in Addr : EditCc(a)) \/ Persist \/ HandleSend
  \/ \E f \in File : HandleFiles(f) \/ \E d \in Draft : RemoveAttachment(d, f)
  \/ HandleDiscard \/ Leave
  \/ \E c \in calls : Serve(c) \/ Fail(c) \/ Lose(c) \/ Answer(c)
  \/ Mail

Spec == Init /\ [][Next]_vars

-----------------------------------------------------------------------------
(* The page and the requests refer to pages, drafts and versions there are.*)
TypeOK ==
  /\ drafts \in Seq([state : {"draft", "sent", "gone"}, body : 0..edits,
                     cc : SUBSET Addr, atts : SUBSET File, by : 0..page.no])
  /\ Len(drafts) <= MaxDrafts
  /\ jobs \in [1..MaxDrafts -> Nat] /\ \A d \in 1..MaxDrafts : jobs[d] > 0 => d \in Draft
  /\ hand \in [id : Draft \cup {None}, body : 0..edits]
  /\ mails \subseteq [id : Draft, body : 0..edits, bare : BOOLEAN, files : SUBSET File]
  /\ page \in [no : 0..MaxPages, open : BOOLEAN,
               loaded : Draft \cup {None}, id : Draft \cup {None}, body : 0..edits,
               cc : SUBSET Addr, sending : BOOLEAN, armed : BOOLEAN]
  /\ calls \subseteq [op : Op, page : 1..page.no, id : Draft \cup {None},
                      what : [body : 0..edits, cc : SUBSET Addr], files : SUBSET File,
                      of : Draft \cup {None}, st : {"asked", "ok", "failed"}]
  /\ \A c \in calls : c.id = None => c.op \in Writing /\ (c.st = "ok" => c.of # None)
  /\ edits \in 0..MaxEdits /\ turns \in 0..MaxTurns
  /\ clicks \subseteq [id : Draft, page : 1..page.no, body : 1..edits, files : SUBSET File]
  /\ kept \subseteq (1..page.no) \X File /\ binned \subseteq File
  /\ raced \subseteq Draft /\ shaky \in BOOLEAN
  /\ excess \in [1..MaxPages -> Nat]

(* Mail goes out as the page showed it when the user pressed Send: with    *)
(* an older or a newer text only when the page's automatic save of that    *)
(* draft was under way at the click, or was made after it; and with the    *)
(* files the page had reported as attached, unless the page had made two   *)
(* drafts, the worker could not read the attachments, or the user removed  *)
(* them or the draft meanwhile.                                            *)
MailedAsClicked ==
  \A m \in mails :
    /\ m.id \in raced \/ \E k \in clicks : k.id = m.id /\ k.body = m.body
    /\ \A k \in clicks : k.id = m.id =>
         \/ k.files \subseteq m.files \cup binned
         \/ excess[k.page] > 0 \/ m.bare \/ drafts[m.id].state = "gone"

(* When the page rests (nothing typed since the last save, no save under   *)
(* way) the draft in the mailbox holds what the page shows, whatever was   *)
(* loaded, adopted or sent in between: unless the last save overlapped     *)
(* another one or failed, and except that recipients whose list the user   *)
(* emptied are still stored.                                               *)
QuietMeansSaved ==
  page.open /\ page.body # 0 /\ ~page.armed /\ ~shaky
    /\ Writes(page.id) \cup Creates(page.no) = {} =>
      /\ page.id # None
      /\ Stored(page.id) => /\ drafts[page.id].body = page.body
                            /\ drafts[page.id].cc = page.cc \/ page.cc = {}

(* One page makes one draft, and another one only for each creation that   *)
(* overlapped another or whose answer was lost.                            *)
DraftsEarned ==
  \A n \in 1..page.no : Cardinality({d \in Draft : drafts[d].by = n}) <= 1 + excess[n]
=============================================================================
